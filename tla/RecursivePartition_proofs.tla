--------------------- MODULE RecursivePartition_proofs ---------------------
(***************************************************************************)
(* Proofs about RecursivePartition, for every tree to start from, whatever *)
(* the sub-Infomaps find, and every order in which tasks run and a cancel  *)
(* comes.                                                                  *)
(***************************************************************************)
EXTENDS RecursivePartition, FiniteSetTheorems, TLAPS

(***************************************************************************)
(* Sums over finite sets. SumFunctionOnSet is defined by recursion over    *)
(* subsets, through a function chosen to satisfy its equation: that there  *)
(* is one, and only one, has to be shown before anything is said of a sum. *)
(***************************************************************************)
\* One step of SumFunctionOnSet, which is a recursive function on the subsets of a set.
SumStep(f, g, s) ==
  IF s = {} THEN 0 ELSE f[CHOOSE x \in s : TRUE] + g[s \ {CHOOSE x \in s : TRUE}]

\* g is that function, on a family of subsets.
Sums(f, F, g) == g = [s \in F |-> SumStep(f, g, s)]

\* A set of natural numbers has a least one.
LEMMA LeastNatural ==
  ASSUME NEW N \in SUBSET Nat, N # {}
  PROVE  \E n \in N : n = 0 \/ n - 1 \in Nat \ N
<1>1. PICK m \in N : TRUE
  OBVIOUS
<1>2. IsFiniteSet(0..m) /\ IsWellFoundedOn(StrictSubsetOrdering(0..m), SUBSET (0..m))
  <2>1. IsFiniteSet(0..m)
    BY FS_Interval
  <2>2. FiniteSubsetsOf(0..m) = SUBSET (0..m)
    BY <2>1, FS_FiniteSubsetsOfFinite
  <2> QED  BY <2>1, <2>2, FS_StrictSubsetOrderingWellFounded
<1> DEFINE T == {0..n : n \in {k \in N : k <= m}}
<1>3. T \subseteq SUBSET (0..m) /\ T # {}
  BY <1>1
<1>4. PICK x \in T : \A y \in T : ~(<<y, x>> \in StrictSubsetOrdering(0..m))
  BY <1>2, <1>3, WFMin
<1>5. PICK n \in N : n <= m /\ x = 0..n
  BY <1>4
<1>6. CASE n = 0
  BY <1>6
<1>7. CASE n # 0 /\ n - 1 \in N
  <2>1. 0..(n - 1) \in T
    BY <1>5, <1>7
  <2>2. 0..(n - 1) \subseteq 0..n /\ n \in 0..n /\ n \notin 0..(n - 1)
    BY <1>5
  <2>3. 0..(n - 1) # 0..n
    BY <2>2
  <2>4. <<0..(n - 1), 0..n>> \in StrictSubsetOrdering(0..m)
    BY <1>3, <1>5, <2>1, <2>2, <2>3 DEF StrictSubsetOrdering
  <2> QED  BY <1>4, <1>5, <2>1, <2>4
<1> QED  BY <1>5, <1>6, <1>7

\* The recursive function exists: by the size of the subsets it is defined on.
LEMMA SumsExist ==
  ASSUME NEW f, NEW S, IsFiniteSet(S)
  PROVE  \E g : Sums(f, SUBSET S, g)
<1> DEFINE Small(n) == {s \in SUBSET S : Cardinality(s) <= n}
           Bad == {n \in Nat : ~ \E g : Sums(f, Small(n), g)}
<1>1. \A s \in SUBSET S : IsFiniteSet(s) /\ Cardinality(s) \in Nat
  BY FS_Subset, FS_CardinalityType
<1>2. Bad = {}
  <2> SUFFICES ASSUME Bad # {} PROVE FALSE
    OBVIOUS
  <2>1. PICK n \in Bad : n = 0 \/ n - 1 \in Nat \ Bad
    BY LeastNatural
  <2>2. CASE n = 0
    <3>1. \A s \in Small(0) : s = {}
      <4> TAKE s \in Small(0)
      <4>1. IsFiniteSet(s) /\ Cardinality(s) = 0
        BY <1>1
      <4> QED  BY <4>1, FS_EmptySet
    <3>2. Sums(f, Small(0), [s \in Small(0) |-> 0])
      BY <3>1 DEF Sums, SumStep
    <3> QED  BY <2>1, <2>2, <3>2
  <2>3. CASE n # 0
    <3>1. n \in Nat /\ n - 1 \in Nat
      BY <2>1, <2>3
    <3>2. PICK g : Sums(f, Small(n - 1), g)
      BY <2>1, <2>3
    <3> DEFINE h == [s \in Small(n) |-> SumStep(f, g, s)]
    <3>3. ASSUME NEW s \in Small(n) PROVE h[s] = SumStep(f, h, s)
      <4>1. CASE s = {}
        BY <3>3, <4>1 DEF SumStep
      <4>2. CASE s # {}
        <5> DEFINE x == CHOOSE y \in s : TRUE
                   r == s \ {x}
        <5>1. x \in s
          BY <4>2
        <5>2. IsFiniteSet(s) /\ Cardinality(s) \in Nat /\ Cardinality(s) <= n
          BY <1>1
        <5> HIDE DEF x
        <5>3. Cardinality(r) = Cardinality(s) - 1
          BY <5>1, <5>2, FS_RemoveElement
        <5>4. r \in Small(n - 1) /\ r \in Small(n)
          BY <1>1, <3>1, <5>2, <5>3
        <5>5. g[r] = SumStep(f, g, r) /\ h[r] = SumStep(f, g, r)
          <6>1. g = [t \in Small(n - 1) |-> SumStep(f, g, t)]
            BY <3>2 DEF Sums
          <6> HIDE DEF r, Small
          <6> QED  BY <5>4, <6>1, Zenon
        <5>6. SumStep(f, h, s) = f[x] + h[r] /\ SumStep(f, g, s) = f[x] + g[r]
          BY <4>2 DEF SumStep, x
        <5> QED  BY <5>5, <5>6
      <4> QED  BY <4>1, <4>2
    <3>4. Sums(f, Small(n), h)
      <4>1. h = [s \in Small(n) |-> h[s]]
        OBVIOUS
      <4> HIDE DEF h, Small
      <4> QED  BY <3>3, <4>1, Zenon DEF Sums
    <3> QED  BY <2>1, <3>4
  <2> QED  BY <2>2, <2>3
<1>3. Cardinality(S) \in Nat
  BY <1>1
<1>4. Small(Cardinality(S)) = SUBSET S
  BY FS_Subset, <1>3
<1> QED  BY <1>2, <1>3, <1>4

\* Induction over the subsets of a finite set, for a set of subsets.
LEMMA SubsetInduction ==
  ASSUME NEW S, IsFiniteSet(S), NEW P,
         \A s \in SUBSET S : (\A x \in s : s \ {x} \in P) => s \in P
  PROVE  SUBSET S \subseteq P
<1> DEFINE Bad == (SUBSET S) \ P
<1> SUFFICES ASSUME Bad # {} PROVE FALSE
  OBVIOUS
<1>1. IsWellFoundedOn(StrictSubsetOrdering(S), SUBSET S)
  <2>1. FiniteSubsetsOf(S) = SUBSET S
    BY FS_FiniteSubsetsOfFinite
  <2>2. IsWellFoundedOn(StrictSubsetOrdering(S), FiniteSubsetsOf(S))
    BY FS_StrictSubsetOrderingWellFounded
  <2> QED  BY <2>1, <2>2
<1>2. PICK s \in Bad : \A y \in Bad : ~(<<y, s>> \in StrictSubsetOrdering(S))
  <2>1. Bad \subseteq SUBSET S
    OBVIOUS
  <2> HIDE DEF Bad
  <2> QED  BY <1>1, <2>1, WFMin
<1>3. \A x \in s : s \ {x} \in P
  <2> TAKE x \in s
  <2>1. <<s \ {x}, s>> \in StrictSubsetOrdering(S)
    BY <1>2 DEF StrictSubsetOrdering
  <2> QED  BY <1>2, <2>1
<1> QED  BY <1>2, <1>3

\* Two such functions agree on the subsets both are defined on.
LEMMA SumsAgree ==
  ASSUME NEW f, NEW S, IsFiniteSet(S), NEW T \in SUBSET S, NEW g, NEW h,
         Sums(f, SUBSET S, g), Sums(f, SUBSET T, h)
  PROVE  g[T] = h[T]
<1> DEFINE P == {s \in SUBSET T : g[s] = h[s]}
<1>1. ASSUME NEW s \in SUBSET T, \A x \in s : s \ {x} \in P PROVE s \in P
  <2>1. g[s] = SumStep(f, g, s) /\ h[s] = SumStep(f, h, s)
    <3>1. s \in SUBSET S
      OBVIOUS
    <3> QED  BY <3>1, Zenon DEF Sums
  <2>2. CASE s = {}
    BY <2>1, <2>2 DEF SumStep
  <2>3. CASE s # {}
    <3> DEFINE x == CHOOSE y \in s : TRUE
    <3>1. x \in s
      BY <2>3
    <3>2. SumStep(f, g, s) = f[x] + g[s \ {x}] /\ SumStep(f, h, s) = f[x] + h[s \ {x}]
      BY <2>3 DEF SumStep
    <3> HIDE DEF x
    <3> QED  BY <1>1, <2>1, <3>1, <3>2
  <2> QED  BY <2>2, <2>3
<1>2. IsFiniteSet(T)
  BY FS_Subset
<1>3. SUBSET T \subseteq P
  <2> HIDE DEF P
  <2> QED  BY <1>1, <1>2, SubsetInduction
<1> QED  BY <1>3

LEMMA SumIsRecursive ==
  ASSUME NEW f, NEW S, IsFiniteSet(S)
  PROVE  \E g : /\ Sums(f, SUBSET S, g)
                /\ \A T \in SUBSET S : SumFunctionOnSet(f, T) = g[T]
<1>1. ASSUME NEW T, IsFiniteSet(T)
      PROVE  \E h : Sums(f, SUBSET T, h) /\ SumFunctionOnSet(f, T) = h[T]
  <2> DEFINE h == CHOOSE h : h = [s \in SUBSET T |-> SumStep(f, h, s)]
  <2>1. SumFunctionOnSet(f, T) = h[T]
    BY DEF SumFunctionOnSet, FoldFunctionOnSet, MapThenFoldSet, SumStep
  <2>2. \E k : k = [s \in SUBSET T |-> SumStep(f, k, s)]
    BY <1>1, SumsExist DEF Sums
  <2>3. h = [s \in SUBSET T |-> SumStep(f, h, s)]
    BY <2>2, Zenon
  <2> HIDE DEF h
  <2> QED  BY <2>1, <2>3 DEF Sums
<1>2. PICK g : Sums(f, SUBSET S, g)
  BY SumsExist
<1>3. ASSUME NEW T \in SUBSET S PROVE SumFunctionOnSet(f, T) = g[T]
  <2>1. PICK h : Sums(f, SUBSET T, h) /\ SumFunctionOnSet(f, T) = h[T]
    BY <1>1, FS_Subset
  <2> QED  BY <1>2, <2>1, SumsAgree
<1> QED  BY <1>2, <1>3

-----------------------------------------------------------------------------
\* f is integer on S.
Integral(f, S) == \A x \in S : f[x] \in Int

LEMMA SumEmpty == \A f : SumFunctionOnSet(f, {}) = 0
<1> TAKE f
<1>1. PICK g : Sums(f, SUBSET {}, g) /\ \A T \in SUBSET {} : SumFunctionOnSet(f, T) = g[T]
  BY SumIsRecursive, FS_EmptySet
<1>2. g[{}] = SumStep(f, g, {})
  BY <1>1, Zenon DEF Sums
<1> QED  BY <1>1, <1>2 DEF SumStep

LEMMA SumIsInteger ==
  ASSUME NEW f, NEW S, IsFiniteSet(S), Integral(f, S)
  PROVE  SumFunctionOnSet(f, S) \in Int
<1>1. PICK g : Sums(f, SUBSET S, g) /\ \A T \in SUBSET S : SumFunctionOnSet(f, T) = g[T]
  BY SumIsRecursive
<1> DEFINE P == {s \in SUBSET S : g[s] \in Int}
<1>2. ASSUME NEW s \in SUBSET S, \A x \in s : s \ {x} \in P PROVE s \in P
  <2>1. g[s] = SumStep(f, g, s)
    BY <1>1, Zenon DEF Sums
  <2>2. CASE s = {}
    BY <2>1, <2>2 DEF SumStep
  <2>3. CASE s # {}
    <3> DEFINE x == CHOOSE y \in s : TRUE
    <3>1. x \in s
      BY <2>3
    <3>2. g[s] = f[x] + g[s \ {x}]
      BY <2>1, <2>3 DEF SumStep
    <3> HIDE DEF x
    <3> QED  BY <1>2, <3>1, <3>2 DEF Integral
  <2> QED  BY <2>2, <2>3
<1>3. SUBSET S \subseteq P
  <2> HIDE DEF P
  <2> QED  BY <1>2, SubsetInduction
<1> QED  BY <1>1, <1>3

\* Any element may be taken out first.
LEMMA SumWithout ==
  ASSUME NEW f, NEW S, IsFiniteSet(S), Integral(f, S), NEW a \in S
  PROVE  SumFunctionOnSet(f, S) = f[a] + SumFunctionOnSet(f, S \ {a})
<1>1. PICK g : Sums(f, SUBSET S, g) /\ \A T \in SUBSET S : SumFunctionOnSet(f, T) = g[T]
  BY SumIsRecursive
<1>2. \A s \in SUBSET S : g[s] \in Int
  <2> TAKE s \in SUBSET S
  <2>1. IsFiniteSet(s) /\ Integral(f, s)
    BY FS_Subset DEF Integral
  <2> QED  BY <1>1, <2>1, SumIsInteger
<1> DEFINE P == {s \in SUBSET S : \A x \in s : g[s] = f[x] + g[s \ {x}]}
<1>3. ASSUME NEW s \in SUBSET S, \A x \in s : s \ {x} \in P PROVE s \in P
  <2> SUFFICES ASSUME NEW x \in s PROVE g[s] = f[x] + g[s \ {x}]
    OBVIOUS
  <2> DEFINE c == CHOOSE y \in s : TRUE
  <2>1. c \in s
    OBVIOUS
  <2>2. g[s] = f[c] + g[s \ {c}]
    <3>1. g[s] = SumStep(f, g, s)
      BY <1>1, Zenon DEF Sums
    <3> QED  BY <3>1 DEF SumStep
  <2> HIDE DEF c
  <2>3. CASE x = c
    BY <2>2, <2>3
  <2>4. CASE x # c
    <3>1. g[s \ {c}] = f[x] + g[(s \ {c}) \ {x}]
      BY <1>3, <2>1, <2>4
    <3>2. g[s \ {x}] = f[c] + g[(s \ {x}) \ {c}]
      BY <1>3, <2>1, <2>4
    <3>3. (s \ {c}) \ {x} = (s \ {x}) \ {c}
      OBVIOUS
    <3> DEFINE r == (s \ {x}) \ {c}
    <3>4. f[x] \in Int /\ f[c] \in Int /\ g[r] \in Int
      BY <1>2, <2>1 DEF Integral
    <3> HIDE DEF r
    <3>5. g[s \ {c}] = f[x] + g[r] /\ g[s \ {x}] = f[c] + g[r]
      BY <3>1, <3>2, <3>3 DEF r
    <3> QED  BY <2>2, <3>4, <3>5
  <2> QED  BY <2>3, <2>4
<1>4. SUBSET S \subseteq P
  <2> HIDE DEF P
  <2> QED  BY <1>3, SubsetInduction
<1>5. g[S] = f[a] + g[S \ {a}]
  BY <1>4
<1> QED  BY <1>1, <1>5

LEMMA SumSingle ==
  ASSUME NEW f, NEW a, f[a] \in Int
  PROVE  SumFunctionOnSet(f, {a}) = f[a]
<1>1. IsFiniteSet({a}) /\ Integral(f, {a}) /\ {a} \ {a} = {}
  BY FS_Singleton DEF Integral
<1>2. SumFunctionOnSet(f, {a}) = f[a] + SumFunctionOnSet(f, {a} \ {a})
  BY <1>1, SumWithout
<1> QED  BY <1>1, <1>2, SumEmpty

\* Disjoint sets add up.
LEMMA SumUnion ==
  ASSUME NEW f, NEW S, NEW T, IsFiniteSet(S), IsFiniteSet(T), S \cap T = {},
         Integral(f, S), Integral(f, T)
  PROVE  SumFunctionOnSet(f, S \cup T) = SumFunctionOnSet(f, S) + SumFunctionOnSet(f, T)
<1> DEFINE Sum(U) == SumFunctionOnSet(f, U)
           P == {s \in SUBSET S : Sum(s \cup T) = Sum(s) + Sum(T)}
<1>1. \A s \in SUBSET S : /\ IsFiniteSet(s) /\ Integral(f, s) /\ Sum(s) \in Int
                          /\ IsFiniteSet(s \cup T) /\ Integral(f, s \cup T)
  <2> TAKE s \in SUBSET S
  <2>1. IsFiniteSet(s) /\ IsFiniteSet(s \cup T)
    BY FS_Subset, FS_Union
  <2>2. Integral(f, s) /\ Integral(f, s \cup T)
    BY DEF Integral
  <2> QED  BY <2>1, <2>2, SumIsInteger
<1>2. Sum(T) \in Int
  BY SumIsInteger
<1>3. ASSUME NEW s \in SUBSET S, \A x \in s : s \ {x} \in P PROVE s \in P
  <2>1. CASE s = {}
    <3>1. s \cup T = T
      BY <2>1
    <3>2. Sum(s) = 0
      BY <2>1, SumEmpty
    <3> QED  BY <1>2, <3>1, <3>2
  <2>2. CASE s # {}
    <3>1. PICK x \in s : TRUE
      BY <2>2
    <3>2. (s \cup T) \ {x} = (s \ {x}) \cup T
      OBVIOUS
    <3>3. Sum(s) = f[x] + Sum(s \ {x})
      <4>1. IsFiniteSet(s) /\ Integral(f, s)
        BY <1>1
      <4> QED  BY <4>1, SumWithout
    <3>4. Sum(s \cup T) = f[x] + Sum((s \ {x}) \cup T)
      <4>1. IsFiniteSet(s \cup T) /\ Integral(f, s \cup T)
        BY <1>1
      <4>2. Sum(s \cup T) = f[x] + Sum((s \cup T) \ {x})
        BY <4>1, SumWithout
      <4> QED  BY <3>2, <4>2
    <3>5. Sum((s \ {x}) \cup T) = Sum(s \ {x}) + Sum(T)
      BY <1>3
    <3>6. f[x] \in Int /\ Sum(s \ {x}) \in Int
      <4>1. s \ {x} \in SUBSET S
        OBVIOUS
      <4> QED  BY <1>1, <4>1 DEF Integral
    <3> HIDE DEF Sum
    <3>7. Sum(s \cup T) = Sum(s) + Sum(T)
      BY <1>2, <3>3, <3>4, <3>5, <3>6
    <3> QED  BY <3>7
  <2> QED  BY <2>1, <2>2
<1>4. SUBSET S \subseteq P
  <2> HIDE DEF P
  <2> QED  BY <1>3, SubsetInduction
<1> QED  BY <1>4

\* Sums of functions that add up pointwise.
LEMMA SumPointwise ==
  ASSUME NEW f, NEW g, NEW h, NEW S, IsFiniteSet(S), Integral(g, S), Integral(h, S),
         \A x \in S : f[x] = g[x] + h[x]
  PROVE  SumFunctionOnSet(f, S) = SumFunctionOnSet(g, S) + SumFunctionOnSet(h, S)
<1> DEFINE F(U) == SumFunctionOnSet(f, U)
           G(U) == SumFunctionOnSet(g, U)
           H(U) == SumFunctionOnSet(h, U)
           P == {s \in SUBSET S : F(s) = G(s) + H(s)}
<1>1. ASSUME NEW s \in SUBSET S, \A x \in s : s \ {x} \in P PROVE s \in P
  <2>1. CASE s = {}
    BY <2>1, SumEmpty
  <2>2. CASE s # {}
    <3>1. PICK x \in s : TRUE
      BY <2>2
    <3>2. /\ IsFiniteSet(s) /\ Integral(f, s) /\ Integral(g, s) /\ Integral(h, s)
          /\ IsFiniteSet(s \ {x}) /\ Integral(g, s \ {x}) /\ Integral(h, s \ {x})
      BY FS_Subset DEF Integral
    <3>3. /\ F(s) = f[x] + F(s \ {x}) /\ G(s) = g[x] + G(s \ {x}) /\ H(s) = h[x] + H(s \ {x})
          /\ G(s \ {x}) \in Int /\ H(s \ {x}) \in Int
      BY <3>2, SumWithout, SumIsInteger
    <3>4. F(s \ {x}) = G(s \ {x}) + H(s \ {x}) /\ f[x] = g[x] + h[x] /\ g[x] \in Int /\ h[x] \in Int
      BY <1>1 DEF Integral
    <3> HIDE DEF F, G, H
    <3>5. F(s) = G(s) + H(s)
      BY <3>3, <3>4
    <3> QED  BY <3>5
  <2> QED  BY <2>1, <2>2
<1>2. SUBSET S \subseteq P
  <2> HIDE DEF P
  <2> QED  BY <1>1, SubsetInduction
<1> QED  BY <1>2

LEMMA SumOfZeros ==
  ASSUME NEW f, NEW S, IsFiniteSet(S), \A x \in S : f[x] = 0
  PROVE  SumFunctionOnSet(f, S) = 0
<1>1. Integral(f, S) /\ \A x \in S : f[x] = f[x] + f[x]
  BY DEF Integral
<1> DEFINE sum == SumFunctionOnSet(f, S)
<1>2. sum = sum + sum
  BY <1>1, SumPointwise
<1>3. sum \in Int
  BY <1>1, SumIsInteger
<1> HIDE DEF sum
<1>4. sum = 0
  BY <1>2, <1>3
<1> QED  BY <1>4 DEF sum

LEMMA SumSame ==
  ASSUME NEW f, NEW g, NEW S, IsFiniteSet(S), Integral(g, S), \A x \in S : f[x] = g[x]
  PROVE  SumFunctionOnSet(f, S) = SumFunctionOnSet(g, S)
<1> DEFINE zero == [x \in S |-> 0]
<1>1. Integral(zero, S) /\ (\A x \in S : zero[x] = 0) /\ \A x \in S : f[x] = g[x] + zero[x]
  BY DEF Integral
<1> HIDE DEF zero
<1>2. SumFunctionOnSet(zero, S) = 0
  BY <1>1, SumOfZeros
<1>3. SumFunctionOnSet(f, S) = SumFunctionOnSet(g, S) + SumFunctionOnSet(zero, S)
  BY <1>1, SumPointwise
<1>4. SumFunctionOnSet(g, S) \in Int
  BY SumIsInteger
<1> QED  BY <1>2, <1>3, <1>4

\* The sums over the parts of a set add up to that over the set.
Parted(part, S, All) ==
  /\ \A x \in S : part[x] \subseteq All
  /\ \A x, y \in S : x = y \/ part[x] \cap part[y] = {}

\* The sum over the union of disjoint parts is the sum of the sums over the parts.
LEMMA SumOfParts ==
  ASSUME NEW f, NEW All, IsFiniteSet(All), Integral(f, All), NEW S, IsFiniteSet(S),
         NEW part, Parted(part, S, All), NEW h,
         \A x \in S : h[x] = SumFunctionOnSet(f, part[x])
  PROVE  SumFunctionOnSet(h, S) = SumFunctionOnSet(f, UNION {part[x] : x \in S})
<1> DEFINE Sum(U) == SumFunctionOnSet(f, U)
           H(U) == SumFunctionOnSet(h, U)
           Whole(U) == UNION {part[x] : x \in U}
           P == {s \in SUBSET S : H(s) = Sum(Whole(s))}
<1>1. \A T \in SUBSET All : IsFiniteSet(T) /\ Integral(f, T) /\ Sum(T) \in Int
  <2> TAKE T \in SUBSET All
  <2>1. IsFiniteSet(T) /\ Integral(f, T)
    BY FS_Subset DEF Integral
  <2> QED  BY <2>1, SumIsInteger
<1>2. Integral(h, S)
  BY <1>1 DEF Integral, Parted
<1>3. ASSUME NEW s \in SUBSET S, \A x \in s : s \ {x} \in P PROVE s \in P
  <2>1. CASE s = {}
    <3>1. Whole(s) = {}
      BY <2>1
    <3> QED  BY <2>1, <3>1, SumEmpty
  <2>2. CASE s # {}
    <3>1. PICK x \in s : TRUE
      BY <2>2
    <3> DEFINE r == s \ {x}
    <3>2. IsFiniteSet(s) /\ Integral(h, s)
      BY <1>2, FS_Subset DEF Integral
    <3>3. H(s) = h[x] + H(r)
      BY <3>2, SumWithout
    <3>a. h[x] = Sum(part[x])
      OBVIOUS
    <3>b. H(r) = Sum(Whole(r))
      <4>1. r \in P
        BY <1>3
      <4> QED  BY <4>1
    <3>4. Whole(s) = part[x] \cup Whole(r) /\ part[x] \cap Whole(r) = {}
      BY DEF Parted
    <3>5. part[x] \in SUBSET All /\ Whole(r) \in SUBSET All
      BY DEF Parted
    <3> HIDE DEF Whole, r
    <3>6. Sum(Whole(s)) = Sum(part[x]) + Sum(Whole(r))
      BY <1>1, <3>4, <3>5, SumUnion
    <3> HIDE DEF Sum, H
    <3>7. H(s) = Sum(Whole(s))
      BY <3>3, <3>a, <3>b, <3>6
    <3> QED  BY <3>7
  <2> QED  BY <2>1, <2>2
<1>4. SUBSET S \subseteq P
  <2> HIDE DEF P
  <2> QED  BY <1>3, SubsetInduction
<1> QED  BY <1>4
-----------------------------------------------------------------------------
(***************************************************************************)
(* Trees of modules.                                                       *)
(***************************************************************************)
Tree(s) == s \in [Modules -> SUBSET Modules] /\ IsTree(s)

Divides(S, m) == S \in SUBSET Modules /\ m \notin S /\ Shares(S, m)

\* b is below one of the sub-modules of a.
Below(s, b, a) == \E c \in s[a] : b \subseteq c

\* What the assumptions say of modules as sets of leaves.
LEMMA ModulesAre ==
  /\ IsFiniteSet(Modules) /\ \A S \in SUBSET Modules : IsFiniteSet(S) /\ Cardinality(S) \in Nat
  /\ \A m \in Modules : m \subseteq Leaves /\ m # {}
  /\ Root \in Modules /\ Leaves \in Modules /\ \A m \in Modules : m \subseteq Root
<1>1. IsFiniteSet(SUBSET Leaves) /\ Modules \subseteq SUBSET Leaves
  BY RecursionAssumption, FS_SUBSET
<1>2. IsFiniteSet(Modules)
  BY <1>1, FS_Subset
<1>3. \A S \in SUBSET Modules : IsFiniteSet(S) /\ Cardinality(S) \in Nat
  BY <1>2, FS_Subset, FS_CardinalityType
<1>4. \A m \in Modules : m \subseteq Leaves /\ m # {}
  BY RecursionAssumption
<1>5. Root \in Modules /\ Root = Leaves
  BY RecursionAssumption DEF Root
<1>6. Leaves \in Modules /\ \A m \in Modules : m \subseteq Root
  BY <1>4, <1>5
<1> QED  BY <1>2, <1>3, <1>4, <1>5, <1>6

\* Sub-modules are smaller, and have one module that they are sub-modules of.
LEMMA SubModules ==
  ASSUME NEW s, Tree(s)
  PROVE  /\ InTree(s) \subseteq Modules /\ Root \in InTree(s) /\ LeafModules(s) \subseteq InTree(s)
         /\ \A m \in Modules : s[m] \subseteq Modules /\ (s[m] # {} => m \in InTree(s))
         /\ \A m \in Modules : \A c \in s[m] :
              c \in InTree(s) /\ c \subseteq m /\ c # m /\ c # {} /\ c # Root /\ m \in InTree(s)
         /\ \A m \in Modules : s[m] # {} => Divides(s[m], m)
<1>1. InTree(s) \subseteq Modules /\ Root \in InTree(s) /\ LeafModules(s) \subseteq InTree(s)
  BY ModulesAre DEF Tree, InTree, LeafModules
<1>2. ASSUME NEW m \in Modules, s[m] # {}
      PROVE  m \in InTree(s) /\ m \notin s[m] /\ Shares(s[m], m)
  BY <1>2 DEF Tree, IsTree
<1>3. \A m \in Modules : s[m] \subseteq Modules
  BY DEF Tree
<1>4. ASSUME NEW m \in Modules, NEW c \in s[m]
      PROVE  c \in InTree(s) /\ c \subseteq m /\ c # m /\ c # {} /\ c # Root
  <2>1. c \in InTree(s) /\ c # m
    BY <1>2 DEF InTree
  <2>2. c \subseteq m
    BY <1>2 DEF Shares
  <2>3. m \subseteq Root
    BY ModulesAre
  <2>4. c # {}
    BY <1>3, ModulesAre
  <2> QED  BY <2>1, <2>2, <2>3, <2>4
<1> QED  BY <1>1, <1>2, <1>3, <1>4 DEF Divides

\* Of two modules in the tree that share a leaf one is below the other.
LEMMA Nested ==
  ASSUME NEW s, Tree(s), NEW a \in InTree(s), NEW b \in InTree(s), a \cap b # {}
  PROVE  a = b \/ Below(s, a, b) \/ Below(s, b, a)
  BY DEF Tree, IsTree, Below

LEMMA BelowIs ==
  ASSUME NEW s, Tree(s), NEW a \in Modules, NEW b, Below(s, b, a)
  PROVE  b \subseteq a /\ b # a /\ s[a] # {} /\ a \in InTree(s)
<1>1. PICK c \in s[a] : b \subseteq c
  BY DEF Below
<1>2. c \subseteq a /\ c # a /\ a \in InTree(s)
  BY SubModules
<1> QED  BY <1>1, <1>2

LEMMA InsideIs ==
  ASSUME NEW s, Tree(s), NEW a \in InTree(s), NEW b \in InTree(s), a \subseteq b, a # b
  PROVE  Below(s, a, b)
<1>1. a \in Modules /\ b \in Modules /\ a \cap b # {}
  BY SubModules, ModulesAre
<1>2. ~Below(s, b, a)
  BY <1>1, BelowIs
<1> QED  BY <1>1, <1>2, Nested

\* A module is a sub-module of one module only.
LEMMA OneParent ==
  ASSUME NEW s, Tree(s), NEW m \in Modules, NEW p \in Modules, NEW c \in s[m], c \in s[p]
  PROVE  m = p
<1>1. /\ m \in InTree(s) /\ p \in InTree(s) /\ c \subseteq m /\ c \subseteq p /\ c # {}
      /\ c # m /\ c # p
  BY SubModules
<1>2. ASSUME NEW a \in InTree(s), NEW b \in InTree(s), c \in s[a], c \in s[b], Below(s, a, b)
      PROVE  FALSE
  <2>0. a \in Modules /\ b \in Modules
    BY SubModules
  <2>1. PICK d \in s[b] : a \subseteq d
    BY <1>2 DEF Below
  <2>2. c \subseteq a /\ c # a /\ c # {}
    BY <1>2, <2>0, SubModules
  <2>3. c = d
    <3>1. Shares(s[b], b)
      BY <2>0, <2>1, SubModules DEF Divides
    <3> QED  BY <1>2, <2>1, <2>2, <3>1 DEF Shares
  <2> QED  BY <2>1, <2>2, <2>3
<1>3. m = p \/ Below(s, m, p) \/ Below(s, p, m)
  BY <1>1, Nested
<1> QED  BY <1>1, <1>2, <1>3

\* A module that shares a leaf with a leaf module contains it.
LEMMA LeafModulesApart ==
  ASSUME NEW s, Tree(s), NEW a \in LeafModules(s), NEW b \in InTree(s), a \cap b # {}
  PROVE  a \subseteq b /\ (b \in LeafModules(s) => a = b)
<1>1. a \in InTree(s) /\ s[a] = {} /\ a \in Modules /\ b \in Modules
  BY SubModules DEF LeafModules
<1>2. ~Below(s, b, a)
  BY <1>1 DEF Below
<1>3. b \in LeafModules(s) => ~Below(s, a, b)
  BY DEF Below, LeafModules
<1>4. Below(s, a, b) => a \subseteq b
  BY <1>1, BelowIs
<1> QED  BY <1>1, <1>2, <1>3, <1>4, Nested

\* Every leaf is in a leaf module: a module that has the leaf and is as small as possible.
LEMMA LeafModuleExists ==
  ASSUME NEW s, Tree(s), NEW l \in Leaves
  PROVE  \E m \in LeafModules(s) : l \in m
<1> DEFINE T == {m \in InTree(s) : l \in m}
<1>1. IsWellFoundedOn(StrictSubsetOrdering(Leaves), SUBSET Leaves)
  <2>1. IsFiniteSet(Leaves)
    BY RecursionAssumption
  <2>2. FiniteSubsetsOf(Leaves) = SUBSET Leaves
    BY <2>1, FS_FiniteSubsetsOfFinite
  <2> QED  BY <2>1, <2>2, FS_StrictSubsetOrderingWellFounded
<1>2. T \subseteq SUBSET Leaves /\ T # {}
  BY SubModules, ModulesAre DEF Root
<1>3. PICK m \in T : \A y \in T : ~(<<y, m>> \in StrictSubsetOrdering(Leaves))
  BY <1>1, <1>2, WFMin
<1>4. ASSUME s[m] # {} PROVE FALSE
  <2>1. m \in Modules /\ Shares(s[m], m)
    BY <1>3, <1>4, SubModules DEF Divides
  <2>2. PICK c \in s[m] : l \in c
    BY <1>3, <2>1 DEF Shares
  <2>3. c \in T /\ c \subseteq m /\ c # m
    BY <2>1, <2>2, SubModules
  <2> QED  BY <1>2, <1>3, <2>3 DEF StrictSubsetOrdering
<1> QED  BY <1>3, <1>4 DEF LeafModules
\* The sub-modules of m, which have none, are replaced by others, or removed.
Replaced(s, t, m, S) ==
  /\ Tree(s) /\ m \in InTree(s) /\ s[m] \subseteq LeafModules(s)
  /\ S = {} \/ Divides(S, m)
  /\ t = [s EXCEPT ![m] = S]

\* A tree stays one when the leaf modules below m, if any, give way to others or to none.
LEMMA ReplacedTree ==
  ASSUME NEW s, NEW t, NEW m, NEW S, Replaced(s, t, m, S)
  PROVE  /\ Tree(t) /\ m \in Modules
         /\ InTree(t) = (InTree(s) \ s[m]) \cup S
         /\ t[m] = S /\ \A n \in Modules \ {m} : t[n] = s[n]
         /\ \A b \in InTree(s) : Below(s, b, m) => b \in s[m]
         /\ \A n \in S : s[n] = {} /\ (n \in InTree(s) => n \in s[m])
<1> USE DEF Replaced
<1>1. m \in Modules /\ s \in [Modules -> SUBSET Modules] /\ S \in SUBSET Modules
  BY SubModules DEF Tree, Divides
<1>2. t \in [Modules -> SUBSET Modules] /\ t[m] = S /\ \A n \in Modules \ {m} : t[n] = s[n]
  BY <1>1
<1>3. ASSUME NEW b \in InTree(s), Below(s, b, m) PROVE b \in s[m]
  <2>1. PICK c \in s[m] : b \subseteq c
    BY <1>3 DEF Below
  <2>2. c \in LeafModules(s) /\ b # {} /\ c \in InTree(s)
    BY <2>1, SubModules, ModulesAre
  <2>3. c \subseteq b
    BY <2>1, <2>2, LeafModulesApart
  <2> QED  BY <2>1, <2>3
<1>4. ASSUME NEW n \in S PROVE n \subseteq m /\ n # m /\ n # {} /\ n \in Modules
  BY <1>1, <1>4, ModulesAre DEF Divides, Shares
<1>5. ASSUME NEW n \in S PROVE s[n] = {} /\ (n \in InTree(s) => n \in s[m])
  <2>1. n \in InTree(s) => n \in s[m]
    BY <1>3, <1>4, InsideIs
  <2>2. s[n] # {} => n \in InTree(s)
    BY <1>4, SubModules
  <2> QED  BY <2>1, <2>2 DEF LeafModules
<1>6. InTree(t) = (InTree(s) \ s[m]) \cup S
  <2>1. ASSUME NEW b \in InTree(t) PROVE b \in (InTree(s) \ s[m]) \cup S
    <3>1. CASE b = Root
      BY <1>1, <3>1, SubModules
    <3>2. ASSUME NEW p \in Modules, b \in t[p] PROVE b \in (InTree(s) \ s[m]) \cup S
      <4>1. CASE p = m
        BY <1>2, <3>2, <4>1
      <4>2. CASE p # m
        <5>1. b \in s[p] /\ b \in InTree(s)
          BY <1>2, <3>2, <4>2, SubModules
        <5>2. b \notin s[m]
          BY <1>1, <3>2, <4>2, <5>1, OneParent
        <5> QED  BY <5>1, <5>2
      <4> QED  BY <4>1, <4>2
    <3> QED  BY <3>1, <3>2 DEF InTree
  <2>2. ASSUME NEW b \in InTree(s), b \notin s[m] PROVE b \in InTree(t)
    <3>1. CASE b = Root
      BY <3>1 DEF InTree
    <3>2. CASE b # Root
      <4>1. PICK p \in Modules : b \in s[p]
        BY <3>2 DEF InTree
      <4>2. b \in t[p]
        BY <1>2, <2>2, <4>1
      <4> QED  BY <4>2 DEF InTree
    <3> QED  BY <3>1, <3>2
  <2>3. S \subseteq InTree(t)
    BY <1>1, <1>2 DEF InTree
  <2> QED  BY <2>1, <2>2, <2>3
<1>7. ASSUME NEW n \in Modules, t[n] # {} PROVE n \in InTree(t) /\ n \notin t[n] /\ Shares(t[n], n)
  <2>1. CASE n = m
    <3>1. m \in InTree(t)
      BY <1>1, <1>6, SubModules
    <3> QED  BY <1>2, <1>7, <2>1, <3>1 DEF Divides
  <2>2. CASE n # m
    <3>1. s[n] # {} /\ t[n] = s[n]
      BY <1>2, <1>7, <2>2
    <3>2. n \in InTree(s) /\ n \notin s[n] /\ Shares(s[n], n)
      BY <3>1, SubModules DEF Divides
    <3>3. n \notin s[m]
      BY <3>1 DEF LeafModules
    <3> QED  BY <1>6, <3>1, <3>2, <3>3
  <2> QED  BY <2>1, <2>2
<1>8. ASSUME NEW a \in InTree(t), NEW b \in InTree(t), a # b, a \cap b # {}
      PROVE  Below(t, a, b) \/ Below(t, b, a)
  <2>1. ASSUME NEW x \in InTree(s), x \notin s[m],
               NEW y \in InTree(s), y \notin s[m], Below(s, x, y)
        PROVE  Below(t, x, y)
    <3>1. y # m
      BY <1>3, <2>1
    <3>2. y \in Modules
      BY SubModules
    <3> QED  BY <1>2, <2>1, <3>1, <3>2 DEF Below
  <2>2. ASSUME NEW x \in S, NEW y \in InTree(s), y \notin s[m], x \cap y # {}
        PROVE  Below(t, x, y)
    <3>1. x \subseteq m /\ y \cap m # {}
      BY <1>4, <2>2
    <3>2. y = m \/ Below(s, m, y)
      BY <1>3, <2>2, <3>1, Nested
    <3>3. CASE y = m
      BY <1>2, <3>3 DEF Below
    <3>4. CASE Below(s, m, y)
      <4>1. y # m /\ y \in Modules
        BY <1>1, <3>4, BelowIs, SubModules
      <4>2. t[y] = s[y]
        BY <1>2, <4>1
      <4> QED  BY <3>1, <3>4, <4>2 DEF Below
    <3> QED  BY <3>2, <3>3, <3>4
  <2>3. CASE a \in S /\ b \in S
    BY <1>8, <2>3 DEF Divides, Shares
  <2>4. CASE a \in S /\ b \notin S
    BY <1>6, <1>8, <2>2, <2>4
  <2>5. CASE a \notin S /\ b \in S
    <3>1. b \cap a # {}
      BY <1>8
    <3> QED  BY <1>6, <2>2, <2>5, <3>1
  <2>6. CASE a \notin S /\ b \notin S
    <3>1. a \in InTree(s) /\ a \notin s[m] /\ b \in InTree(s) /\ b \notin s[m]
      BY <1>6, <2>6
    <3>2. Below(s, a, b) \/ Below(s, b, a)
      BY <1>8, <3>1, Nested
    <3> QED  BY <2>1, <3>1, <3>2
  <2> QED  BY <2>3, <2>4, <2>5, <2>6
<1>9. Tree(t)
  BY <1>2, <1>7, <1>8 DEF Tree, IsTree, Below
<1> QED  BY <1>1, <1>2, <1>3, <1>5, <1>6, <1>9
-----------------------------------------------------------------------------
(***************************************************************************)
(* The leaves' parents.                                                    *)
(***************************************************************************)
Homes(s, parent) ==
  /\ parent \in [Leaves -> Modules]
  /\ \A l \in Leaves : parent[l] \in LeafModules(s) /\ l \in parent[l]

LEMMA PartOfIs ==
  ASSUME NEW parts, NEW l, \E m \in parts : l \in m
  PROVE  PartOf(parts, l) \in parts /\ l \in PartOf(parts, l)
  BY DEF PartOf

\* The leaves that are children of a leaf module are those it was made for.
LEMMA HomesAreWhole ==
  ASSUME NEW s, NEW parent, Tree(s), Homes(s, parent), NEW m \in InTree(s)
  PROVE  {l \in Leaves : parent[l] = m} = IF s[m] = {} THEN m ELSE {}
<1>1. m \in Modules /\ m \subseteq Leaves
  BY SubModules, ModulesAre
<1>2. CASE s[m] # {}
  BY <1>2 DEF Homes, LeafModules
<1>3. CASE s[m] = {}
  <2>1. ASSUME NEW l \in m PROVE parent[l] = m
    <3>1. l \in Leaves /\ parent[l] \in LeafModules(s) /\ l \in parent[l]
      BY <1>1 DEF Homes
    <3>2. m \in LeafModules(s) /\ parent[l] \cap m # {}
      BY <1>3, <3>1 DEF LeafModules
    <3> QED  BY <3>1, <3>2, LeafModulesApart
  <2> QED  BY <1>1, <1>3, <2>1 DEF Homes
<1> QED  BY <1>2, <1>3

\* Each leaf moves to the new module that was made for it.
LEMMA ReplacedHomes ==
  ASSUME NEW s, NEW t, NEW m, NEW S, Replaced(s, t, m, S), NEW parent, Homes(s, parent),
         NEW after,
         after = [l \in Leaves |-> IF l \in m THEN IF S = {} THEN m ELSE PartOf(S, l)
                                               ELSE parent[l]]
  PROVE  Homes(t, after)
<1>a. Tree(s) /\ m \in InTree(s)
  BY DEF Replaced
<1>1. /\ m \in Modules /\ InTree(t) = (InTree(s) \ s[m]) \cup S
      /\ t[m] = S /\ \A n \in Modules \ {m} : t[n] = s[n]
      /\ \A n \in S : s[n] = {}
  BY ReplacedTree
<1>2. ASSUME NEW l \in Leaves PROVE after[l] \in LeafModules(t) /\ l \in after[l]
  <2>1. CASE l \in m /\ S = {}
    <3>1. m \in InTree(t)
      BY <1>a, <1>1, SubModules
    <3> QED  BY <1>1, <2>1, <3>1 DEF LeafModules
  <2>2. CASE l \in m /\ S # {}
    <3>1. Divides(S, m)
      BY <2>2 DEF Replaced
    <3>2. \E c \in S : l \in c
      BY <2>2, <3>1 DEF Divides, Shares
    <3>3. after[l] \in S /\ l \in after[l]
      BY <2>2, <3>2, PartOfIs
    <3>4. after[l] \in Modules \ {m}
      BY <3>1, <3>3 DEF Divides
    <3> QED  BY <1>1, <3>3, <3>4 DEF LeafModules
  <2>3. CASE l \notin m
    <3>1. after[l] = parent[l] /\ parent[l] \in LeafModules(s) /\ l \in parent[l]
      BY <2>3 DEF Homes
    <3>2. parent[l] \in InTree(s) /\ parent[l] \in Modules /\ s[parent[l]] = {}
      BY <1>a, <3>1, SubModules DEF LeafModules
    <3>3. parent[l] \notin s[m] /\ parent[l] # m
      BY <1>a, <1>1, <2>3, <3>1, SubModules
    <3>4. parent[l] \in InTree(t) /\ t[parent[l]] = {}
      BY <1>1, <3>2, <3>3
    <3> QED  BY <3>1, <3>4 DEF LeafModules
  <2> QED  BY <2>1, <2>2, <2>3
<1>3. after \in [Leaves -> Modules]
  <2>1. Tree(t)
    BY ReplacedTree
  <2> QED  BY <1>2, <2>1, SubModules
<1> QED  BY <1>2, <1>3 DEF Homes

\* The first tree, and what removeSubModules leaves of it.
LEMMA FirstHomes ==
  /\ Tree(FirstTree) /\ FirstTree[Root] # {}
  /\ Homes(FirstTree, [l \in Leaves |-> PartOf(LeafModules(FirstTree), l)])
<1>1. Tree(FirstTree) /\ FirstTree[Root] # {}
  BY RecursionAssumption DEF Tree
<1>2. ASSUME NEW l \in Leaves
      PROVE  /\ PartOf(LeafModules(FirstTree), l) \in LeafModules(FirstTree)
             /\ l \in PartOf(LeafModules(FirstTree), l)
  BY <1>1, LeafModuleExists, PartOfIs
<1>3. LeafModules(FirstTree) \subseteq Modules
  BY <1>1, SubModules
<1> QED  BY <1>1, <1>2, <1>3 DEF Homes

OnlyTop(s, t) ==
  /\ t \in [Modules -> SUBSET Modules]
  /\ t[Root] = s[Root] /\ \A m \in Modules \ {Root} : t[m] = {}

\* removeSubModules leaves a tree of two levels.
LEMMA TopModulesOnly ==
  ASSUME NEW s, Tree(s), s[Root] # {}, NEW t, OnlyTop(s, t)
  PROVE  Tree(t) /\ t[Root] # {} /\ Homes(t, [l \in Leaves |-> PartOf(s[Root], l)])
<1>1. /\ Root \in Modules /\ s[Root] \subseteq Modules /\ Divides(s[Root], Root)
      /\ \A c \in s[Root] : c # Root /\ c \subseteq Root /\ c # {}
  BY ModulesAre, SubModules
<1>2. /\ t \in [Modules -> SUBSET Modules] /\ t[Root] = s[Root]
      /\ \A m \in Modules \ {Root} : t[m] = {}
  BY DEF OnlyTop
<1>3. InTree(t) = {Root} \cup s[Root]
  BY <1>1, <1>2 DEF InTree
<1>4. ASSUME NEW m \in Modules, t[m] # {} PROVE m \in InTree(t) /\ m \notin t[m] /\ Shares(t[m], m)
  <2>1. m = Root
    BY <1>2, <1>4
  <2> QED  BY <1>1, <1>2, <1>3, <2>1 DEF Divides
<1>5. ASSUME NEW a \in InTree(t), NEW b \in InTree(t), a # b, a \cap b # {}
      PROVE  Below(t, a, b) \/ Below(t, b, a)
  <2>1. ~(a \in s[Root] /\ b \in s[Root])
    BY <1>1, <1>5 DEF Divides, Shares
  <2>2. (a = Root /\ b \in s[Root]) \/ (b = Root /\ a \in s[Root])
    BY <1>3, <1>5, <2>1
  <2> QED  BY <1>2, <2>2 DEF Below
<1>6. Tree(t)
  BY <1>2, <1>4, <1>5 DEF Tree, IsTree, Below
<1>7. ASSUME NEW l \in Leaves
      PROVE  PartOf(s[Root], l) \in s[Root] /\ l \in PartOf(s[Root], l)
  <2>1. l \in Root
    BY DEF Root
  <2>2. \E c \in s[Root] : l \in c
    BY <1>1, <2>1 DEF Divides, Shares
  <2> QED  BY <2>2, PartOfIs
<1>8. s[Root] \subseteq LeafModules(t)
  BY <1>1, <1>2, <1>3 DEF LeafModules
<1>9. Homes(t, [l \in Leaves |-> PartOf(s[Root], l)])
  BY <1>1, <1>7, <1>8 DEF Homes
<1> QED  BY <1>2, <1>6, <1>9

\* The depth of the deepest leaf module.
LEMMA DepthIsNatural ==
  ASSUME NEW s, Tree(s)
  PROVE  MaxDepth(s) \in Nat
<1> DEFINE D == {Cardinality(Above(s, m)) : m \in LeafModules(s)}
           T == {{y \in D : y >= x} : x \in D}
<1>1. ASSUME NEW m PROVE Cardinality(Above(s, m)) \in 0..Cardinality(Modules)
  <2>1. Above(s, m) \in SUBSET Modules
    BY SubModules DEF Above
  <2>2. Cardinality(Above(s, m)) \in Nat /\ Cardinality(Modules) \in Nat
    BY <2>1, ModulesAre
  <2>3. Cardinality(Above(s, m)) <= Cardinality(Modules)
    BY <2>1, ModulesAre, FS_Subset
  <2> QED  BY <2>2, <2>3
<1>2. IsFiniteSet(D) /\ D \subseteq Nat
  <2>1. D \subseteq 0..Cardinality(Modules)
    BY <1>1
  <2>2. Cardinality(Modules) \in Nat
    BY ModulesAre
  <2>3. IsFiniteSet(0..Cardinality(Modules)) /\ 0..Cardinality(Modules) \subseteq Nat
    BY <2>2, FS_Interval
  <2> HIDE DEF D
  <2> QED  BY <2>1, <2>3, FS_Subset
<1>3. D # {}
  <2>1. CASE Leaves = {}
    BY <2>1, ModulesAre
  <2>2. ASSUME NEW l \in Leaves PROVE D # {}
    BY LeafModuleExists
  <2> QED  BY <2>1, <2>2
<1>4. IsWellFoundedOn(StrictSubsetOrdering(D), SUBSET D)
  <2> HIDE DEF D
  <2>1. FiniteSubsetsOf(D) = SUBSET D
    BY <1>2, FS_FiniteSubsetsOfFinite
  <2> QED  BY <1>2, <2>1, FS_StrictSubsetOrderingWellFounded
<1> HIDE DEF D
<1>5. T \subseteq SUBSET D /\ T # {}
  BY <1>3
<1>6. PICK t \in T : \A y \in T : ~(<<y, t>> \in StrictSubsetOrdering(D))
  BY <1>4, <1>5, WFMin
<1>7. PICK x \in D : t = {y \in D : y >= x}
  BY <1>6
<1>8. ASSUME NEW y \in D, ~(x >= y) PROVE FALSE
  <2>0. x \in Nat /\ y \in Nat
    BY <1>2
  <2> DEFINE u == {z \in D : z >= y}
  <2>1. u \in T
    OBVIOUS
  <2>2. u \subseteq t /\ x \in t /\ x \notin u
    <3>1. ASSUME NEW z \in D, z >= y PROVE z >= x
      BY <1>2, <1>8, <2>0, <3>1
    <3>2. x >= x /\ ~(x >= y)
      BY <1>8, <2>0
    <3> QED  BY <1>7, <3>1, <3>2
  <2>3. <<u, t>> \in StrictSubsetOrdering(D)
    BY <1>5, <1>6, <2>1, <2>2 DEF StrictSubsetOrdering
  <2> QED  BY <1>6, <2>1, <2>3
<1>9. Max(D) \in D
  BY <1>8 DEF Max
<1> QED  BY <1>2, <1>9 DEF MaxDepth, D
-----------------------------------------------------------------------------
(***************************************************************************)
(* The inductive invariant.  The tree is one in every state and every leaf *)
(* is the child of the leaf module it is in; modules that have a task to   *)
(* come, or one that has not split them yet, are leaf modules of the tree, *)
(* and no module is given a second task.                                   *)
(***************************************************************************)
BeforeTasks == pc \in {"begin", "tune", "queue"}

TreeInv ==
  /\ start \in Starts /\ finds \in Findings
  /\ Tree(sub) /\ Homes(sub, leafParent)
  /\ BeforeTasks => sub[Root] # {}
  /\ pc = "begin" => sub = FirstTree

Tunable(s, m) ==
  /\ m \in InTree(s) /\ s[m] # {} /\ s[m] \subseteq LeafModules(s)
  /\ FineTuned[m] # {} /\ Divides(FineTuned[m], m)

TuneInv ==
  /\ pc = "tune" => start.fast = 1 /\ \A m \in toTune : Tunable(sub, m)
  /\ pc = "queue" /\ start.fast = 0 => sub[Root] \subseteq LeafModules(sub)

WorkInv ==
  /\ BeforeTasks => queue = {} /\ \A m \in Modules : task[m] = "none" /\ todo[m] = {}
  /\ \A m \in Modules :
       /\ task[m] # "none" => m \in InTree(sub) \ {Root}
       /\ task[m] \in {"ready", "search"} => sub[m] = {}
       /\ task[m] = "search" => m \in Searched
  /\ \A m \in toSpawn : task[m] = "none" /\ m \in LeafModules(sub) /\ m # Root
  /\ \A m \in Modules : \A n \in todo[m] :
       /\ n \in sub[m] /\ task[n] = "none" /\ sub[n] = {} /\ n \notin toSpawn
       /\ task[m] \in {"spawn", "done"}

TypeInv == TypeOK /\ record = [m \in Modules |-> record[m]]

SafeInv == TypeInv /\ TreeInv /\ TuneInv /\ WorkInv

\* Accept gives a leaf module two or more sub-modules.
LEMMA AcceptReplaces ==
  ASSUME TypeInv, TreeInv, WorkInv, NEW m \in Modules, Accept(m)
  PROVE  Replaced(sub, sub', m, finds[m]) /\ finds[m] # {} /\ sub[m] = {}
<1>1. m \in InTree(sub) /\ sub[m] = {} /\ m \in Searched
  BY DEF Accept, WorkInv
<1>2. finds[m] \in SUBSET Modules /\ Shares(finds[m], m)
  BY <1>1, RecursionAssumption DEF TreeInv
<1>3. m # {}
  BY ModulesAre
<1>4. finds[m] # {}
  BY <1>2, <1>3 DEF Shares
<1>5. m \notin finds[m]
  <2> SUFFICES ASSUME m \in finds[m] PROVE FALSE
    OBVIOUS
  <2>1. ASSUME NEW a \in finds[m] PROVE a = m
    <3>1. a \subseteq m /\ a # {}
      BY <1>2, ModulesAre DEF Shares
    <3> QED  BY <1>2, <3>1 DEF Shares
  <2>2. finds[m] = {m}
    BY <2>1
  <2>3. Cardinality(finds[m]) = 1
    BY <2>2, FS_Singleton
  <2> QED  BY <2>3 DEF Accept, Accepts, Trivial
<1>6. sub' = [sub EXCEPT ![m] = finds[m]]
  BY DEF Accept
<1> QED  BY <1>1, <1>2, <1>4, <1>5, <1>6 DEF Replaced, Divides, TreeInv

\* Fine-tuning a module, done or interrupted, replaces the leaf modules below it.
LEMMA FineTuneReplaces ==
  ASSUME TreeInv, TuneInv, NEW m \in Modules, FineTune(m) \/ FineTuneInterrupted(m)
  PROVE  /\ Tunable(sub, m)
         /\ FineTune(m) => Replaced(sub, sub', m, FineTuned[m])
         /\ FineTuneInterrupted(m) => Replaced(sub, sub', m, {})
<1>1. pc = "tune" /\ m \in toTune
  BY DEF FineTune, FineTuneInterrupted
<1>2. Tunable(sub, m)
  BY <1>1 DEF TuneInv
<1>3. /\ FineTune(m) => sub' = [sub EXCEPT ![m] = FineTuned[m]]
      /\ FineTuneInterrupted(m) => sub' = [sub EXCEPT ![m] = {}]
  BY DEF FineTune, FineTuneInterrupted
<1> QED  BY <1>2, <1>3 DEF Tunable, Replaced, TreeInv

\* Which steps change the tree.
LEMMA TreeChanges ==
  ASSUME [Next]_vars
  PROVE  /\ finds' = finds /\ start' = start /\ gain' = gain
         /\ \/ RemoveSubModules
            \/ \E m \in Modules : FineTune(m) \/ FineTuneInterrupted(m) \/ Accept(m)
            \/ /\ UNCHANGED <<sub, leafParent>>
               /\ BeforeTasks' => BeforeTasks
               /\ pc' = "begin" => pc = "begin"
  BY DEF Next, Owner, Task, vars, world, tree, tasks, sums, RemoveSubModules, KeepSubModules,
         FineTuneDone, FineTune, FineTuneInterrupted, SpawnTop, FillQueue, StopSpawning, Join,
         AfterJoin, AggregateLevel, Store, Enter, KeepLeaves, Interrupted, Reject, Accept,
         Spawn, Leave, RequestInterrupt, BeforeTasks

\* Each step keeps the tree whole.
LEMMA TreeStep ==
  ASSUME SafeInv, [Next]_vars
  PROVE  TreeInv'
<1> USE DEF SafeInv
<1>0. start' \in Starts /\ finds' \in Findings
  BY TreeChanges DEF TreeInv
<1>1. CASE RemoveSubModules
  <2>1. /\ sub' = [m \in Modules |-> IF m = Root THEN sub[Root] ELSE {}]
        /\ leafParent' = [l \in Leaves |-> PartOf(sub[Root], l)]
        /\ pc = "begin" /\ pc' = "queue"
    BY <1>1 DEF RemoveSubModules
  <2>2. Tree(sub) /\ sub[Root] # {}
    BY <2>1 DEF TreeInv, BeforeTasks
  <2>3. OnlyTop(sub, sub')
    BY <2>1, <2>2, ModulesAre, SubModules DEF OnlyTop
  <2>4. Tree(sub') /\ sub'[Root] # {} /\ Homes(sub', leafParent')
    BY <2>1, <2>2, <2>3, TopModulesOnly
  <2> QED  BY <1>0, <2>1, <2>4 DEF TreeInv, Tree, IsTree, Homes, InTree, LeafModules
<1>2. ASSUME NEW m \in Modules, NEW S, Replaced(sub, sub', m, S),
             leafParent' = [l \in Leaves |-> IF l \in m THEN IF S = {} THEN m ELSE PartOf(S, l)
                                                        ELSE leafParent[l]],
             BeforeTasks' => BeforeTasks, BeforeTasks' => S # {}, pc' # "begin"
      PROVE  TreeInv'
  <2>1. Tree(sub') /\ sub'[m] = S /\ \A n \in Modules \ {m} : sub'[n] = sub[n]
    BY <1>2, ReplacedTree
  <2>2. Homes(sub', leafParent')
    BY <1>2, ReplacedHomes DEF TreeInv
  <2>3. BeforeTasks' => sub'[Root] # {}
    BY <1>2, <2>1, ModulesAre DEF TreeInv
  <2> QED  BY <1>0, <1>2, <2>1, <2>2, <2>3 DEF TreeInv, Tree, IsTree, Homes, InTree, LeafModules
<1>3. ASSUME NEW m \in Modules, FineTune(m) PROVE TreeInv'
  <2>1. Replaced(sub, sub', m, FineTuned[m]) /\ FineTuned[m] # {}
    BY <1>3, FineTuneReplaces DEF Tunable
  <2>2. leafParent' = [l \in Leaves |-> IF l \in m THEN PartOf(FineTuned[m], l) ELSE leafParent[l]]
    BY <1>3 DEF FineTune
  <2>3. pc = "tune" /\ pc' = pc
    BY <1>3 DEF FineTune
  <2> QED  BY <1>2, <2>1, <2>2, <2>3 DEF BeforeTasks
<1>4. ASSUME NEW m \in Modules, FineTuneInterrupted(m) PROVE TreeInv'
  <2>1. Replaced(sub, sub', m, {})
    BY <1>4, FineTuneReplaces
  <2>2. leafParent' = [l \in Leaves |-> IF l \in m THEN m ELSE leafParent[l]]
    BY <1>4 DEF FineTuneInterrupted
  <2>3. pc' = "interrupted"
    BY <1>4 DEF FineTuneInterrupted
  <2> QED  BY <1>2, <2>1, <2>2, <2>3 DEF BeforeTasks
<1>5. ASSUME NEW m \in Modules, Accept(m) PROVE TreeInv'
  <2>1. Replaced(sub, sub', m, finds[m]) /\ finds[m] # {}
    BY <1>5, AcceptReplaces
  <2>2. leafParent' = [l \in Leaves |-> IF l \in m THEN PartOf(finds[m], l) ELSE leafParent[l]]
    BY <1>5 DEF Accept, SubModuleOf
  <2>3. ~BeforeTasks /\ pc' = pc
    BY <1>5 DEF Accept, WorkInv
  <2> QED  BY <1>2, <2>1, <2>2, <2>3 DEF BeforeTasks
<1>6. CASE /\ UNCHANGED <<sub, leafParent>> /\ (BeforeTasks' => BeforeTasks)
           /\ (pc' = "begin" => pc = "begin")
  BY <1>0, <1>6 DEF TreeInv, Tree, IsTree, Homes, InTree, LeafModules
<1> QED  BY <1>1, <1>3, <1>4, <1>5, <1>6, TreeChanges

\* The modules still to be fine-tuned have leaf modules only below them.
LEMMA TuneStep ==
  ASSUME SafeInv, [Next]_vars
  PROVE  TuneInv'
<1> USE DEF SafeInv
<1>a. Tree(sub) /\ start \in Starts
  BY DEF TreeInv
<1>1. CASE RemoveSubModules
  <2>1. /\ sub' = [m \in Modules |-> IF m = Root THEN sub[Root] ELSE {}]
        /\ pc' = "queue"
    BY <1>1 DEF RemoveSubModules
  <2>2. sub'[Root] = sub[Root] /\ \A c \in sub[Root] : sub'[c] = {}
    BY <1>a, <2>1, ModulesAre, SubModules
  <2>3. sub'[Root] \subseteq LeafModules(sub')
    BY <2>2, ModulesAre DEF LeafModules, InTree
  <2> QED  BY <2>1, <2>3 DEF TuneInv, LeafModules, InTree
<1>2. CASE KeepSubModules
  <2>1. pc = "begin" /\ sub = FirstTree /\ start.fast > 0 /\ UNCHANGED <<sub, start>>
    BY <1>2 DEF KeepSubModules, TreeInv, tree, world
  <2>2. CASE pc' = "queue"
    BY <2>1, <2>2 DEF TuneInv
  <2>3. CASE /\ start.fast = 1 /\ start.deep
             /\ toTune' = {m \in InTree(sub) : sub[m] \cap LeafModules(sub) # {}}
             /\ pc' = "tune"
    <3>1. start = [fast |-> 1, deep |-> TRUE]
      <4>1. start \in [fast : 0..2, deep : BOOLEAN]
        BY <1>a, RecursionAssumption
      <4> QED  BY <2>3, <4>1
    <3>2. [fast |-> 1, deep |-> TRUE] \in Starts
      BY <1>a, <3>1
    <3>3. ASSUME NEW m \in toTune' PROVE Tunable(sub, m)
      <4>1. m \in InTree(sub) /\ m \in Modules /\ sub[m] \cap LeafModules(sub) # {}
        BY <1>a, <2>3, <3>3, SubModules
      <4>2. /\ sub[m] \subseteq LeafModules(sub)
            /\ FineTuned[m] # {} /\ m \notin FineTuned[m] /\ Shares(FineTuned[m], m)
        BY <2>1, <3>2, <4>1, FineTuneAssumption
      <4>3. FineTuned[m] \in SUBSET Modules
        BY <4>1, RecursionAssumption
      <4> QED  BY <4>1, <4>2, <4>3 DEF Tunable, Divides
    <3> QED  BY <2>1, <2>3, <3>3 DEF TuneInv, Tunable, LeafModules, InTree
  <2> QED  BY <1>2, <2>2, <2>3 DEF KeepSubModules
<1>3. ASSUME NEW m \in Modules, FineTune(m) PROVE TuneInv'
  <2>1. pc = "tune" /\ pc' = pc /\ toTune' = toTune \ {m} /\ start' = start
    BY <1>3 DEF FineTune, world
  <2>2. Replaced(sub, sub', m, FineTuned[m]) /\ Tunable(sub, m)
    BY <1>3, FineTuneReplaces
  <2>3. /\ InTree(sub') = (InTree(sub) \ sub[m]) \cup FineTuned[m]
        /\ \A n \in Modules \ {m} : sub'[n] = sub[n]
    BY <2>2, ReplacedTree
  <2>4. ASSUME NEW n \in toTune' PROVE Tunable(sub', n)
    <3>1. n # m /\ Tunable(sub, n)
      BY <2>1, <2>4 DEF TuneInv
    <3>2. n \in Modules /\ sub'[n] = sub[n] /\ sub[n] # {} /\ n \in InTree(sub)
      BY <1>a, <2>3, <3>1, SubModules DEF Tunable
    <3>3. n \notin sub[m]
      BY <2>2, <3>2 DEF Tunable, LeafModules
    <3>4. ASSUME NEW c \in sub[n] PROVE c \in LeafModules(sub')
      <4>1. c \in Modules /\ c \in InTree(sub) /\ sub[c] = {}
        BY <1>a, <3>1, <3>2, <3>4, SubModules DEF Tunable, LeafModules
      <4>2. c # m
        BY <2>2, <4>1 DEF Tunable
      <4>3. c \notin sub[m]
        BY <1>a, <3>1, <3>2, <3>4, OneParent
      <4> QED  BY <2>3, <4>1, <4>2, <4>3 DEF LeafModules
    <3>5. n \in InTree(sub')
      BY <2>3, <3>2, <3>3
    <3> QED  BY <3>1, <3>2, <3>4, <3>5 DEF Tunable
  <2> QED  BY <2>1, <2>4 DEF TuneInv, Tunable, LeafModules, InTree
<1>4. CASE FineTuneDone
  BY <1>4 DEF FineTuneDone, TuneInv, world
<1>5. CASE pc' \notin {"tune", "queue"}
  BY <1>5 DEF TuneInv
<1>6. CASE UNCHANGED <<pc, toTune, sub, start>>
  BY <1>6 DEF TuneInv, Tunable, LeafModules, InTree
<1> QED
  BY <1>1, <1>2, <1>3, <1>4, <1>5, <1>6
  DEF Next, Owner, Task, vars, world, tree, tasks, sums, FineTuneInterrupted, SpawnTop,
      FillQueue, StopSpawning, Join, AfterJoin, AggregateLevel, Store, Enter, KeepLeaves,
      Interrupted, Reject, Accept, Spawn, Leave, RequestInterrupt, TreeInv, WorkInv, BeforeTasks

-----------------------------------------------------------------------------
\* Each step keeps the types.
LEMMA TypeStep ==
  ASSUME SafeInv, [Next]_vars
  PROVE  TypeInv'
<1> USE DEF SafeInv, TypeInv, TypeOK, world, tree, tasks, sums
<1>a. Tree(sub') /\ Homes(sub', leafParent')
  BY TreeStep DEF TreeInv, Tree, IsTree, Homes, InTree, LeafModules
<1>b. sub' \in [Modules -> SUBSET Modules] /\ leafParent' \in [Leaves -> Modules]
  BY <1>a DEF Tree, Homes
<1>c. Tree(sub) /\ \A m \in Modules : finds[m] \subseteq Modules
  <2>1. finds \in [Modules -> SUBSET Modules]
    BY RecursionAssumption DEF TreeInv
  <2> QED  BY <2>1 DEF TreeInv
<1> USE <1>b
<1>1. CASE RemoveSubModules
  BY <1>1 DEF RemoveSubModules
<1>2. CASE KeepSubModules
  <2>1. toTune' \subseteq Modules
    BY <1>2, <1>c, SubModules DEF KeepSubModules
  <2> QED  BY <1>2, <2>1 DEF KeepSubModules
<1>3. ASSUME NEW m \in Modules, FineTune(m) PROVE TypeInv'
  BY <1>3 DEF FineTune
<1>4. ASSUME NEW m \in Modules, FineTuneInterrupted(m) PROVE TypeInv'
  BY <1>4 DEF FineTuneInterrupted
<1>5. CASE FineTuneDone
  BY <1>5 DEF FineTuneDone
<1>6. CASE FillQueue
  <2>1. queue' \subseteq Modules
    BY <1>6, <1>c, SubModules, ModulesAre DEF FillQueue, Queued
  <2>2. startLevel' \in Nat
    BY <1>6, <1>c, DepthIsNatural DEF FillQueue
  <2> QED  BY <1>6, <2>1, <2>2 DEF FillQueue
<1>7. ASSUME NEW m \in Modules, SpawnTop(m) PROVE TypeInv'
  <2>1. task[m] = "none"
    BY <1>7 DEF SpawnTop, Largest, WorkInv
  <2> QED  BY <1>7, <2>1 DEF SpawnTop
<1>8. CASE StopSpawning
  BY <1>8 DEF StopSpawning
<1>9. CASE Join
  BY <1>9 DEF Join, AfterJoin
<1>10. CASE AggregateLevel
  <2>1. atLevel' \subseteq Modules
    BY <1>10 DEF AggregateLevel
  <2> QED  BY <1>10, <2>1 DEF AggregateLevel
<1>11. CASE Store
  BY <1>11 DEF Store
<1>12. ASSUME NEW m \in Modules, KeepLeaves(m), instances' \subseteq instances \ {m},
              UNCHANGED <<pc, cancel, toTune, queue, startLevel, toSpawn, level, todo, atLevel>>
       PROVE  TypeInv'
  <2>1. LeafRecord(m).children = {}
    BY DEF LeafRecord, NoRecord
  <2>2. record' = [record EXCEPT ![m] = LeafRecord(m)] /\ task' = [task EXCEPT ![m] = "done"]
    BY <1>12 DEF KeepLeaves
  <2>3. /\ record' = [n \in Modules |-> record'[n]]
        /\ \A n \in Modules : record'[n].children \subseteq Modules
    BY <2>1, <2>2
  <2>4. instances' \subseteq {n \in Modules : task'[n] = "search"}
    BY <1>12, <2>2
  <2>5. task' \in [Modules -> {"none", "ready", "search", "spawn", "done"}]
    BY <2>2
  <2> QED  BY <1>12, <2>3, <2>4, <2>5
<1>13. ASSUME NEW m \in Modules, Enter(m) PROVE TypeInv'
  <2>1. CASE cancel \/ Cardinality(m) <= 2
    <3>1. instances \subseteq instances \ {m}
      BY <1>13 DEF Enter
    <3> QED  BY <1>12, <1>13, <2>1, <3>1 DEF Enter
  <2>2. CASE ~(cancel \/ Cardinality(m) <= 2)
    <3>1. /\ task' = [task EXCEPT ![m] = "search"]
          /\ instances' = instances \cup {m} /\ record' = record
      BY <1>13, <2>2 DEF Enter
    <3>2. /\ instances' \subseteq {n \in Modules : task'[n] = "search"}
          /\ task' \in [Modules -> {"none", "ready", "search", "spawn", "done"}]
      BY <3>1
    <3> QED  BY <1>13, <3>1, <3>2 DEF Enter
  <2> QED  BY <2>1, <2>2
<1>14. ASSUME NEW m \in Modules, Interrupted(m) \/ Reject(m) PROVE TypeInv'
  BY <1>12, <1>14 DEF Interrupted, Reject, DisposedOnInterrupt
<1>15. ASSUME NEW m \in Modules, Accept(m) PROVE TypeInv'
  <2>1. /\ record' = [record EXCEPT ![m] = SplitRecord(m)] /\ SplitRecord(m).children = finds[m]
        /\ task' = [task EXCEPT ![m] = "spawn"] /\ instances' = instances \ {m}
        /\ todo' = [todo EXCEPT ![m] = finds[m]]
    BY <1>15 DEF Accept, SplitRecord
  <2>2. /\ record' = [n \in Modules |-> record'[n]]
        /\ \A n \in Modules : record'[n].children \subseteq Modules
    BY <1>c, <2>1
  <2>3. todo' \in [Modules -> SUBSET Modules]
    BY <1>c, <2>1
  <2>4. /\ instances' \subseteq {n \in Modules : task'[n] = "search"}
        /\ task' \in [Modules -> {"none", "ready", "search", "spawn", "done"}]
    BY <2>1
  <2> QED  BY <1>15, <2>2, <2>3, <2>4 DEF Accept
<1>16. ASSUME NEW m \in Modules, Spawn(m) PROVE TypeInv'
  <2>1. PICK n \in todo[m] : /\ todo' = [todo EXCEPT ![m] = todo[m] \ {n}]
                             /\ task' = [task EXCEPT ![n] = "ready"]
                             /\ level' = [level EXCEPT ![n] = level[m] + 1]
    BY <1>16 DEF Spawn, Largest, SubLevel
  <2>2. n \in Modules /\ task[n] = "none" /\ level[m] + 1 \in Nat
    BY DEF WorkInv
  <2>3. /\ todo' \in [Modules -> SUBSET Modules] /\ level' \in [Modules -> Nat]
        /\ task' \in [Modules -> {"none", "ready", "search", "spawn", "done"}]
    BY <2>1, <2>2
  <2>4. instances \subseteq {k \in Modules : task'[k] = "search"}
    BY <2>1, <2>2
  <2> QED  BY <1>16, <2>3, <2>4 DEF Spawn
<1>17. ASSUME NEW m \in Modules, Leave(m) PROVE TypeInv'
  BY <1>17 DEF Leave
<1>18. CASE RequestInterrupt
  BY <1>18 DEF RequestInterrupt
<1>19. CASE UNCHANGED vars
  BY <1>19 DEF vars
<1> QED
  BY <1>1, <1>2, <1>3, <1>4, <1>5, <1>6, <1>7, <1>8, <1>9, <1>10, <1>11, <1>13, <1>14, <1>15,
     <1>16, <1>17, <1>18, <1>19
  DEF Next, Owner, Task

\* queueTopModules and queueLeafModules queue leaf modules of the tree.
LEMMA QueuedAre ==
  ASSUME TreeInv, TuneInv, pc = "queue", sub[Root] # {}
  PROVE  \A m \in Queued : m \in LeafModules(sub) /\ m # Root /\ m \in Modules
<1>1. Tree(sub) /\ start \in [fast : 0..2, deep : BOOLEAN]
  BY RecursionAssumption DEF TreeInv
<1>2. CASE start.fast > 0
  BY <1>1, <1>2, SubModules DEF Queued, LeafModules
<1>3. CASE start.fast = 0
  BY <1>1, <1>3, SubModules, ModulesAre DEF Queued, TuneInv
<1> QED  BY <1>1, <1>2, <1>3

\* What may still be split, or waits for its task, is a leaf module of the tree.
LEMMA WorkStep ==
  ASSUME SafeInv, [Next]_vars
  PROVE  WorkInv'
<1> USE DEF SafeInv
<1>a. /\ Tree(sub) /\ Homes(sub, leafParent)
      /\ task \in [Modules -> {"none", "ready", "search", "spawn", "done"}]
      /\ todo \in [Modules -> SUBSET Modules] /\ queue \subseteq Modules /\ toSpawn \subseteq queue
  BY DEF TreeInv, TypeInv, TypeOK
<1>b. \A m \in Modules : todo[m] # {} => task[m] \in {"spawn", "done"}
  BY DEF WorkInv
<1>1. CASE BeforeTasks /\ UNCHANGED <<queue, toSpawn, task, todo>>
  <2>1. toSpawn' = {} /\ queue' = {} /\ \A m \in Modules : task'[m] = "none" /\ todo'[m] = {}
    BY <1>1, <1>a DEF WorkInv
  <2> QED  BY <2>1 DEF WorkInv
<1>2. CASE FillQueue
  <2>1. /\ ~BeforeTasks' /\ toSpawn' = Queued /\ UNCHANGED <<sub, task, todo>>
        /\ \A m \in Modules : task[m] = "none" /\ todo[m] = {}
        /\ pc = "queue" /\ sub[Root] # {}
    BY <1>2 DEF FillQueue, BeforeTasks, WorkInv, tree, tasks, TreeInv
  <2>2. ASSUME NEW m \in Queued PROVE m \in LeafModules(sub) /\ m # Root /\ m \in Modules
    BY <2>1, <2>2, QueuedAre
  <2> QED  BY <2>1, <2>2 DEF WorkInv, LeafModules, InTree
<1>3. ASSUME NEW m \in Modules, SpawnTop(m) PROVE WorkInv'
  <2>1. /\ pc = "spawn" /\ pc' = pc /\ m \in toSpawn /\ toSpawn' = toSpawn \ {m}
        /\ task' = [task EXCEPT ![m] = "ready"] /\ UNCHANGED <<sub, todo>>
    BY <1>3 DEF SpawnTop, Largest, tree
  <2>2. task[m] = "none" /\ m \in LeafModules(sub) /\ m # Root
    BY <2>1 DEF WorkInv
  <2>3. ~BeforeTasks'
    BY <2>1 DEF BeforeTasks
  <2>4. \A n \in Modules : /\ task'[n] = IF n = m THEN "ready" ELSE task[n]
                           /\ m \notin todo[n]
    BY <1>a, <2>1 DEF WorkInv
  <2> QED  BY <2>1, <2>2, <2>3, <2>4, <1>a, SubModules, <1>b DEF WorkInv, LeafModules, InTree
<1>4. CASE UNCHANGED <<task, todo, toSpawn, queue, sub>> /\ (BeforeTasks' => BeforeTasks)
  BY <1>4 DEF WorkInv, LeafModules, InTree
<1>5. ASSUME NEW m \in Modules, NEW x \in {"search", "done"}, task' = [task EXCEPT ![m] = x],
             task[m] # "none", x = "search" => task[m] = "ready" /\ m \in Searched,
             UNCHANGED <<todo, toSpawn, sub, pc>>
      PROVE  WorkInv'
  <2>1. /\ m \in InTree(sub) \ {Root} /\ (x = "search" => sub[m] = {} /\ todo[m] = {})
        /\ ~BeforeTasks' /\ m \notin toSpawn /\ \A n \in Modules : m \notin todo[n]
    BY <1>5, <1>b DEF WorkInv, BeforeTasks
  <2>2. \A n \in Modules : task'[n] = IF n = m THEN x ELSE task[n]
    BY <1>5, <1>a
  <2>3. \A n \in toSpawn : n \in Modules
    BY <1>a
  <2> QED  BY <1>5, <2>1, <2>2, <2>3 DEF WorkInv, LeafModules, InTree
<1>6. ASSUME NEW m \in Modules, Accept(m) PROVE WorkInv'
  <2>1. /\ task[m] = "search" /\ task' = [task EXCEPT ![m] = "spawn"]
        /\ todo' = [todo EXCEPT ![m] = finds[m]] /\ UNCHANGED <<toSpawn, pc>>
    BY <1>6 DEF Accept
  <2>2. Replaced(sub, sub', m, finds[m]) /\ sub[m] = {}
    BY <1>6, AcceptReplaces
  <2>3. /\ InTree(sub') = InTree(sub) \cup finds[m] /\ Tree(sub')
        /\ sub'[m] = finds[m] /\ \A n \in Modules \ {m} : sub'[n] = sub[n]
        /\ \A n \in finds[m] : sub[n] = {} /\ n \notin InTree(sub)
    BY <2>2, ReplacedTree
  <2>4. /\ m \in InTree(sub) \ {Root} /\ ~BeforeTasks' /\ m \notin toSpawn
        /\ \A n \in Modules : m \notin todo[n]
    BY <2>1 DEF WorkInv, BeforeTasks
  <2>5. /\ \A n \in Modules : task'[n] = IF n = m THEN "spawn" ELSE task[n]
        /\ \A n \in Modules : todo'[n] = IF n = m THEN finds[m] ELSE todo[n]
    BY <1>a, <2>1
  <2>6. ASSUME NEW n \in finds[m]
        PROVE  n \in Modules /\ n # m /\ task'[n] = "none" /\ sub'[n] = {} /\ n \notin toSpawn
    <3>1. n \in Modules /\ n # m
      BY <2>3, <2>4, SubModules
    <3>2. task[n] = "none" /\ n \notin toSpawn
      BY <2>3, <3>1 DEF WorkInv, LeafModules
    <3> QED  BY <2>3, <2>5, <3>1, <3>2
  <2>7. ASSUME NEW n \in Modules, task'[n] # "none"
        PROVE  /\ n \in InTree(sub') \ {Root} /\ (task'[n] \in {"ready", "search"} => sub'[n] = {})
               /\ (task'[n] = "search" => n \in Searched)
    BY <2>3, <2>4, <2>5, <2>7 DEF WorkInv
  <2>8. ASSUME NEW n \in toSpawn PROVE task'[n] = "none" /\ n \in LeafModules(sub') /\ n # Root
    BY <1>a, <2>3, <2>4, <2>5, <2>8 DEF WorkInv, LeafModules
  <2>9. ASSUME NEW p \in Modules, NEW n \in todo'[p]
        PROVE  /\ n \in sub'[p] /\ task'[n] = "none" /\ sub'[n] = {} /\ n \notin toSpawn
               /\ task'[p] \in {"spawn", "done"}
    <3>1. CASE p = m
      BY <2>3, <2>5, <2>6, <2>9, <3>1
    <3>2. CASE p # m
      <4>1. /\ n \in todo[p] /\ n \in Modules /\ n # m
            /\ n \in sub[p] /\ task[n] = "none" /\ sub[n] = {} /\ n \notin toSpawn
            /\ task[p] \in {"spawn", "done"}
        BY <1>a, <2>4, <2>5, <2>9, <3>2 DEF WorkInv
      <4> QED  BY <2>3, <2>5, <3>2, <4>1
    <3> QED  BY <3>1, <3>2
  <2> QED  BY <2>1, <2>4, <2>7, <2>8, <2>9 DEF WorkInv, LeafModules, InTree
<1>7. ASSUME NEW m \in Modules, Spawn(m) PROVE WorkInv'
  <2>1. task[m] = "spawn" /\ UNCHANGED <<sub, toSpawn, pc>>
    BY <1>7 DEF Spawn, tree
  <2>2. PICK n \in todo[m] : /\ todo' = [todo EXCEPT ![m] = todo[m] \ {n}]
                             /\ task' = [task EXCEPT ![n] = "ready"]
    BY <1>7 DEF Spawn, Largest
  <2>3. n \in Modules /\ n \in sub[m] /\ task[n] = "none" /\ sub[n] = {} /\ n \notin toSpawn
    BY <1>a DEF WorkInv
  <2>4. n \in InTree(sub) /\ n # Root /\ todo[n] = {}
    BY <1>a, <1>b, <2>3, SubModules
  <2>5. ASSUME NEW p \in Modules PROVE n \notin todo'[p] /\ todo'[p] \subseteq todo[p]
    <3>1. p # m => n \notin sub[p]
      BY <1>a, <2>3, OneParent
    <3>2. p # m => n \notin todo[p]
      BY <3>1 DEF WorkInv
    <3> QED  BY <1>a, <2>2, <3>2
  <2>6. \A k \in Modules : task'[k] = IF k = n THEN "ready" ELSE task[k]
    BY <1>a, <2>2, <2>3
  <2>7. ~BeforeTasks'
    BY <2>1 DEF WorkInv, BeforeTasks
  <2>8. ASSUME NEW p \in Modules, NEW k \in todo'[p]
        PROVE  /\ k \in sub[p] /\ task'[k] = "none" /\ sub[k] = {} /\ k \notin toSpawn
               /\ task'[p] \in {"spawn", "done"}
    <3>1. k \in todo[p] /\ k # n /\ p # n /\ k \in Modules
      BY <1>a, <2>4, <2>5, <2>8
    <3> QED  BY <2>6, <3>1 DEF WorkInv
  <2>9. \A k \in toSpawn : task'[k] = "none" /\ k \in LeafModules(sub) /\ k # Root
    BY <1>a, <2>3, <2>6 DEF WorkInv
  <2> QED  BY <2>1, <2>3, <2>4, <2>6, <2>7, <2>8, <2>9 DEF WorkInv, LeafModules, InTree
<1>8. ASSUME NEW m \in Modules, Enter(m) \/ Interrupted(m) \/ Reject(m) \/ Leave(m) PROVE WorkInv'
  <2>1. UNCHANGED <<todo, toSpawn, sub, pc>> /\ task[m] # "none"
    BY <1>8 DEF Enter, Interrupted, Reject, Leave, tree
  <2>2. CASE task' = [task EXCEPT ![m] = "done"]
    BY <1>5, <2>1, <2>2
  <2>3. CASE Enter(m) /\ ~(cancel \/ Cardinality(m) <= 2) /\ task' = [task EXCEPT ![m] = "search"]
    <3>1. task[m] = "ready"
      BY <2>3 DEF Enter
    <3>2. m \in Searched
      <4>1. IsFiniteSet(Leaves) /\ m \subseteq Leaves
        BY ModulesAre, RecursionAssumption
      <4>2. Cardinality(m) \in Nat
        BY <4>1, FS_Subset, FS_CardinalityType
      <4>3. m # Root
        BY <3>1 DEF WorkInv
      <4> QED  BY <2>3, <4>2, <4>3 DEF Searched
    <3> QED  BY <1>5, <2>1, <2>3, <3>1, <3>2
  <2> QED  BY <1>8, <2>2, <2>3 DEF Enter, KeepLeaves, Interrupted, Reject, Leave
<1>9. CASE RemoveSubModules \/ KeepSubModules \/ FineTuneDone
           \/ \E m \in Modules : FineTune(m) \/ FineTuneInterrupted(m)
  BY <1>1, <1>9 DEF RemoveSubModules, KeepSubModules, FineTuneDone, FineTune,
                    FineTuneInterrupted, tasks, BeforeTasks
<1>10. CASE StopSpawning \/ Join \/ AggregateLevel \/ Store \/ RequestInterrupt \/ UNCHANGED vars
  BY <1>4, <1>10 DEF StopSpawning, Join, AfterJoin, AggregateLevel, Store, RequestInterrupt,
                     vars, tree, tasks, BeforeTasks
<1> QED
  BY <1>2, <1>3, <1>6, <1>7, <1>8, <1>9, <1>10 DEF Next, Owner, Task

LEMMA InitInv ==
  ASSUME Init
  PROVE  SafeInv
<1>1. Tree(FirstTree) /\ FirstTree[Root] # {} /\ Homes(sub, leafParent) /\ sub = FirstTree
  BY FirstHomes DEF Init
<1>2. TreeInv
  BY <1>1 DEF Init, TreeInv
<1>3. WorkInv /\ TuneInv
  BY DEF Init, WorkInv, TuneInv, BeforeTasks
<1>4. sub \in [Modules -> SUBSET Modules] /\ leafParent \in [Leaves -> Modules]
  BY <1>1 DEF Tree, Homes
<1>5. /\ record = [m \in Modules |-> record[m]]
      /\ \A m \in Modules : record[m].children \subseteq Modules
  BY DEF Init, NoRecord
<1>6. TypeInv
  BY <1>4, <1>5 DEF Init, TypeInv, TypeOK
<1> QED  BY <1>2, <1>3, <1>6 DEF SafeInv

LEMMA SafeStep ==
  ASSUME SafeInv, [Next]_vars
  PROVE  SafeInv'
  BY TypeStep, TreeStep, TuneStep, WorkStep DEF SafeInv

\* The invariant holds in every state.
LEMMA AlwaysSafe == Spec => []SafeInv
  BY InitInv, SafeStep, PTL DEF Spec

(***************************************************************************)
(* recursivePartition, with hierarchicalPartition before it, keeps the     *)
(* tree whole in every state, interrupted or not: the leaves of a module   *)
(* are shared out between its sub-modules, and the leaves that are its     *)
(* children are those it was made for.                                     *)
(***************************************************************************)
THEOREM TreeCorrect == Spec => []TreeIsWhole
<1>1. ASSUME SafeInv PROVE TreeIsWhole
  <2>1. Tree(sub) /\ Homes(sub, leafParent) /\ TypeOK
    BY <1>1 DEF SafeInv, TreeInv, TypeInv
  <2>2. ASSUME NEW m \in InTree(sub)
        PROVE  /\ {l \in Leaves : leafParent[l] = m} = IF sub[m] = {} THEN m ELSE {}
               /\ sub[m] # {} => Shares(sub[m], m)
    BY <2>1, HomesAreWhole, SubModules DEF Divides
  <2> QED  BY <2>1, <2>2 DEF TreeIsWhole
<1> QED  BY <1>1, AlwaysSafe, PTL

-----------------------------------------------------------------------------
(***************************************************************************)
(* The result.  A task's level is the depth of its module, and what it     *)
(* leaves behind is what the module is split into there; a module below    *)
(* the queue has a task, or one is still to be created for it.  A cancel   *)
(* breaks that, and then the tasks' records are not aggregated.            *)
(***************************************************************************)
Chain(s, m, q) == {p \in Above(s, m) : p \subseteq q}

Waiting(m) == m \in toSpawn \/ \E p \in Modules : m \in todo[p]

Regular == ~cancel \/ pc \in {"aggregate", "completed"}

Split(m, l) == IF m \in Searched /\ Accepts(m, l) THEN finds[m] ELSE {}

AtDepth(m) ==
  \E q \in queue : m \subseteq q /\ level[m] = startLevel + Cardinality(Chain(sub, m, q))

LevelInv ==
  /\ queue \subseteq InTree(sub) /\ \A a, b \in queue : a = b \/ a \cap b = {}
  /\ \A m \in Modules : task[m] # "none" => AtDepth(m)

Settled(m) ==
  /\ task[m] = "done" => todo[m] = {}
  /\ task[m] \in {"spawn", "done"} => sub[m] = Split(m, level[m])

Covered == \A m \in InTree(sub), q \in queue : m \subseteq q => task[m] # "none" \/ Waiting(m)

ResultInv ==
  /\ pc \in {"aggregate", "completed"} => \A m \in Modules : task[m] \in {"none", "done"}
  /\ Regular => /\ pc \in {"join", "aggregate", "completed"} => toSpawn = {}
                /\ \A m \in Modules : Settled(m)
                /\ Covered

\* A sub-module is one level below its module, below any module the chain is counted from.
LEMMA ChainOfSub ==
  ASSUME NEW s, Tree(s), NEW m \in Modules, NEW n \in s[m], NEW q, m \subseteq q
  PROVE  Cardinality(Chain(s, n, q)) = Cardinality(Chain(s, m, q)) + 1
<1>1. /\ n \in InTree(s) /\ m \in InTree(s) /\ n \subseteq m /\ n # m /\ n # {}
      /\ InTree(s) \subseteq Modules
  BY SubModules
<1>2. ASSUME NEW p \in Chain(s, n, q) PROVE p = m \/ p \in Chain(s, m, q)
  <2>1. p \in InTree(s) /\ n \subseteq p /\ n # p /\ p \subseteq q /\ p \in Modules
    BY <1>1, <1>2 DEF Chain, Above
  <2>2. p = m \/ Below(s, p, m) \/ Below(s, m, p)
    BY <1>1, <2>1, Nested
  <2>3. CASE Below(s, p, m)
    <3>1. PICK c \in s[m] : p \subseteq c
      BY <2>3 DEF Below
    <3>2. n = c
      <4>1. Shares(s[m], m)
        BY <3>1, SubModules DEF Divides
      <4> QED  BY <1>1, <2>1, <3>1, <4>1 DEF Shares
    <3> QED  BY <2>1, <3>1, <3>2
  <2>4. CASE Below(s, m, p)
    <3>1. m \subseteq p /\ m # p
      BY <2>1, <2>4, BelowIs
    <3> QED  BY <2>1, <3>1 DEF Chain, Above
  <2> QED  BY <2>2, <2>3, <2>4
<1>3. m \in Chain(s, n, q) /\ m \notin Chain(s, m, q)
  BY <1>1 DEF Chain, Above
<1>4. Chain(s, m, q) \subseteq Chain(s, n, q)
  BY <1>1 DEF Chain, Above
<1>5. Chain(s, n, q) = Chain(s, m, q) \cup {m}
  BY <1>2, <1>3, <1>4
<1>6. IsFiniteSet(Chain(s, m, q))
  <2>1. Chain(s, m, q) \in SUBSET Modules
    BY <1>1 DEF Chain, Above
  <2> QED  BY <2>1, ModulesAre
<1> QED  BY <1>3, <1>5, <1>6, FS_AddElement

\* A queued module is at depth nought below itself.
LEMMA ChainOfTop ==
  ASSUME NEW s, NEW m
  PROVE  Cardinality(Chain(s, m, m)) = 0
<1>1. Chain(s, m, m) = {}
  BY DEF Chain, Above
<1> QED  BY <1>1, FS_EmptySet

\* Splitting a leaf module changes the depth of no module that was in the tree.
LEMMA ChainsStay ==
  ASSUME NEW s, NEW t, NEW m, NEW S, Replaced(s, t, m, S), s[m] = {}, NEW k \in InTree(s), NEW q
  PROVE  Chain(t, k, q) = Chain(s, k, q)
<1>1. Tree(s) /\ m \in InTree(s) /\ m \in Modules /\ InTree(t) = InTree(s) \cup S
  <2>1. m \in Modules /\ InTree(t) = (InTree(s) \ s[m]) \cup S
    BY ReplacedTree
  <2> QED  BY <2>1 DEF Replaced
<1>2. ASSUME NEW p \in S, k \subseteq p PROVE FALSE
  <2>1. Divides(S, m)
    BY <1>2 DEF Replaced
  <2>2. p \subseteq m /\ p # m
    BY <2>1 DEF Divides, Shares
  <2>3. Below(s, k, m)
    BY <1>1, <1>2, <2>2, InsideIs
  <2> QED  BY <2>3 DEF Below
<1> QED  BY <1>1, <1>2 DEF Chain, Above

\* A module with a task lies below a queued one, and its level is its depth.
LEMMA LevelStep ==
  ASSUME SafeInv, LevelInv, [Next]_vars
  PROVE  LevelInv'
<1> USE DEF SafeInv
<1>a. /\ Tree(sub) /\ task \in [Modules -> {"none", "ready", "search", "spawn", "done"}]
      /\ level \in [Modules -> Nat] /\ startLevel \in Nat
      /\ todo \in [Modules -> SUBSET Modules] /\ queue \subseteq Modules /\ toSpawn \subseteq queue
  BY DEF TreeInv, TypeInv, TypeOK
<1>b. ASSUME NEW k, NEW q \in queue, k \subseteq q, UNCHANGED <<startLevel, queue, sub>>,
             level'[k] = startLevel + Cardinality(Chain(sub, k, q))
      PROVE  AtDepth(k)'
  <2>1. level'[k] = startLevel' + Cardinality(Chain(sub', k, q)) /\ q \in queue'
    BY <1>b
  <2> QED  BY <1>b, <2>1 DEF AtDepth, Chain, Above, InTree
<1>1. CASE BeforeTasks /\ UNCHANGED <<queue, task>>
  BY <1>1 DEF LevelInv, WorkInv
<1>2. CASE FillQueue
  <2>1. /\ queue' = Queued /\ UNCHANGED <<sub, task>> /\ pc = "queue" /\ sub[Root] # {}
        /\ \A m \in Modules : task[m] = "none"
    BY <1>2 DEF FillQueue, BeforeTasks, WorkInv, tree, tasks, TreeInv
  <2>2. queue' \subseteq LeafModules(sub)
    BY <2>1, QueuedAre
  <2>3. queue' \subseteq InTree(sub) /\ \A a, b \in queue' : a = b \/ a \cap b = {}
    BY <1>a, <2>2, LeafModulesApart, SubModules
  <2> QED  BY <2>1, <2>3 DEF LevelInv, InTree
<1>3. ASSUME NEW m \in Modules, SpawnTop(m) PROVE LevelInv'
  <2>1. /\ m \in queue /\ task' = [task EXCEPT ![m] = "ready"]
        /\ level' = [level EXCEPT ![m] = startLevel] /\ UNCHANGED <<sub, queue, startLevel>>
    BY <1>3, <1>a DEF SpawnTop, Largest, tree
  <2>2. AtDepth(m)'
    <3>1. level'[m] = startLevel + Cardinality(Chain(sub, m, m))
      BY <1>a, <2>1, ChainOfTop
    <3>2. m \subseteq m
      OBVIOUS
    <3> QED  BY <1>b, <2>1, <3>1, <3>2
  <2>3. ASSUME NEW k \in Modules, k # m, task'[k] # "none" PROVE AtDepth(k)'
    <3>1. AtDepth(k) /\ level'[k] = level[k]
      BY <1>a, <2>1, <2>3 DEF LevelInv
    <3> QED  BY <1>b, <2>1, <3>1 DEF AtDepth
  <2> QED  BY <2>1, <2>2, <2>3 DEF LevelInv, InTree
<1>4. CASE /\ UNCHANGED <<level, startLevel, queue, sub>>
           /\ \A m \in Modules : task'[m] # "none" => task[m] # "none"
  <2>1. ASSUME NEW k \in Modules, task'[k] # "none" PROVE AtDepth(k)'
    <3>1. AtDepth(k)
      BY <1>4, <2>1 DEF LevelInv
    <3> QED  BY <1>4, <1>b, <3>1 DEF AtDepth
  <2> QED  BY <1>4, <2>1 DEF LevelInv, InTree
<1>5. ASSUME NEW m \in Modules, Enter(m) \/ Interrupted(m) \/ Reject(m) \/ Leave(m) PROVE LevelInv'
  <2>1. UNCHANGED <<level, startLevel, queue, sub>> /\ task[m] # "none"
    BY <1>5 DEF Enter, Interrupted, Reject, Leave, tree
  <2>2. task' = [task EXCEPT ![m] = "done"] \/ task' = [task EXCEPT ![m] = "search"]
    BY <1>5 DEF Enter, KeepLeaves, Interrupted, Reject, Leave
  <2>3. \A k \in Modules : task'[k] # "none" => task[k] # "none"
    BY <1>a, <2>1, <2>2
  <2> QED  BY <1>4, <2>1, <2>3
<1>6. ASSUME NEW m \in Modules, Accept(m) PROVE LevelInv'
  <2>1. /\ task[m] = "search" /\ task' = [task EXCEPT ![m] = "spawn"]
        /\ UNCHANGED <<level, startLevel, queue>>
    BY <1>6 DEF Accept
  <2>2. Replaced(sub, sub', m, finds[m]) /\ sub[m] = {}
    BY <1>6, AcceptReplaces
  <2>3. InTree(sub') = InTree(sub) \cup finds[m]
    BY <2>2, ReplacedTree
  <2>4. ASSUME NEW k \in Modules, task'[k] # "none" PROVE AtDepth(k)'
    <3>1. task[k] # "none"
      BY <1>a, <2>1, <2>4
    <3>2. k \in InTree(sub)
      BY <3>1 DEF WorkInv
    <3>3. PICK q \in queue : k \subseteq q /\ level[k] = startLevel + Cardinality(Chain(sub, k, q))
      BY <3>1 DEF LevelInv, AtDepth
    <3>4. Chain(sub', k, q) = Chain(sub, k, q)
      BY <2>2, <3>2, ChainsStay
    <3>5. level'[k] = startLevel' + Cardinality(Chain(sub', k, q)) /\ q \in queue'
      BY <2>1, <3>3, <3>4
    <3> QED  BY <3>3, <3>5 DEF AtDepth, Chain, Above, InTree
  <2> QED  BY <2>1, <2>3, <2>4 DEF LevelInv, InTree
<1>7. ASSUME NEW m \in Modules, Spawn(m) PROVE LevelInv'
  <2>1. task[m] = "spawn" /\ UNCHANGED <<sub, queue, startLevel>>
    BY <1>7 DEF Spawn, tree
  <2>2. PICK n \in todo[m] : /\ task' = [task EXCEPT ![n] = "ready"]
                             /\ level' = [level EXCEPT ![n] = level[m] + 1]
    BY <1>7 DEF Spawn, Largest, SubLevel
  <2>3. n \in Modules /\ n \in sub[m] /\ n \subseteq m
    BY <1>a, SubModules DEF WorkInv
  <2>4. PICK q \in queue : m \subseteq q /\ level[m] = startLevel + Cardinality(Chain(sub, m, q))
    BY <2>1 DEF LevelInv, AtDepth
  <2>5. level'[n] = startLevel + Cardinality(Chain(sub, n, q))
    <3>1. Cardinality(Chain(sub, n, q)) = Cardinality(Chain(sub, m, q)) + 1
      BY <1>a, <2>3, <2>4, ChainOfSub
    <3>2. Chain(sub, m, q) \in SUBSET Modules
      BY <1>a, SubModules DEF Chain, Above
    <3>3. Cardinality(Chain(sub, m, q)) \in Nat
      BY <3>2, ModulesAre
    <3>4. level'[n] = level[m] + 1
      BY <1>a, <2>2, <2>3
    <3> QED  BY <1>a, <2>4, <3>1, <3>3, <3>4
  <2>6. AtDepth(n)'
    BY <1>b, <2>1, <2>3, <2>4, <2>5
  <2>7. ASSUME NEW k \in Modules, k # n, task'[k] # "none" PROVE AtDepth(k)'
    <3>1. AtDepth(k) /\ level'[k] = level[k]
      BY <1>a, <2>2, <2>7 DEF LevelInv
    <3> QED  BY <1>b, <2>1, <3>1 DEF AtDepth
  <2> QED  BY <2>1, <2>6, <2>7 DEF LevelInv, InTree
<1>8. CASE RemoveSubModules \/ KeepSubModules \/ FineTuneDone
           \/ \E m \in Modules : FineTune(m) \/ FineTuneInterrupted(m)
  BY <1>1, <1>8 DEF RemoveSubModules, KeepSubModules, FineTuneDone, FineTune,
                    FineTuneInterrupted, tasks, BeforeTasks
<1>9. CASE StopSpawning \/ Join \/ AggregateLevel \/ Store \/ RequestInterrupt \/ UNCHANGED vars
  BY <1>4, <1>9 DEF StopSpawning, Join, AggregateLevel, Store, RequestInterrupt, vars, tree, tasks
<1> QED
  BY <1>2, <1>3, <1>5, <1>6, <1>7, <1>8, <1>9 DEF Next, Owner, Task

\* A module is settled still when nothing its split depends on has changed.
LEMMA StaysSettled ==
  ASSUME NEW m, Settled(m), finds' = finds, gain' = gain, sub'[m] = sub[m], level'[m] = level[m],
         task'[m] = task[m], todo[m] = {} => todo'[m] = {}
  PROVE  Settled(m)'
<1>1. sub'[m] = Split(m, level[m])' <=> sub[m] = Split(m, level[m])
  BY DEF Split, Accepts, Trivial, SubCodelength
<1> QED  BY <1>1 DEF Settled

\* Where no cancel has cut the run short none had before.
LEMMA RegularBefore ==
  ASSUME [Next]_vars, Regular'
  PROVE  Regular
  BY DEF Regular, Next, Owner, Task, vars, world, tree, tasks, sums, RemoveSubModules,
         KeepSubModules, FineTuneDone, FineTune, FineTuneInterrupted, SpawnTop, FillQueue,
         StopSpawning, Join, AfterJoin, AggregateLevel, Store, Enter, KeepLeaves, Interrupted,
         Reject, Accept, Spawn, Leave, RequestInterrupt

\* A module whose task is past its search is split as the reference splits it.
LEMMA ResultStep ==
  ASSUME SafeInv, ResultInv, [Next]_vars
  PROVE  ResultInv'
<1> USE DEF SafeInv
<1>a. /\ Tree(sub) /\ task \in [Modules -> {"none", "ready", "search", "spawn", "done"}]
      /\ level \in [Modules -> Nat] /\ pc \in {"begin", "tune", "queue", "spawn", "join",
                                               "aggregate", "completed", "interrupted"}
      /\ todo \in [Modules -> SUBSET Modules] /\ queue \subseteq Modules /\ toSpawn \subseteq queue
      /\ finds' = finds /\ gain' = gain
  BY TreeChanges DEF TreeInv, TypeInv, TypeOK
<1>b. Regular' => Regular
  BY RegularBefore
<1>c. /\ Regular => \A m \in Modules : Settled(m)
      /\ Regular => Covered
      /\ \A m \in Modules : todo[m] # {} => task[m] \in {"spawn", "done"}
  BY DEF ResultInv, WorkInv
<1>d. ASSUME NEW m \in Modules, task[m] \notin {"none", "done"}
      PROVE  pc \notin {"aggregate", "completed"} /\ (Regular => ~cancel)
  BY <1>d DEF ResultInv, Regular
<1>1. CASE /\ BeforeTasks /\ UNCHANGED <<queue, task, todo>>
           /\ pc' \in {"tune", "queue", "interrupted"}
  <2>1. queue' = {} /\ \A m \in Modules : task'[m] = "none"
    BY <1>1 DEF WorkInv
  <2> QED  BY <1>1, <2>1 DEF ResultInv, Settled, Covered
<1>2. CASE FillQueue
  <2>1. /\ queue' = Queued /\ toSpawn' = queue' /\ UNCHANGED <<sub, task>> /\ pc' = "spawn"
        /\ pc = "queue" /\ sub[Root] # {} /\ \A m \in Modules : task[m] = "none"
    BY <1>2 DEF FillQueue, BeforeTasks, WorkInv, tree, tasks, TreeInv
  <2>2. ASSUME NEW m \in InTree(sub), NEW q \in queue', m \subseteq q PROVE m = q
    <3>1. q \in LeafModules(sub)
      BY <2>1, QueuedAre
    <3>2. m \in Modules /\ m # {} /\ q \cap m # {}
      BY <1>a, <2>2, SubModules, ModulesAre
    <3>3. q \subseteq m
      BY <1>a, <3>1, <3>2, LeafModulesApart
    <3> QED  BY <2>2, <3>3
  <2>3. Covered'
    BY <2>1, <2>2 DEF Covered, Waiting, InTree
  <2> QED  BY <2>1, <2>3 DEF ResultInv, Settled
<1>3. ASSUME UNCHANGED <<queue, sub>>, Covered,
             \A m \in Modules : task[m] # "none" => task'[m] # "none",
             \A m \in Modules : Waiting(m) => Waiting(m)' \/ task'[m] # "none"
      PROVE  Covered'
  BY <1>3, <1>a, SubModules DEF Covered, InTree
<1>4. ASSUME NEW m \in Modules, SpawnTop(m) PROVE ResultInv'
  <2>1. /\ pc = "spawn" /\ pc' = pc /\ m \in toSpawn /\ toSpawn' = toSpawn \ {m}
        /\ task' = [task EXCEPT ![m] = "ready"] /\ level' = [level EXCEPT ![m] = startLevel]
        /\ UNCHANGED <<sub, todo, queue>>
    BY <1>4 DEF SpawnTop, Largest, tree
  <2>2. \A k \in Modules : task'[k] = IF k = m THEN "ready" ELSE task[k]
    BY <1>a, <2>1
  <2>3. ASSUME Regular, NEW k \in Modules PROVE Settled(k)'
    <3>1. CASE k = m
      BY <2>2, <3>1 DEF Settled
    <3>2. CASE k # m
      <4>1. level'[k] = level[k] /\ task'[k] = task[k] /\ Settled(k)
        BY <1>a, <1>c, <2>1, <2>2, <2>3, <3>2
      <4> QED  BY <1>a, <2>1, <4>1, StaysSettled
    <3> QED  BY <3>1, <3>2
  <2>4. Covered => Covered'
    <3>1. \A k \in Modules : Waiting(k) => Waiting(k)' \/ task'[k] # "none"
      BY <2>1, <2>2 DEF Waiting
    <3> QED  BY <1>3, <2>1, <2>2, <3>1
  <2> QED  BY <1>b, <1>c, <2>1, <2>3, <2>4 DEF ResultInv
<1>5. ASSUME NEW m \in Modules, task[m] \notin {"none", "done"}, NEW x,
             task' = [task EXCEPT ![m] = x], x # "none", Regular => Settled(m)',
             UNCHANGED <<pc, todo, toSpawn, sub, queue, level>>
      PROVE  ResultInv'
  <2>1. \A k \in Modules : task'[k] = IF k = m THEN x ELSE task[k]
    BY <1>a, <1>5
  <2>2. Regular => \A k \in Modules : Settled(k)'
    BY <1>a, <1>c, <1>5, <2>1, StaysSettled
  <2>3. \A k \in Modules : Waiting(k) => Waiting(k)'
    BY <1>5 DEF Waiting
  <2>4. Covered => Covered'
    BY <1>3, <1>5, <2>1, <2>3
  <2>5. pc' \notin {"aggregate", "completed"}
    BY <1>5, <1>d
  <2> QED  BY <1>b, <1>c, <1>5, <2>2, <2>4, <2>5 DEF ResultInv
<1>6. ASSUME NEW m \in Modules, Enter(m) PROVE ResultInv'
  <2>1. task[m] = "ready" /\ UNCHANGED <<pc, cancel, todo, toSpawn, sub, queue, level>>
    BY <1>6 DEF Enter, tree
  <2>2. sub[m] = {} /\ todo[m] = {}
    BY <1>c, <2>1 DEF WorkInv
  <2>3. CASE cancel \/ Cardinality(m) <= 2
    <3>1. task' = [task EXCEPT ![m] = "done"]
      BY <1>6, <2>3 DEF Enter, KeepLeaves
    <3>2. Regular => m \notin Searched
      <4>1. IsFiniteSet(Leaves) /\ m \subseteq Leaves
        BY ModulesAre, RecursionAssumption
      <4>2. Cardinality(m) \in Nat
        BY <4>1, FS_Subset, FS_CardinalityType
      <4> QED  BY <1>d, <2>1, <2>3, <4>2 DEF Searched
    <3>3. Regular => Settled(m)'
      BY <2>1, <2>2, <3>2 DEF Settled, Split
    <3> QED  BY <1>5, <2>1, <3>1, <3>3
  <2>4. CASE ~(cancel \/ Cardinality(m) <= 2)
    <3>1. task' = [task EXCEPT ![m] = "search"]
      BY <1>6, <2>4 DEF Enter
    <3>2. Settled(m)'
      BY <1>a, <3>1 DEF Settled
    <3> QED  BY <1>5, <2>1, <3>1, <3>2
  <2> QED  BY <2>3, <2>4
<1>7. ASSUME NEW m \in Modules, Interrupted(m) PROVE ResultInv'
  <2>1. task[m] = "search" /\ cancel /\ task' = [task EXCEPT ![m] = "done"]
        /\ UNCHANGED <<pc, cancel, todo, toSpawn, sub, queue, level>>
    BY <1>7 DEF Interrupted, KeepLeaves, tree
  <2>2. ~Regular
    BY <1>d, <2>1
  <2> QED  BY <1>5, <2>1, <2>2
<1>8. ASSUME NEW m \in Modules, Reject(m) PROVE ResultInv'
  <2>1. /\ task[m] = "search" /\ task' = [task EXCEPT ![m] = "done"]
        /\ ~Accepts(m, level[m]) /\ UNCHANGED <<pc, cancel, todo, toSpawn, sub, queue, level>>
    BY <1>8 DEF Reject, KeepLeaves, tree
  <2>2. sub[m] = {} /\ todo[m] = {}
    BY <1>c, <2>1 DEF WorkInv
  <2>3. Settled(m)'
    BY <1>a, <2>1, <2>2 DEF Settled, Split, Accepts, Trivial, SubCodelength
  <2> QED  BY <1>5, <2>1, <2>3
<1>9. ASSUME NEW m \in Modules, Leave(m) PROVE ResultInv'
  <2>1. /\ task[m] = "spawn" /\ task' = [task EXCEPT ![m] = "done"] /\ (todo[m] = {} \/ cancel)
        /\ UNCHANGED <<pc, cancel, todo, toSpawn, sub, queue, level>>
    BY <1>9 DEF Leave, SpawnOver, tree
  <2>2. Regular => Settled(m) /\ todo[m] = {}
    BY <1>c, <1>d, <2>1
  <2>3. Regular => Settled(m)'
    BY <1>a, <2>1, <2>2 DEF Settled, Split, Accepts, Trivial, SubCodelength
  <2> QED  BY <1>5, <2>1, <2>3
<1>10. ASSUME NEW m \in Modules, Accept(m) PROVE ResultInv'
  <2>1. /\ task[m] = "search" /\ task' = [task EXCEPT ![m] = "spawn"] /\ Accepts(m, level[m])
        /\ todo' = [todo EXCEPT ![m] = finds[m]] /\ UNCHANGED <<toSpawn, pc, level, queue>>
    BY <1>10 DEF Accept
  <2>2. Replaced(sub, sub', m, finds[m]) /\ sub[m] = {}
    BY <1>10, AcceptReplaces
  <2>3. /\ InTree(sub') = InTree(sub) \cup finds[m]
        /\ sub'[m] = finds[m] /\ \A n \in Modules \ {m} : sub'[n] = sub[n]
    BY <2>2, ReplacedTree
  <2>4. /\ \A n \in Modules : task'[n] = IF n = m THEN "spawn" ELSE task[n]
        /\ \A n \in Modules : todo'[n] = IF n = m THEN finds[m] ELSE todo[n]
        /\ todo[m] = {} /\ m \in Searched
    BY <1>a, <1>c, <2>1 DEF WorkInv
  <2>5. Settled(m)'
    BY <1>a, <2>1, <2>3, <2>4 DEF Settled, Split, Accepts, Trivial, SubCodelength
  <2>6. ASSUME Regular, NEW k \in Modules PROVE Settled(k)'
    <3>1. CASE k # m
      <4>1. /\ Settled(k) /\ sub'[k] = sub[k] /\ level'[k] = level[k] /\ task'[k] = task[k]
            /\ todo'[k] = todo[k]
        BY <1>c, <2>1, <2>3, <2>4, <2>6, <3>1
      <4> QED  BY <1>a, <4>1, StaysSettled
    <3> QED  BY <2>5, <3>1
  <2>7. \A k \in Modules : (Waiting(k) => Waiting(k)') /\ (k \in finds[m] => Waiting(k)')
    <3>1. ASSUME NEW k \in Modules, NEW p \in Modules, k \in todo[p] PROVE Waiting(k)'
      <4>1. p # m
        BY <2>4, <3>1
      <4> QED  BY <2>4, <3>1, <4>1 DEF Waiting
    <3>2. ASSUME NEW k \in Modules, k \in finds[m] PROVE Waiting(k)'
      BY <2>4, <3>2 DEF Waiting
    <3> QED  BY <2>1, <3>1, <3>2 DEF Waiting
  <2>8. ASSUME Covered, NEW k \in InTree(sub'), NEW q \in queue', k \subseteq q
        PROVE  task'[k] # "none" \/ Waiting(k)'
    <3>0. k \in Modules
      <4>1. Tree(sub')
        BY <2>2, ReplacedTree
      <4> QED  BY <4>1, SubModules
    <3>1. CASE k \in finds[m]
      BY <2>7, <3>0, <3>1
    <3>2. CASE k \in InTree(sub)
      <4>1. task[k] # "none" \/ Waiting(k)
        BY <2>1, <2>8, <3>2 DEF Covered
      <4> QED  BY <2>4, <2>7, <3>0, <4>1
    <3> QED  BY <2>3, <3>1, <3>2
  <2>9. Covered => Covered'
    BY <2>8 DEF Covered, InTree
  <2>10. pc' \notin {"aggregate", "completed"}
    BY <1>d, <2>1
  <2> QED  BY <1>b, <1>c, <2>1, <2>6, <2>9, <2>10 DEF ResultInv
<1>11. ASSUME NEW m \in Modules, Spawn(m) PROVE ResultInv'
  <2>1. task[m] = "spawn" /\ UNCHANGED <<sub, queue, toSpawn, pc>>
    BY <1>11 DEF Spawn, tree
  <2>2. PICK n \in todo[m] : /\ todo' = [todo EXCEPT ![m] = todo[m] \ {n}]
                             /\ task' = [task EXCEPT ![n] = "ready"]
                             /\ level' = [level EXCEPT ![n] = SubLevel(level[m])]
    BY <1>11 DEF Spawn, Largest
  <2>3. n \in Modules /\ task[n] = "none"
    BY <1>a DEF WorkInv
  <2>4. /\ \A k \in Modules : task'[k] = IF k = n THEN "ready" ELSE task[k]
        /\ \A k \in Modules \ {n} : level'[k] = level[k]
        /\ \A k \in Modules : todo'[k] = IF k = m THEN todo[m] \ {n} ELSE todo[k]
    BY <1>a, <2>2, <2>3
  <2>5. ASSUME Regular, NEW k \in Modules PROVE Settled(k)'
    <3>1. CASE k = n
      BY <2>4, <3>1 DEF Settled
    <3>2. CASE k # n
      <4>1. /\ Settled(k) /\ level'[k] = level[k] /\ task'[k] = task[k]
            /\ (todo[k] = {} => todo'[k] = {})
        BY <1>c, <2>4, <2>5, <3>2
      <4> QED  BY <1>a, <2>1, <4>1, StaysSettled
    <3> QED  BY <3>1, <3>2
  <2>6. Covered => Covered'
    <3>1. \A k \in Modules : Waiting(k) => Waiting(k)' \/ task'[k] # "none"
      BY <2>1, <2>4 DEF Waiting
    <3> QED  BY <1>3, <2>1, <2>3, <2>4, <3>1
  <2>7. pc' \notin {"aggregate", "completed"}
    BY <1>d, <2>1
  <2> QED  BY <1>b, <1>c, <2>1, <2>5, <2>6, <2>7 DEF ResultInv
<1>12. ASSUME UNCHANGED <<task, todo, level, sub, queue, toSpawn>>,
              pc' \in {"aggregate", "completed"} => \A m \in Modules : task[m] \in {"none", "done"},
              Regular' /\ pc' \in {"join", "aggregate", "completed"} => toSpawn = {}
       PROVE  ResultInv'
  <2>1. Regular => \A k \in Modules : Settled(k)'
    BY <1>a, <1>c, <1>12, StaysSettled
  <2>2. Covered => Covered'
    <3>1. \A k \in Modules : Waiting(k) => Waiting(k)'
      BY <1>12 DEF Waiting
    <3> QED  BY <1>3, <1>12, <3>1
  <2> QED  BY <1>b, <1>c, <1>12, <2>1, <2>2 DEF ResultInv
<1>13. CASE StopSpawning
  BY <1>12, <1>13 DEF StopSpawning, Regular, tree, tasks
<1>14. CASE Join
  <2>1. Regular' /\ pc' \in {"join", "aggregate", "completed"} => toSpawn = {}
    BY <1>14 DEF Join, AfterJoin, Regular, ResultInv
  <2> QED  BY <1>12, <1>14, <2>1 DEF Join, tree, tasks
<1>15. CASE AggregateLevel \/ Store \/ RequestInterrupt \/ UNCHANGED vars
  <2>1. UNCHANGED <<task, todo, level, sub, queue, toSpawn>>
    BY <1>15 DEF AggregateLevel, Store, RequestInterrupt, vars, tree, tasks
  <2>2. /\ pc' \in {"aggregate", "completed"} => pc \in {"aggregate", "completed"}
        /\ pc' = "join" => pc = "join"
    BY <1>15 DEF AggregateLevel, Store, RequestInterrupt, vars
  <2> QED  BY <1>b, <1>12, <2>1, <2>2 DEF ResultInv
<1>16. CASE RemoveSubModules \/ KeepSubModules \/ FineTuneDone
           \/ \E m \in Modules : FineTune(m) \/ FineTuneInterrupted(m)
  BY <1>1, <1>16 DEF RemoveSubModules, KeepSubModules, FineTuneDone, FineTune,
                     FineTuneInterrupted, tasks, BeforeTasks
<1> QED
  BY <1>2, <1>4, <1>6, <1>7, <1>8, <1>9, <1>10, <1>11, <1>13, <1>14, <1>15, <1>16
  DEF Next, Owner, Task

\* Every module below the queue has been dealt with when the records are aggregated.
LEMMA DoneBelow ==
  ASSUME SafeInv, ResultInv, pc \in {"aggregate", "completed"},
         NEW m \in InTree(sub), NEW q \in queue, m \subseteq q
  PROVE  m \in Modules /\ task[m] = "done" /\ Settled(m)
<1>1. m \in Modules
  BY SubModules DEF SafeInv, TreeInv
<1>2. toSpawn = {} /\ Settled(m) /\ Covered /\ \A p \in Modules : Settled(p)
  BY <1>1 DEF ResultInv, Regular
<1>3. ~Waiting(m)
  <2>1. ASSUME NEW p \in Modules, m \in todo[p] PROVE FALSE
    <3>1. task[p] \in {"spawn", "done"}
      BY <2>1 DEF SafeInv, WorkInv
    <3>2. task[p] = "done"
      BY <3>1 DEF ResultInv
    <3> QED  BY <1>2, <2>1, <3>2 DEF Settled
  <2> QED  BY <1>2, <2>1 DEF Waiting
<1>4. task[m] # "none"
  BY <1>2, <1>3 DEF Covered
<1> QED  BY <1>1, <1>2, <1>4 DEF ResultInv

(***************************************************************************)
(* `per-module results are independent of execution order': whatever the   *)
(* order in which recursion tasks are created, run and finish, the tree    *)
(* they complete is the one a level-by-level recursion builds.             *)
(***************************************************************************)
THEOREM ResultCorrect == Spec => []ResultIsReference
<1>1. ASSUME Init PROVE SafeInv /\ LevelInv /\ ResultInv
  BY <1>1, InitInv DEF Init, LevelInv, ResultInv, Settled, Covered
<1>2. ASSUME SafeInv /\ LevelInv /\ ResultInv, [Next]_vars
      PROVE  (SafeInv /\ LevelInv /\ ResultInv)'
  BY <1>2, SafeStep, LevelStep, ResultStep
<1>3. ASSUME SafeInv, LevelInv, ResultInv PROVE ResultIsReference
  <2> SUFFICES ASSUME pc = "completed", NEW q \in queue, NEW m \in InTree(sub), m \subseteq q
               PROVE  sub[m] = Split(m, startLevel + Cardinality(Chain(sub, m, q)))
    BY DEF ResultIsReference, Split, Chain
  <2>1. m \in Modules /\ m # {} /\ Tree(sub)
    BY <1>3, SubModules, ModulesAre DEF SafeInv, TreeInv
  <2>2. task[m] = "done" /\ Settled(m)
    BY <1>3, DoneBelow
  <2>3. sub[m] = Split(m, level[m])
    BY <2>2 DEF Settled
  <2>4. PICK p \in queue : m \subseteq p /\ level[m] = startLevel + Cardinality(Chain(sub, m, p))
    BY <1>3, <2>1, <2>2 DEF LevelInv, AtDepth
  <2>5. p = q
    BY <1>3, <2>1, <2>4 DEF LevelInv
  <2> QED  BY <2>3, <2>4, <2>5
<1> QED  BY <1>1, <1>2, <1>3, PTL DEF Spec

-----------------------------------------------------------------------------
(***************************************************************************)
(* Codelengths.  What is not below the queue keeps its share of the        *)
(* codelength; a task's record is the share of its module, and the limit   *)
(* of its sub-modules.  A run that fine-tunes first is left out, for what  *)
(* it stores is not the codelength of the tree.                            *)
(***************************************************************************)
Measured == gain \in Gains /\ finds \in Findings

LEMMA Lengths ==
  ASSUME Measured
  PROVE  /\ Integral(LeafLength, Modules)
         /\ \A m \in Modules : /\ finds[m] \in SUBSET Modules
                               /\ SubCodelength(m) \in Int /\ SubIndexCodelength(m) \in Int
                               /\ \A kids : CalcCodelength(m, kids) \in Int
<1>1. Integral(LeafLength, Modules) /\ gain \in [Modules -> Int] /\ IndexLength \in Int
  BY RecursionAssumption DEF Measured, Integral
<1>2. ASSUME NEW m \in Modules
      PROVE  /\ finds[m] \in SUBSET Modules
             /\ SubCodelength(m) \in Int /\ SubIndexCodelength(m) \in Int
  <2>1. finds[m] \in SUBSET Modules
    BY RecursionAssumption DEF Measured
  <2>2. IsFiniteSet(finds[m]) /\ Integral(LeafLength, finds[m])
    BY <1>1, <2>1, ModulesAre DEF Integral
  <2>3. Total(LeafLength, finds[m]) \in Int
    BY <2>2, SumIsInteger DEF Total
  <2>4. SubCodelength(m) \in Int
    BY <1>1 DEF SubCodelength, Integral
  <2> QED  BY <2>1, <2>3, <2>4 DEF SubIndexCodelength
<1>3. ASSUME NEW m \in Modules, NEW kids PROVE CalcCodelength(m, kids) \in Int
  BY <1>1, <1>2 DEF CalcCodelength, Integral
<1> QED  BY <1>1, <1>2, <1>3

LEMMA Totals ==
  ASSUME NEW f, Integral(f, Modules)
  PROVE  /\ \A S \in SUBSET Modules : IsFiniteSet(S) /\ Integral(f, S) /\ Total(f, S) \in Int
         /\ \A S, T \in SUBSET Modules :
              S \cap T = {} => Total(f, S \cup T) = Total(f, S) + Total(f, T)
<1>1. ASSUME NEW S \in SUBSET Modules
      PROVE  IsFiniteSet(S) /\ Integral(f, S) /\ Total(f, S) \in Int
  <2>1. IsFiniteSet(S) /\ Integral(f, S)
    BY ModulesAre DEF Integral
  <2> QED  BY <2>1, SumIsInteger DEF Total
<1>2. ASSUME NEW S \in SUBSET Modules, NEW T \in SUBSET Modules, S \cap T = {}
      PROVE  Total(f, S \cup T) = Total(f, S) + Total(f, T)
  BY <1>1, <1>2, SumUnion DEF Total
<1> QED  BY <1>1, <1>2

\* The codelengths a finished tree should have, and their sum.
LEMMA OnTreeIs ==
  ASSUME Measured, NEW s, Tree(s)
  PROVE  /\ OnTree(s) \in [Modules -> Int] /\ Integral(OnTree(s), Modules)
         /\ \A m \in InTree(s) : OnTree(s)[m] = CalcCodelength(m, s[m])
         /\ \A m \in LeafModules(s) : OnTree(s)[m] = LeafLength[m]
         /\ TreeLength(s) = Total(OnTree(s), InTree(s))
<1>1. \A m \in Modules : /\ OnTree(s)[m] \in Int
                         /\ m \in InTree(s) => OnTree(s)[m] = CalcCodelength(m, s[m])
                         /\ m \notin InTree(s) => OnTree(s)[m] = 0
  BY Lengths DEF OnTree
<1>2. OnTree(s) \in [Modules -> Int] /\ Integral(OnTree(s), Modules)
  <2>1. OnTree(s) = [m \in Modules |-> OnTree(s)[m]]
    BY DEF OnTree
  <2> QED  BY <1>1, <2>1 DEF Integral
<1>3. InTree(s) \in SUBSET Modules /\ LeafModules(s) \subseteq InTree(s)
  BY SubModules
<1>4. \A m \in LeafModules(s) : OnTree(s)[m] = LeafLength[m]
  BY <1>1, <1>3 DEF LeafModules, CalcCodelength
<1>5. TreeLength(s) = Total(OnTree(s), InTree(s))
  <2> DEFINE rest == Modules \ InTree(s)
  <2>1. rest \in SUBSET Modules /\ InTree(s) \cap rest = {} /\ Modules = InTree(s) \cup rest
    BY <1>3
  <2>2. \A m \in rest : OnTree(s)[m] = 0
    BY <1>1
  <2> HIDE DEF rest
  <2>3. Total(OnTree(s), Modules) = Total(OnTree(s), InTree(s)) + Total(OnTree(s), rest)
    BY <1>2, <1>3, <2>1, Totals
  <2>4. IsFiniteSet(rest)
    BY <2>1, ModulesAre
  <2>5. Total(OnTree(s), rest) = 0
    BY <2>2, <2>4, SumOfZeros DEF Total
  <2>6. Total(OnTree(s), InTree(s)) \in Int
    BY <1>2, <1>3, Totals
  <2> QED  BY <2>3, <2>5, <2>6 DEF TreeLength
<1> QED  BY <1>1, <1>2, <1>3, <1>4, <1>5

\* The codelengths of modules do not change, their place in the tree does.
LEMMA OnTreeLater ==
  ASSUME finds' = finds, gain' = gain
  PROVE  OnTree(sub)' = OnTree(sub') /\ (TreeLength(sub))' = TreeLength(sub')
<1>1. ASSUME NEW m \in Modules
      PROVE  OnTree(sub)'[m] = OnTree(sub')[m]
  <2>1. CASE m \notin InTree(sub')
    BY <2>1 DEF OnTree, InTree
  <2>2. CASE m \in InTree(sub') /\ sub'[m] = {}
    BY <2>2 DEF OnTree, InTree, CalcCodelength
  <2>3. CASE m \in InTree(sub') /\ sub'[m] # {} /\ sub'[m] = finds[m]
    <3>1. SubIndexCodelength(m)' = SubIndexCodelength(m)
      BY DEF SubIndexCodelength, SubCodelength, Total
    <3>2. CalcCodelength(m, sub[m])' = SubIndexCodelength(m)
      BY <2>3, <3>1 DEF CalcCodelength
    <3>3. CalcCodelength(m, sub'[m]) = SubIndexCodelength(m)
      BY <2>3 DEF CalcCodelength
    <3> QED  BY <2>3, <3>2, <3>3 DEF OnTree, InTree
  <2>4. CASE m \in InTree(sub') /\ sub'[m] # {} /\ sub'[m] # finds[m]
    BY <2>4 DEF OnTree, InTree, CalcCodelength
  <2> QED  BY <2>1, <2>2, <2>3, <2>4
<1>2. /\ OnTree(sub') = [m \in Modules |-> OnTree(sub')[m]]
      /\ OnTree(sub)' = [m \in Modules |-> OnTree(sub)'[m]]
  BY DEF OnTree
<1>3. OnTree(sub)' = OnTree(sub')
  <2>1. OnTree(sub)' = [m \in Modules |-> OnTree(sub')[m]]
    BY <1>1, <1>2
  <2> QED  BY <1>2, <2>1
<1> QED  BY <1>3 DEF TreeLength, Total

\* What a task that has made up its mind has recorded.
Recorded(m) ==
  \/ sub[m] = {} /\ record[m] = LeafRecord(m)
  \/ finds[m] # {} /\ sub[m] = finds[m] /\ record[m] = SplitRecord(m)

OwnLengths == codelength = OnTree(sub) /\ (BeforeTasks => stored = TreeLength(sub))

LengthInv ==
  /\ Measured /\ CodelengthTypes
  /\ \A m \in Modules : task[m] \in {"spawn", "done"} => Recorded(m)
  /\ pc = "tune" => TunedFirst
  /\ ~TunedFirst => OwnLengths

Record == [index : Int, module : Int, leaf : Int, children : SUBSET Modules]

LEMMA RecordTypes ==
  ASSUME Measured, NEW m \in Modules
  PROVE  LeafRecord(m) \in Record /\ SplitRecord(m) \in Record
<1>1. /\ finds[m] \in SUBSET Modules /\ SubCodelength(m) \in Int /\ SubIndexCodelength(m) \in Int
      /\ LeafLength[m] \in Int
  BY Lengths DEF Integral
<1> QED  BY <1>1 DEF LeafRecord, SplitRecord, NoRecord, Record

LEMMA CodelengthTypesStep ==
  ASSUME SafeInv, LengthInv, [Next]_vars
  PROVE  CodelengthTypes'
<1>a. /\ codelength \in [Modules -> Int] /\ record \in [Modules -> Record]
      /\ consolidated \in Int /\ limit \in Int /\ stored \in Int /\ Measured /\ Tree(sub)
  BY DEF LengthInv, CodelengthTypes, Record, SafeInv, TreeInv
<1>b. \A m \in Modules : /\ LeafLength[m] \in Int /\ finds[m] \in SUBSET Modules
                         /\ SubIndexCodelength(m) \in Int
                         /\ \A kids : CalcCodelength(m, kids) \in Int
  BY <1>a, Lengths DEF Integral
<1>c. \A S \in SUBSET Modules : Total(codelength, S) \in Int
  <2>1. Integral(codelength, Modules)
    BY <1>a DEF Integral
  <2> QED  BY <2>1, Totals
<1> USE DEF tree, tasks, sums
<1>1. CASE UNCHANGED <<codelength, record, consolidated, limit, stored>>
  BY <1>1 DEF LengthInv, CodelengthTypes
<1>2. CASE RemoveSubModules
  <2>1. Tree(sub')
    BY TreeStep DEF SafeInv, TreeInv, Tree, IsTree, InTree
  <2>2. OnTree(sub') \in [Modules -> Int] /\ TreeLength(sub') \in Int
    <3>1. /\ OnTree(sub') \in [Modules -> Int] /\ Integral(OnTree(sub'), Modules)
          /\ TreeLength(sub') = Total(OnTree(sub'), InTree(sub')) /\ InTree(sub') \in SUBSET Modules
      BY <1>a, <2>1, OnTreeIs, SubModules
    <3> QED  BY <3>1, Totals
  <2> QED  BY <1>a, <1>2, <2>2 DEF RemoveSubModules, CodelengthTypes, Record
<1>3. ASSUME NEW m \in Modules, FineTune(m) PROVE CodelengthTypes'
  <2>1. codelength' \in [Modules -> Int]
    BY <1>a, <1>b, <1>3 DEF FineTune
  <2> QED  BY <1>a, <1>3, <2>1 DEF FineTune, CodelengthTypes, Record
<1>4. CASE FillQueue
  <2>1. queue' \in SUBSET Modules
    BY TypeStep DEF SafeInv, TypeInv, TypeOK
  <2>2. Total(codelength, queue') \in Int /\ codelength[Root] \in Int
    BY <1>a, <1>c, <2>1, ModulesAre
  <2>3. limit' \in Int /\ consolidated' \in Int
    BY <1>a, <1>4, <2>2 DEF FillQueue
  <2> QED  BY <1>a, <1>4, <2>3 DEF FillQueue, CodelengthTypes, Record
<1>5. CASE AggregateLevel
  <2> DEFINE part(x) == [m \in Modules |-> record[m][x]]
  <2>1. atLevel \in SUBSET Modules
    BY DEF SafeInv, TypeInv, TypeOK
  <2>2. /\ Integral(part("index"), Modules) /\ Integral(part("leaf"), Modules)
        /\ Integral(part("module"), Modules)
    BY <1>a DEF Integral, Record
  <2>3. /\ consolidated' = consolidated + Total(part("index"), atLevel) + Total(part("leaf"), atLevel)
        /\ limit' = consolidated' + Total(part("module"), atLevel)
        /\ UNCHANGED <<codelength, record, stored>>
    BY <1>5 DEF AggregateLevel
  <2> HIDE DEF part
  <2>4. consolidated' \in Int /\ limit' \in Int
    BY <1>a, <2>1, <2>2, <2>3, Totals
  <2> QED  BY <1>a, <2>3, <2>4 DEF CodelengthTypes, Record
<1>6. CASE Store
  BY <1>a, <1>6 DEF Store, CodelengthTypes, Record
<1>7. ASSUME NEW m \in Modules, KeepLeaves(m), UNCHANGED <<consolidated, limit, stored>>
      PROVE  CodelengthTypes'
  <2>1. /\ record' = [record EXCEPT ![m] = LeafRecord(m)]
        /\ codelength' = [codelength EXCEPT ![m] = LeafLength[m]]
    BY <1>7 DEF KeepLeaves
  <2>2. record' \in [Modules -> Record] /\ codelength' \in [Modules -> Int]
    BY <1>a, <1>b, <2>1, RecordTypes
  <2> QED  BY <1>a, <1>7, <2>2 DEF CodelengthTypes, Record
<1>8. ASSUME NEW m \in Modules, Enter(m) PROVE CodelengthTypes'
  <2>1. CASE cancel \/ Cardinality(m) <= 2
    BY <1>7, <1>8, <2>1 DEF Enter
  <2>2. CASE ~(cancel \/ Cardinality(m) <= 2)
    <3>1. /\ codelength' = [codelength EXCEPT ![m] = LeafLength[m]]
          /\ UNCHANGED <<record, consolidated, limit, stored>>
      BY <1>8, <2>2 DEF Enter
    <3>2. codelength' \in [Modules -> Int]
      BY <1>a, <1>b, <3>1
    <3> QED  BY <1>a, <3>1, <3>2 DEF CodelengthTypes, Record
  <2> QED  BY <2>1, <2>2
<1>9. ASSUME NEW m \in Modules, Interrupted(m) \/ Reject(m) PROVE CodelengthTypes'
  BY <1>7, <1>9 DEF Interrupted, Reject
<1>10. ASSUME NEW m \in Modules, Accept(m) PROVE CodelengthTypes'
  <2>1. /\ record' = [record EXCEPT ![m] = SplitRecord(m)]
        /\ codelength' = [n \in Modules |-> IF n = m THEN SubIndexCodelength(m)
                                            ELSE IF n \in finds[m] THEN LeafLength[n]
                                            ELSE codelength[n]]
        /\ UNCHANGED <<consolidated, limit, stored>>
    BY <1>10 DEF Accept, SplitCodelength
  <2>2. record' \in [Modules -> Record] /\ codelength' \in [Modules -> Int]
    BY <1>a, <1>b, <2>1, RecordTypes
  <2> QED  BY <1>a, <2>1, <2>2 DEF CodelengthTypes, Record
<1>11. ASSUME NEW m \in Modules, FineTuneInterrupted(m) \/ SpawnTop(m) \/ Spawn(m) \/ Leave(m)
       PROVE  UNCHANGED <<codelength, record, consolidated, limit, stored>>
  BY <1>11 DEF FineTuneInterrupted, SpawnTop, Spawn, Leave
<1>12. KeepSubModules \/ FineTuneDone \/ StopSpawning \/ Join \/ RequestInterrupt \/ UNCHANGED vars
         => UNCHANGED <<codelength, record, consolidated, limit, stored>>
  BY DEF KeepSubModules, FineTuneDone, StopSpawning, Join, RequestInterrupt, vars
<1> QED
  BY <1>1, <1>2, <1>3, <1>4, <1>5, <1>6, <1>8, <1>9, <1>10, <1>11, <1>12 DEF Next, Owner, Task

\* A record depends on the module and on what its sub-Infomap finds.
LEMMA StaysRecorded ==
  ASSUME finds' = finds, gain' = gain, NEW m, Recorded(m), sub'[m] = sub[m], record'[m] = record[m]
  PROVE  Recorded(m)'
  BY DEF Recorded, LeafRecord, SplitRecord, NoRecord, SubIndexCodelength, SubCodelength, Total

\* What tasks have recorded, and the codelengths in the tree, are those of the tree.
LEMMA LengthStep ==
  ASSUME SafeInv, LengthInv, [Next]_vars
  PROVE  LengthInv'
<1>a. /\ Tree(sub) /\ task \in [Modules -> {"none", "ready", "search", "spawn", "done"}]
      /\ record = [m \in Modules |-> record[m]] /\ codelength \in [Modules -> Int]
      /\ Measured /\ finds' = finds /\ gain' = gain
      /\ start' = start /\ start \in [fast : 0..2, deep : BOOLEAN]
  BY TreeChanges, RecursionAssumption
  DEF SafeInv, TreeInv, TypeInv, TypeOK, LengthInv, CodelengthTypes
<1>b. Measured' /\ CodelengthTypes' /\ TunedFirst' = TunedFirst
  BY <1>a, CodelengthTypesStep DEF Measured, TunedFirst
<1>c. OnTree(sub)' = OnTree(sub') /\ (TreeLength(sub))' = TreeLength(sub')
  BY <1>a, OnTreeLater
<1> USE DEF tree, tasks, sums
<1>1. ASSUME \A m \in Modules : task'[m] \in {"spawn", "done"} => Recorded(m)',
             pc' = "tune" => TunedFirst, ~TunedFirst => OwnLengths'
      PROVE  LengthInv'
  BY <1>b, <1>1 DEF LengthInv
<1>2. ASSUME ~TunedFirst, UNCHANGED <<codelength, stored, sub>>, BeforeTasks' => BeforeTasks
      PROVE  OwnLengths'
  BY <1>2, <1>c DEF LengthInv, OwnLengths
<1>3. ASSUME UNCHANGED <<sub, record>>,
             \A m \in Modules : task'[m] \in {"spawn", "done"} => task[m] \in {"spawn", "done"},
             UNCHANGED codelength,
             BeforeTasks' => BeforeTasks /\ UNCHANGED stored, pc' = "tune" => TunedFirst
      PROVE  LengthInv'
  <2>1. \A m \in Modules : task'[m] \in {"spawn", "done"} => Recorded(m)'
    BY <1>a, <1>3, StaysRecorded DEF LengthInv
  <2>2. ~TunedFirst => OwnLengths'
    BY <1>c, <1>3 DEF LengthInv, OwnLengths
  <2> QED  BY <1>1, <1>3, <2>1, <2>2
<1>4. CASE RemoveSubModules
  <2>1. /\ codelength' = OnTree(sub') /\ stored' = TreeLength(sub') /\ pc' = "queue"
        /\ task' = task /\ BeforeTasks
    BY <1>4 DEF RemoveSubModules, BeforeTasks
  <2>2. \A m \in Modules : task'[m] = "none"
    BY <2>1 DEF SafeInv, WorkInv
  <2> QED  BY <1>1, <1>c, <2>1, <2>2 DEF OwnLengths
<1>5. CASE KeepSubModules
  <2>1. UNCHANGED <<sub, record, task, codelength, stored>> /\ BeforeTasks
    BY <1>5 DEF KeepSubModules, BeforeTasks
  <2>2. pc' = "tune" => TunedFirst
    BY <1>5, <1>a DEF KeepSubModules, TunedFirst
  <2> QED  BY <1>3, <2>1, <2>2
<1>6. ASSUME NEW m \in Modules, FineTune(m) \/ FineTuneInterrupted(m) PROVE LengthInv'
  <2>1. pc = "tune" /\ task' = task
    BY <1>6 DEF FineTune, FineTuneInterrupted
  <2>2. TunedFirst /\ \A k \in Modules : task'[k] = "none"
    BY <2>1 DEF LengthInv, SafeInv, WorkInv, BeforeTasks
  <2> QED  BY <1>1, <2>2
<1>7. CASE FineTuneDone \/ FillQueue \/ StopSpawning \/ Join \/ AggregateLevel \/ Store
           \/ RequestInterrupt \/ UNCHANGED vars
  <2>1. /\ UNCHANGED <<sub, record, task, codelength>>
        /\ BeforeTasks' => BeforeTasks /\ UNCHANGED stored
    BY <1>7 DEF FineTuneDone, FillQueue, StopSpawning, Join, AfterJoin, AggregateLevel, Store,
                RequestInterrupt, vars, BeforeTasks
  <2>2. pc' = "tune" => pc = "tune"
    BY <1>7 DEF FineTuneDone, FillQueue, StopSpawning, Join, AfterJoin, AggregateLevel, Store,
                RequestInterrupt, vars
  <2> QED  BY <1>3, <2>1, <2>2 DEF LengthInv
<1>8. ASSUME NEW m \in Modules, SpawnTop(m) \/ Spawn(m) \/ Leave(m) PROVE LengthInv'
  <2>1. /\ UNCHANGED <<sub, record, codelength, stored, pc>>
        /\ \E n \in Modules : \/ task' = [task EXCEPT ![n] = "ready"]
                              \/ task[n] = "spawn" /\ task' = [task EXCEPT ![n] = "done"]
    <3>1. CASE SpawnTop(m) \/ Leave(m)
      BY <3>1 DEF SpawnTop, Leave
    <3>2. CASE Spawn(m)
      <4>1. PICK n \in todo[m] : task' = [task EXCEPT ![n] = "ready"]
        BY <3>2 DEF Spawn, Largest
      <4>2. n \in Modules
        BY DEF SafeInv, TypeInv, TypeOK
      <4> QED  BY <3>2, <4>1, <4>2 DEF Spawn
    <3> QED  BY <1>8, <3>1, <3>2
  <2>2. \A k \in Modules : task'[k] \in {"spawn", "done"} => task[k] \in {"spawn", "done"}
    BY <1>a, <2>1
  <2>3. (BeforeTasks' => BeforeTasks) /\ (pc' = "tune" => TunedFirst)
    BY <2>1 DEF LengthInv, BeforeTasks
  <2> QED  BY <1>3, <2>1, <2>2, <2>3
\* The codelength of a leaf module is computed again.
<1>9. ASSUME NEW m \in Modules, task[m] \in {"ready", "search"}, UNCHANGED <<sub, stored, pc>>,
             codelength' = [codelength EXCEPT ![m] = LeafLength[m]]
      PROVE  (BeforeTasks' => FALSE) /\ pc' # "tune" /\ sub[m] = {} /\ (~TunedFirst => OwnLengths')
  <2>1. ~BeforeTasks /\ m \in LeafModules(sub)
    BY <1>9 DEF SafeInv, WorkInv, LeafModules
  <2>2. ~BeforeTasks' /\ pc' # "tune"
    BY <1>9, <2>1 DEF BeforeTasks
  <2>3. ASSUME ~TunedFirst PROVE codelength' = OnTree(sub)
    <3>1. codelength = OnTree(sub) /\ OnTree(sub)[m] = LeafLength[m]
      BY <1>a, <2>1, <2>3, OnTreeIs DEF LengthInv, OwnLengths
    <3> QED  BY <1>9, <1>a, <3>1
  <2> QED  BY <1>9, <1>c, <2>1, <2>2, <2>3 DEF OwnLengths, LeafModules
<1>10. ASSUME NEW m \in Modules, task[m] \in {"ready", "search"}, KeepLeaves(m),
              UNCHANGED <<sub, stored, pc>>
       PROVE  LengthInv'
  <2>1. /\ record' = [record EXCEPT ![m] = LeafRecord(m)] /\ task' = [task EXCEPT ![m] = "done"]
        /\ codelength' = [codelength EXCEPT ![m] = LeafLength[m]]
    BY <1>10 DEF KeepLeaves
  <2>2. sub[m] = {} /\ pc' # "tune" /\ (~TunedFirst => OwnLengths')
    BY <1>9, <1>10, <2>1
  <2>3. /\ record'[m] = LeafRecord(m)
        /\ \A k \in Modules \ {m} : record'[k] = record[k] /\ task'[k] = task[k]
    BY <1>a, <2>1
  <2>4. Recorded(m)'
    BY <1>10, <2>2, <2>3 DEF Recorded, LeafRecord, NoRecord
  <2>5. ASSUME NEW k \in Modules, k # m, task'[k] \in {"spawn", "done"} PROVE Recorded(k)'
    <3>1. Recorded(k) /\ record'[k] = record[k] /\ sub'[k] = sub[k]
      BY <1>10, <2>3, <2>5 DEF LengthInv
    <3> QED  BY <1>a, <3>1, StaysRecorded
  <2> QED  BY <1>1, <2>2, <2>4, <2>5
<1>11. ASSUME NEW m \in Modules, Enter(m) \/ Interrupted(m) \/ Reject(m) PROVE LengthInv'
  <2>1. task[m] \in {"ready", "search"} /\ UNCHANGED <<sub, stored, pc>>
    BY <1>11 DEF Enter, Interrupted, Reject
  <2>2. CASE KeepLeaves(m)
    BY <1>10, <2>1, <2>2
  <2>3. CASE ~KeepLeaves(m)
    <3>1. /\ codelength' = [codelength EXCEPT ![m] = LeafLength[m]]
          /\ task' = [task EXCEPT ![m] = "search"] /\ record' = record
      BY <1>11, <2>3 DEF Enter, Interrupted, Reject
    <3>2. pc' # "tune" /\ (~TunedFirst => OwnLengths')
      BY <1>9, <2>1, <3>1
    <3>3. ASSUME NEW k \in Modules, task'[k] \in {"spawn", "done"} PROVE Recorded(k)'
      <4>1. k # m /\ task'[k] = task[k]
        BY <1>a, <3>1, <3>3
      <4>2. Recorded(k) /\ record'[k] = record[k] /\ sub'[k] = sub[k]
        BY <2>1, <3>1, <3>3, <4>1 DEF LengthInv
      <4> QED  BY <1>a, <4>2, StaysRecorded
    <3> QED  BY <1>1, <3>2, <3>3
  <2> QED  BY <2>2, <2>3
<1>12. ASSUME NEW m \in Modules, Accept(m) PROVE LengthInv'
  <2>1. /\ task[m] = "search" /\ task' = [task EXCEPT ![m] = "spawn"]
        /\ record' = [record EXCEPT ![m] = SplitRecord(m)] /\ UNCHANGED <<stored, pc>>
        /\ codelength' = [n \in Modules |-> IF n = m THEN SubIndexCodelength(m)
                                            ELSE IF n \in finds[m] THEN LeafLength[n]
                                            ELSE codelength[n]]
    BY <1>12 DEF Accept, SplitCodelength
  <2>2. Replaced(sub, sub', m, finds[m]) /\ sub[m] = {} /\ finds[m] # {}
    BY <1>12, AcceptReplaces DEF SafeInv
  <2>3. /\ InTree(sub') = InTree(sub) \cup finds[m] /\ Tree(sub') /\ m \in InTree(sub)
        /\ sub'[m] = finds[m] /\ \A n \in Modules \ {m} : sub'[n] = sub[n]
        /\ \A n \in finds[m] : sub[n] = {} /\ n \notin InTree(sub)
    <3>1. m \in InTree(sub)
      BY <2>2 DEF Replaced
    <3> QED  BY <2>2, <3>1, ReplacedTree
  <2>4. \A k \in Modules \ {m} : record'[k] = record[k] /\ task'[k] = task[k]
    BY <1>a, <2>1
  <2>5. Recorded(m)'
    <3>1. record'[m] = SplitRecord(m)
      BY <1>a, <2>1
    <3>2. SplitRecord(m)' = SplitRecord(m)
      BY <1>a DEF SplitRecord, SubIndexCodelength, SubCodelength, Total
    <3> QED  BY <1>a, <2>2, <2>3, <3>1, <3>2 DEF Recorded
  <2>6. ASSUME NEW k \in Modules, k # m, task'[k] \in {"spawn", "done"} PROVE Recorded(k)'
    <3>1. Recorded(k) /\ record'[k] = record[k] /\ sub'[k] = sub[k]
      BY <2>3, <2>4, <2>6 DEF LengthInv
    <3> QED  BY <1>a, <3>1, StaysRecorded
  <2>7. ~BeforeTasks /\ ~BeforeTasks' /\ pc' # "tune"
    BY <2>1 DEF SafeInv, WorkInv, BeforeTasks
  <2>8. ASSUME ~TunedFirst PROVE codelength' = OnTree(sub')
    <3>1. codelength = OnTree(sub)
      BY <2>8 DEF LengthInv, OwnLengths
    <3>2. ASSUME NEW n \in Modules PROVE codelength'[n] = OnTree(sub')[n]
      <4>1. CASE n = m
        <5>1. OnTree(sub')[m] = SubIndexCodelength(m)
          BY <2>2, <2>3 DEF OnTree, CalcCodelength
        <5> QED  BY <2>1, <4>1, <5>1
      <4>2. CASE n \in finds[m]
        <5>1. n # m /\ n \in InTree(sub') /\ sub'[n] = {}
          BY <2>3, <4>2
        <5>2. OnTree(sub')[n] = LeafLength[n]
          BY <5>1 DEF OnTree, CalcCodelength
        <5> QED  BY <2>1, <4>2, <5>1, <5>2
      <4>3. CASE n # m /\ n \notin finds[m]
        <5>1. OnTree(sub')[n] = OnTree(sub)[n]
          BY <2>3, <4>3 DEF OnTree
        <5> QED  BY <2>1, <3>1, <4>3, <5>1
      <4> QED  BY <4>1, <4>2, <4>3
    <3>3. /\ codelength' = [n \in Modules |-> codelength'[n]]
          /\ OnTree(sub') = [n \in Modules |-> OnTree(sub')[n]]
      BY <2>1 DEF OnTree
    <3>4. codelength' = [n \in Modules |-> OnTree(sub')[n]]
      BY <3>2, <3>3
    <3> QED  BY <3>3, <3>4
  <2> QED  BY <1>1, <1>c, <2>5, <2>6, <2>7, <2>8 DEF OwnLengths
<1> QED
  BY <1>4, <1>5, <1>6, <1>7, <1>8, <1>11, <1>12 DEF Next, Owner, Task

-----------------------------------------------------------------------------
(***************************************************************************)
(* The aggregation.                                                        *)
(***************************************************************************)
Under(s, at) == {m \in InTree(s) : \E n \in at : m \subseteq n}
Outside(s, at) == InTree(s) \ Under(s, at)

Apart(at) == \A a, b \in at : a = b \/ a \cap b = {}

\* The level that is not in the consolidated codelength yet.
At == IF pc \in {"spawn", "join"} THEN queue ELSE atLevel

Adds(lengths, s, at, c, l) ==
  c = Total(lengths, Outside(s, at)) /\ l = c + Total(LeafLength, at)

LevelAdds == Adds(OnTree(sub), sub, At, consolidated, limit)

SumInv ==
  /\ pc \in {"aggregate", "completed"} =>
       /\ atLevel \subseteq Under(sub, queue) /\ Apart(atLevel)
       /\ pc = "completed" => atLevel = {} /\ stored = limit
  /\ pc \in {"spawn", "join", "aggregate", "completed"} /\ ~TunedFirst => LevelAdds

\* The next level of the tree below one.
LevelBelow(s, at) == UNION {s[m] : m \in at}

\* One level down: the new level lies below the old one and the old one is passed.
LEMMA NextLevel ==
  ASSUME NEW s, Tree(s), NEW at, at \subseteq InTree(s), Apart(at)
  PROVE  /\ LevelBelow(s, at) \subseteq Under(s, at) /\ Apart(LevelBelow(s, at))
         /\ Outside(s, LevelBelow(s, at)) = Outside(s, at) \cup at /\ Outside(s, at) \cap at = {}
         /\ Parted(s, at, Modules)
<1> DEFINE next == LevelBelow(s, at)
<1>1. ASSUME NEW c \in next
      PROVE  \E n \in at : /\ n \in Modules /\ c \in s[n] /\ c \subseteq n
                           /\ c # n /\ c # {} /\ c \in InTree(s)
  <2>1. PICK n \in at : c \in s[n]
    BY DEF LevelBelow
  <2>2. n \in Modules
    BY SubModules
  <2> QED  BY <2>1, <2>2, SubModules
<1>2. next \subseteq Under(s, at)
  BY <1>1 DEF Under
<1>3. ASSUME NEW a \in next, NEW b \in next PROVE a = b \/ a \cap b = {}
  <2>1. PICK n \in at : n \in Modules /\ a \in s[n] /\ a \subseteq n
    BY <1>1
  <2>2. PICK k \in at : k \in Modules /\ b \in s[k] /\ b \subseteq k
    BY <1>1
  <2>3. CASE n = k
    <3>1. Shares(s[n], n)
      BY <2>1, SubModules DEF Divides
    <3> QED  BY <2>1, <2>2, <2>3, <3>1 DEF Shares
  <2>4. CASE n # k
    BY <2>1, <2>2, <2>4 DEF Apart
  <2> QED  BY <2>3, <2>4
<1>4. ASSUME NEW m \in Under(s, at), m \notin at PROVE m \in Under(s, next)
  <2>1. PICK n \in at : m \subseteq n /\ m # n /\ m \in InTree(s) /\ n \in InTree(s)
    BY <1>4 DEF Under
  <2>2. PICK c \in s[n] : m \subseteq c
    BY <2>1, InsideIs DEF Below
  <2> QED  BY <2>1, <2>2 DEF Under, LevelBelow
<1>5. ASSUME NEW m \in Under(s, next) PROVE m \in Under(s, at) /\ m \notin at
  <2>1. PICK c \in next : m \subseteq c /\ m \in InTree(s)
    BY <1>5 DEF Under
  <2>2. PICK n \in at : n \in Modules /\ c \subseteq n /\ c # n
    BY <1>1
  <2>3. m \in Modules /\ m # {}
    BY <2>1, SubModules, ModulesAre
  <2>4. m \notin at
    BY <2>1, <2>2, <2>3 DEF Apart
  <2> QED  BY <2>1, <2>2, <2>4 DEF Under
<1>6. at \subseteq Under(s, at)
  BY DEF Under
<1>7. Parted(s, at, Modules)
  <2>1. \A m \in at : m \in Modules /\ s[m] \subseteq Modules
    BY SubModules
  <2>2. ASSUME NEW x \in at, NEW y \in at, x # y PROVE s[x] \cap s[y] = {}
    BY <2>1, <2>2, OneParent
  <2> QED  BY <2>1, <2>2 DEF Parted
<1> QED  BY <1>2, <1>3, <1>4, <1>5, <1>6, <1>7 DEF Outside, Apart

\* What a split records as its module part is the codelength of its sub-modules as leaves.
LEMMA RecordedShares ==
  ASSUME Measured, NEW m \in InTree(sub), Tree(sub), Recorded(m)
  PROVE  /\ OnTree(sub)[m] = record[m].index + record[m].leaf
         /\ record[m].module = Total(LeafLength, sub[m])
         /\ record[m].children = sub[m]
         /\ record[m].index \in Int /\ record[m].leaf \in Int
<1>0. m \in Modules
  BY SubModules
<1>1. /\ finds[m] \in SUBSET Modules /\ SubCodelength(m) \in Int /\ SubIndexCodelength(m) \in Int
      /\ LeafLength[m] \in Int /\ OnTree(sub)[m] = CalcCodelength(m, sub[m])
      /\ Total(LeafLength, finds[m]) \in Int
  BY <1>0, Lengths, OnTreeIs, Totals DEF Integral
<1>2. CASE sub[m] = {} /\ record[m] = LeafRecord(m)
  <2>1. /\ record[m].index = 0 /\ record[m].leaf = LeafLength[m] /\ record[m].module = 0
        /\ record[m].children = {}
    BY <1>2 DEF LeafRecord, NoRecord
  <2>2. CalcCodelength(m, sub[m]) = LeafLength[m]
    BY <1>2 DEF CalcCodelength
  <2>3. Total(LeafLength, {}) = 0
    BY SumEmpty DEF Total
  <2> QED  BY <1>1, <1>2, <2>1, <2>2, <2>3
<1>3. CASE finds[m] # {} /\ sub[m] = finds[m] /\ record[m] = SplitRecord(m)
  <2>1. /\ record[m].index = SubIndexCodelength(m) /\ record[m].leaf = 0
        /\ record[m].module = SubCodelength(m) - SubIndexCodelength(m)
        /\ record[m].children = finds[m]
    BY <1>3 DEF SplitRecord
  <2>2. CalcCodelength(m, sub[m]) = SubIndexCodelength(m)
    BY <1>3 DEF CalcCodelength
  <2>3. SubIndexCodelength(m) = SubCodelength(m) - Total(LeafLength, finds[m])
    BY DEF SubIndexCodelength
  <2> QED  BY <1>1, <1>3, <2>1, <2>2, <2>3
<1> QED  BY <1>2, <1>3 DEF Recorded

LEMMA AddsLater ==
  ASSUME finds' = finds, gain' = gain, Adds(OnTree(sub'), sub', At', consolidated', limit')
  PROVE  LevelAdds'
<1>1. OnTree(sub)' = OnTree(sub')
  BY OnTreeLater
<1> QED  BY <1>1 DEF LevelAdds, Adds, Outside, Under, InTree, Total

\* A tree whose top modules are leaf modules.
LEMMA TopOnly ==
  ASSUME NEW s, Tree(s), s[Root] # {}, s[Root] \subseteq LeafModules(s)
  PROVE  InTree(s) = {Root} \cup s[Root]
<1>1. Root \in Modules /\ Root \in InTree(s) /\ s[Root] \subseteq InTree(s)
  BY ModulesAre, SubModules
<1>2. ASSUME NEW m \in InTree(s), m # Root PROVE m \in s[Root]
  <2>1. m \in Modules /\ m \subseteq Root /\ m # {}
    BY SubModules, ModulesAre
  <2>2. PICK c \in s[Root] : m \subseteq c
    BY <1>1, <1>2, <2>1, InsideIs DEF Below
  <2>3. c \in LeafModules(s) /\ c \cap m # {}
    BY <2>1, <2>2
  <2>4. c \subseteq m
    BY <2>3, LeafModulesApart
  <2>5. m = c
    BY <2>2, <2>4
  <2> QED  BY <2>5
<1> QED  BY <1>1, <1>2

\* The queue, and what is not in it, share the codelength of the tree.
LEMMA QueueAdds ==
  ASSUME SafeInv, LengthInv, ~TunedFirst, FillQueue
  PROVE  Adds(OnTree(sub), sub, queue', consolidated', limit')
<1> DEFINE lengths == OnTree(sub)
           out == Outside(sub, queue')
<1>1. /\ queue' = Queued /\ pc = "queue" /\ sub[Root] # {} /\ TreeInv /\ TuneInv /\ Tree(sub)
      /\ Measured /\ codelength = lengths /\ stored = TreeLength(sub)
      /\ limit' = IF start.fast > 0 THEN stored ELSE codelength[Root] + Total(codelength, queue')
      /\ consolidated' = limit' - Total(codelength, queue')
  BY DEF FillQueue, SafeInv, TreeInv, LengthInv, OwnLengths, BeforeTasks
<1>2. queue' \subseteq LeafModules(sub) /\ queue' \subseteq Modules
  BY <1>1, QueuedAre
<1>3. Integral(lengths, Modules) /\ Integral(LeafLength, Modules)
  BY <1>1, OnTreeIs, Lengths
<1>4. InTree(sub) \subseteq Modules /\ queue' \subseteq InTree(sub)
  BY <1>1, <1>2, SubModules
<1>5. out = InTree(sub) \ queue'
  <2>1. ASSUME NEW m \in InTree(sub), NEW q \in queue', m \subseteq q PROVE m = q
    <3>1. m # {} /\ q \cap m # {} /\ q \in LeafModules(sub)
      BY <1>2, <1>4, <2>1, ModulesAre
    <3>2. q \subseteq m
      BY <1>1, <3>1, LeafModulesApart
    <3> QED  BY <2>1, <3>2
  <2> QED  BY <1>4, <2>1 DEF Outside, Under
<1>6. /\ out \subseteq Modules /\ out \cap queue' = {} /\ InTree(sub) = out \cup queue'
      /\ Total(lengths, out) \in Int /\ Total(lengths, queue') \in Int
      /\ Total(lengths, out \cup queue') = Total(lengths, out) + Total(lengths, queue')
  <2>1. out \in SUBSET Modules /\ out \cap queue' = {} /\ InTree(sub) = out \cup queue'
    BY <1>4, <1>5
  <2> HIDE DEF out, lengths
  <2> QED  BY <1>2, <1>3, <2>1, Totals
<1>7. Total(lengths, queue') = Total(LeafLength, queue')
  <2>1. \A m \in queue' : lengths[m] = LeafLength[m]
    BY <1>1, <1>2, OnTreeIs
  <2>2. IsFiniteSet(queue') /\ Integral(LeafLength, queue')
    BY <1>2, <1>3, ModulesAre DEF Integral
  <2> HIDE DEF lengths
  <2> QED  BY <2>1, <2>2, SumSame DEF Total
<1>8. limit' = Total(lengths, out) + Total(lengths, queue')
  <2>1. CASE start.fast > 0
    BY <1>1, <1>6, <2>1, OnTreeIs
  <2>2. CASE ~(start.fast > 0)
    <3>1. start.fast = 0
      <4>1. start \in [fast : 0..2, deep : BOOLEAN]
        BY <1>1, RecursionAssumption DEF TreeInv
      <4> QED  BY <2>2, <4>1
    <3>2. queue' = sub[Root] /\ sub[Root] \subseteq LeafModules(sub)
      BY <1>1, <2>2, <3>1 DEF Queued, TuneInv
    <3>3. Root \notin sub[Root] /\ Root \in Modules
      BY <1>1, SubModules, ModulesAre
    <3>4. out = {Root}
      BY <1>1, <1>5, <3>2, <3>3, TopOnly
    <3>5. Total(lengths, {Root}) = lengths[Root]
      BY <1>3, <3>3, SumSingle DEF Total, Integral
    <3> QED  BY <1>1, <2>2, <3>4, <3>5
  <2> QED  BY <2>1, <2>2
<1> HIDE DEF lengths, out
<1>9. consolidated' = Total(lengths, out) /\ limit' = consolidated' + Total(LeafLength, queue')
  BY <1>1, <1>6, <1>7, <1>8
<1> QED  BY <1>9 DEF Adds, lengths, out

\* Splitting a module below the queue changes nothing outside it.
LEMMA SplitAdds ==
  ASSUME SafeInv, LevelInv, Measured, NEW m \in Modules, Accept(m), NEW c, NEW l,
         Adds(OnTree(sub), sub, queue, c, l)
  PROVE  Adds(OnTree(sub'), sub', queue, c, l)
<1>1. Replaced(sub, sub', m, finds[m]) /\ sub[m] = {}
  BY AcceptReplaces DEF SafeInv
<1>2. /\ Tree(sub) /\ InTree(sub') = InTree(sub) \cup finds[m]
      /\ \A n \in Modules \ {m} : sub'[n] = sub[n]
  <2>1. Tree(sub)
    BY DEF SafeInv, TreeInv
  <2> QED  BY <1>1, <2>1, ReplacedTree
<1>3. PICK q \in queue : m \subseteq q
  <2>1. task[m] # "none"
    BY DEF Accept
  <2> QED  BY <2>1 DEF LevelInv, AtDepth
<1>4. m \in InTree(sub) /\ \A n \in finds[m] : n \subseteq m
  <2>1. m \in InTree(sub) /\ (finds[m] = {} \/ Shares(finds[m], m))
    BY <1>1 DEF Replaced, Divides
  <2> QED  BY <2>1 DEF Shares
<1>5. Outside(sub', queue) = Outside(sub, queue)
  BY <1>2, <1>3, <1>4 DEF Outside, Under
<1>6. ASSUME NEW n \in Outside(sub, queue)
      PROVE  n \in Modules /\ OnTree(sub')[n] = OnTree(sub)[n]
  <2>1. n \in Modules /\ n # m /\ n \in InTree(sub) /\ n \in InTree(sub')
    BY <1>2, <1>3, <1>4, SubModules DEF Outside, Under
  <2> QED  BY <1>2, <2>1 DEF OnTree
<1>7. Total(OnTree(sub'), Outside(sub, queue)) = Total(OnTree(sub), Outside(sub, queue))
  <2>1. Outside(sub, queue) \in SUBSET Modules /\ Integral(OnTree(sub), Modules)
    BY <1>2, <1>6, OnTreeIs
  <2>2. IsFiniteSet(Outside(sub, queue)) /\ Integral(OnTree(sub), Outside(sub, queue))
    BY <2>1, ModulesAre DEF Integral
  <2> QED  BY <1>6, <2>2, SumSame DEF Total
<1> QED  BY <1>5, <1>7 DEF Adds

\* Aggregating a level moves the limit down to the next.
LEMMA AggregationAdds ==
  ASSUME SafeInv, ResultInv, LengthInv, SumInv, AggregateLevel
  PROVE  /\ atLevel' = LevelBelow(sub, atLevel)
         /\ atLevel' \subseteq Under(sub, queue) /\ Apart(atLevel')
         /\ Adds(OnTree(sub), sub, atLevel, consolidated, limit) =>
              Adds(OnTree(sub), sub, atLevel', consolidated', limit')
<1> DEFINE part(x) == [m \in Modules |-> record[m][x]]
           lengths == OnTree(sub)
           out == Outside(sub, atLevel)
<1>1. /\ Tree(sub) /\ Measured /\ pc = "aggregate"
      /\ atLevel \subseteq Under(sub, queue) /\ Apart(atLevel)
      /\ record \in [Modules -> Record] /\ consolidated \in Int
  BY DEF SafeInv, TreeInv, LengthInv, SumInv, AggregateLevel, CodelengthTypes, Record
<1>2. atLevel \subseteq InTree(sub) /\ InTree(sub) \subseteq Modules
  BY <1>1, SubModules DEF Under
<1>3. ASSUME NEW m \in atLevel PROVE Recorded(m)
  <2>1. PICK q \in queue : m \subseteq q
    BY <1>1 DEF Under
  <2>2. m \in Modules /\ task[m] = "done"
    BY <1>1, <1>2, <2>1, DoneBelow
  <2> QED  BY <2>2 DEF LengthInv
<1>4. ASSUME NEW m \in atLevel
      PROVE  /\ lengths[m] = part("index")[m] + part("leaf")[m]
             /\ part("module")[m] = Total(LeafLength, sub[m])
             /\ record[m].children = sub[m]
  <2>1. m \in InTree(sub) /\ m \in Modules /\ Recorded(m)
    BY <1>2, <1>3
  <2>2. /\ lengths[m] = record[m].index + record[m].leaf
        /\ record[m].module = Total(LeafLength, sub[m]) /\ record[m].children = sub[m]
    BY <1>1, <2>1, RecordedShares
  <2> QED  BY <2>1, <2>2
<1>5. /\ consolidated' = consolidated + Total(part("index"), atLevel) + Total(part("leaf"), atLevel)
      /\ limit' = consolidated' + Total(part("module"), atLevel)
      /\ atLevel' = UNION {record[m].children : m \in atLevel}
  BY DEF AggregateLevel
<1>6. /\ Integral(part("index"), Modules) /\ Integral(part("leaf"), Modules)
      /\ Integral(part("module"), Modules) /\ Integral(lengths, Modules)
      /\ Integral(LeafLength, Modules)
  <2>1. Integral(lengths, Modules) /\ Integral(LeafLength, Modules)
    BY <1>1, OnTreeIs, Lengths
  <2> QED  BY <1>1, <2>1 DEF Integral, Record
<1> HIDE DEF part, lengths
<1>7. atLevel' = LevelBelow(sub, atLevel)
  BY <1>4, <1>5 DEF LevelBelow
<1>8. /\ atLevel' \subseteq Under(sub, atLevel) /\ Apart(atLevel')
      /\ Outside(sub, atLevel') = out \cup atLevel /\ out \cap atLevel = {}
      /\ Parted(sub, atLevel, Modules)
  BY <1>1, <1>2, <1>7, NextLevel
<1>9. atLevel' \subseteq Under(sub, queue)
  BY <1>1, <1>8 DEF Under
<1>10. /\ out \in SUBSET Modules /\ atLevel \in SUBSET Modules
       /\ IsFiniteSet(atLevel)
  BY <1>2, ModulesAre DEF Outside
<1>11. Total(lengths, atLevel) = Total(part("index"), atLevel) + Total(part("leaf"), atLevel)
  <2>1. Integral(part("index"), atLevel) /\ Integral(part("leaf"), atLevel)
    BY <1>6, <1>10 DEF Integral
  <2> QED  BY <1>4, <1>10, <2>1, SumPointwise DEF Total
<1>12. Total(part("module"), atLevel) = Total(LeafLength, atLevel')
  <2>1. \A m \in atLevel : part("module")[m] = SumFunctionOnSet(LeafLength, sub[m])
    BY <1>4 DEF Total
  <2>2. SumFunctionOnSet(part("module"), atLevel)
          = SumFunctionOnSet(LeafLength, UNION {sub[m] : m \in atLevel})
    BY <1>6, <1>8, <1>10, <2>1, ModulesAre, SumOfParts
  <2> QED  BY <1>7, <2>2 DEF Total, LevelBelow
<1>13. Total(lengths, out \cup atLevel) = Total(lengths, out) + Total(lengths, atLevel)
  BY <1>6, <1>8, <1>10, Totals
<1>14. /\ Total(part("index"), atLevel) \in Int /\ Total(part("leaf"), atLevel) \in Int
       /\ Total(lengths, out) \in Int
  BY <1>6, <1>10, Totals
<1>15. ASSUME consolidated = Total(lengths, out)
       PROVE  /\ consolidated' = Total(lengths, Outside(sub, atLevel'))
              /\ limit' = consolidated' + Total(LeafLength, atLevel')
  <2> HIDE DEF out
  <2>1. consolidated' = Total(lengths, out) + Total(lengths, atLevel)
    BY <1>5, <1>11, <1>14, <1>15
  <2> QED  BY <1>5, <1>8, <1>12, <1>13, <2>1
<1> QED  BY <1>7, <1>8, <1>9, <1>15 DEF Adds, lengths

\* One step of the aggregation adds one level and passes on to the next.
LEMMA AggregationStep ==
  ASSUME SafeInv, LevelInv, ResultInv, LengthInv, SumInv, [Next]_vars
  PROVE  SumInv'
<1>a. /\ finds' = finds /\ gain' = gain /\ TunedFirst' = TunedFirst /\ Measured
      /\ pc \in {"begin", "tune", "queue", "spawn", "join", "aggregate", "completed", "interrupted"}
  BY TreeChanges DEF TunedFirst, LengthInv, SafeInv, TypeInv, TypeOK
<1> USE DEF tree, tasks, sums
<1>1. CASE pc' \in {"begin", "tune", "queue", "interrupted"}
  BY <1>1 DEF SumInv
<1>2. CASE FillQueue
  <2>1. pc' = "spawn" /\ sub' = sub /\ At' = queue'
    BY <1>2 DEF FillQueue, At
  <2>2. ~TunedFirst => LevelAdds'
    BY <1>2, <1>a, <2>1, QueueAdds, AddsLater
  <2> QED  BY <1>a, <2>1, <2>2 DEF SumInv
<1>3. ASSUME NEW m \in Modules, Accept(m) PROVE SumInv'
  <2>1. task[m] = "search" /\ UNCHANGED <<pc, queue, consolidated, limit>>
    BY <1>3 DEF Accept
  <2>2. pc \notin {"aggregate", "completed"}
    BY <2>1 DEF ResultInv
  <2>3. CASE pc \in {"spawn", "join"}
    <3>1. At = queue /\ At' = queue
      BY <2>1, <2>3 DEF At
    <3>2. ~TunedFirst => Adds(OnTree(sub), sub, queue, consolidated, limit)
      BY <2>3, <3>1 DEF SumInv, LevelAdds
    <3>3. ~TunedFirst => Adds(OnTree(sub'), sub', queue, consolidated, limit)
      BY <1>3, <1>a, <3>2, SplitAdds
    <3>4. ~TunedFirst => LevelAdds'
      BY <1>a, <2>1, <3>1, <3>3, AddsLater
    <3> QED  BY <1>a, <2>1, <2>2, <3>4 DEF SumInv
  <2>4. CASE pc \notin {"spawn", "join"}
    BY <2>1, <2>2, <2>4 DEF SumInv
  <2> QED  BY <2>3, <2>4
\* The level stays where it is.
<1>4. ASSUME UNCHANGED <<sub, consolidated, limit>>, At' = At,
             pc \in {"spawn", "join", "aggregate", "completed"}
      PROVE  ~TunedFirst' => LevelAdds'
  <2>1. ~TunedFirst => Adds(OnTree(sub'), sub', At', consolidated', limit')
    BY <1>4 DEF SumInv, LevelAdds
  <2> QED  BY <1>a, <2>1, AddsLater
<1>5. CASE Join
  <2>1. CASE pc' = "interrupted"
    BY <1>1, <2>1
  <2>2. CASE pc' # "interrupted"
    <3>1. pc = "join" /\ pc' = "aggregate" /\ atLevel' = queue
          /\ UNCHANGED <<sub, queue, consolidated, limit>>
      BY <1>5, <2>2 DEF Join, AfterJoin
    <3>2. At' = At
      BY <3>1 DEF At
    <3>3. queue \subseteq Under(sub, queue) /\ Apart(queue)
      BY DEF LevelInv, Under, Apart
    <3>4. atLevel' \subseteq Under(sub, queue)' /\ Apart(atLevel')
      BY <3>1, <3>3 DEF Under, InTree, Apart
    <3> QED  BY <1>4, <3>1, <3>2, <3>4 DEF SumInv, Apart
  <2> QED  BY <2>1, <2>2
<1>6. CASE AggregateLevel
  <2>1. pc = "aggregate" /\ pc' = pc /\ UNCHANGED <<sub, queue>>
    BY <1>6 DEF AggregateLevel
  <2>2. At = atLevel /\ At' = atLevel'
    BY <2>1 DEF At
  <2>3. /\ atLevel' \subseteq Under(sub, queue) /\ Apart(atLevel')
        /\ ~TunedFirst => Adds(OnTree(sub), sub, atLevel', consolidated', limit')
    BY <1>6, <2>1, <2>2, AggregationAdds DEF SumInv, LevelAdds
  <2>4. ~TunedFirst => LevelAdds'
    BY <1>a, <2>1, <2>2, <2>3, AddsLater
  <2>5. atLevel' \subseteq Under(sub, queue)'
    BY <2>1, <2>3 DEF Under, InTree
  <2> QED  BY <1>a, <2>1, <2>3, <2>4, <2>5 DEF SumInv, Apart
<1>7. ASSUME UNCHANGED <<sub, queue, atLevel, consolidated, limit>>,
             \/ pc' = pc /\ stored' = stored
             \/ pc = "spawn" /\ pc' = "join"
             \/ pc = "aggregate" /\ pc' = "completed" /\ atLevel = {} /\ stored' = limit
      PROVE  SumInv'
  <2>1. CASE pc \in {"spawn", "join", "aggregate", "completed"}
    <3>1. At' = At
      BY <1>7 DEF At
    <3>2. ~TunedFirst' => LevelAdds'
      BY <1>4, <1>7, <2>1, <3>1
    <3>3. Under(sub, queue)' = Under(sub, queue) /\ Apart(atLevel)' = Apart(atLevel)
      BY <1>7 DEF Under, InTree, Apart
    <3> QED  BY <1>7, <3>2, <3>3 DEF SumInv
  <2>2. CASE pc \notin {"spawn", "join", "aggregate", "completed"}
    BY <1>1, <1>7, <1>a, <2>2
  <2> QED  BY <2>1, <2>2
<1>8. RemoveSubModules \/ KeepSubModules \/ FineTuneDone
           \/ (\E m \in Modules : FineTune(m) \/ FineTuneInterrupted(m))
        => pc' \in {"begin", "tune", "queue", "interrupted"}
  BY DEF RemoveSubModules, KeepSubModules, FineTuneDone, FineTune, FineTuneInterrupted
<1>9. CASE StopSpawning \/ RequestInterrupt \/ Store \/ UNCHANGED vars
  <2>1. UNCHANGED <<sub, queue, atLevel, consolidated, limit>>
    BY <1>9 DEF StopSpawning, RequestInterrupt, vars, Store
  <2>2. \/ pc' = pc /\ stored' = stored
        \/ pc = "spawn" /\ pc' = "join"
        \/ pc = "aggregate" /\ pc' = "completed" /\ atLevel = {} /\ stored' = limit
    BY <1>9 DEF StopSpawning, RequestInterrupt, vars, Store
  <2> QED  BY <1>7, <2>1, <2>2
<1>10. ASSUME NEW m \in Modules,
              SpawnTop(m) \/ Enter(m) \/ Interrupted(m) \/ Reject(m) \/ Spawn(m) \/ Leave(m)
       PROVE  SumInv'
  <2>1. UNCHANGED <<sub, queue, atLevel, consolidated, limit, pc, stored>>
    BY <1>10 DEF SpawnTop, Enter, Interrupted, Reject, Spawn, Leave
  <2> QED  BY <1>7, <2>1
<1> QED
  BY <1>1, <1>2, <1>3, <1>5, <1>6, <1>8, <1>9, <1>10 DEF Next, Owner, Task

LEMMA InitLengths ==
  ASSUME Init
  PROVE  LengthInv /\ SumInv
<1>1. Measured /\ Tree(FirstTree) /\ sub = FirstTree
  BY FirstHomes DEF Init, Measured
<1>2. codelength = OnTree(sub) /\ stored = TreeLength(sub)
  BY <1>1 DEF Init
<1>3. codelength \in [Modules -> Int] /\ stored \in Int
  <2>1. /\ OnTree(sub) \in [Modules -> Int] /\ Integral(OnTree(sub), Modules)
        /\ InTree(sub) \in SUBSET Modules /\ stored = Total(OnTree(sub), InTree(sub))
    BY <1>1, <1>2, OnTreeIs, SubModules
  <2> QED  BY <1>2, <2>1, Totals
<1>4. NoRecord \in [index : Int, module : Int, leaf : Int, children : SUBSET Modules]
  BY DEF NoRecord
<1>5. CodelengthTypes
  BY <1>3, <1>4 DEF Init, CodelengthTypes
<1> QED  BY <1>1, <1>2, <1>5 DEF Init, LengthInv, OwnLengths, SumInv

(***************************************************************************)
(* `reproducing its codelengths exactly': the limit after every level of   *)
(* the aggregation is the codelength of the tree cut at the next level,    *)
(* and the completed run stores the codelength of its tree.                *)
(***************************************************************************)
THEOREM CodelengthCorrect == Spec => []LevelsAddUp
<1> DEFINE Inv == SafeInv /\ LevelInv /\ ResultInv /\ LengthInv /\ SumInv
<1>1. ASSUME Init PROVE Inv
  BY <1>1, InitInv, InitLengths DEF Init, LevelInv, ResultInv, Settled, Covered
<1>2. ASSUME Inv, [Next]_vars PROVE Inv'
  BY <1>2, SafeStep, LevelStep, ResultStep, LengthStep, AggregationStep
<1>3. ASSUME Inv PROVE LevelsAddUp
  <2>1. CodelengthTypes
    BY <1>3 DEF LengthInv
  <2> SUFFICES ASSUME pc \in {"aggregate", "completed"}, ~TunedFirst
               PROVE  /\ limit = CutLength(atLevel)
                      /\ pc = "completed" => stored = TreeLength(sub) /\ codelength = OnTree(sub)
    BY <2>1 DEF LevelsAddUp
  <2>2. /\ Tree(sub) /\ Measured /\ codelength = OnTree(sub)
        /\ atLevel \in SUBSET Modules /\ At = atLevel
    BY <1>3 DEF SafeInv, TreeInv, TypeInv, TypeOK, LengthInv, OwnLengths, At
  <2>3. limit = Total(OnTree(sub), Outside(sub, atLevel)) + Total(LeafLength, atLevel)
    BY <1>3, <2>2 DEF SumInv, LevelAdds, Adds
  <2>4. /\ Total(OnTree(sub), Outside(sub, atLevel)) \in Int /\ Total(LeafLength, atLevel) \in Int
        /\ TreeLength(sub) = Total(OnTree(sub), InTree(sub)) /\ TreeLength(sub) \in Int
    <3>1. /\ Outside(sub, atLevel) \in SUBSET Modules /\ InTree(sub) \in SUBSET Modules
          /\ Integral(OnTree(sub), Modules) /\ Integral(LeafLength, Modules)
          /\ TreeLength(sub) = Total(OnTree(sub), InTree(sub))
      BY <2>2, SubModules, OnTreeIs, Lengths DEF Outside
    <3> QED  BY <2>2, <3>1, Totals
  <2>5. limit = CutLength(atLevel)
    BY <2>3, <2>4 DEF CutLength, Outside, Under
  <2>6. ASSUME pc = "completed" PROVE stored = TreeLength(sub)
    <3>1. atLevel = {} /\ stored = limit
      BY <1>3, <2>6 DEF SumInv
    <3>2. Outside(sub, {}) = InTree(sub) /\ Total(LeafLength, {}) = 0
      BY SumEmpty DEF Outside, Under, Total
    <3>3. limit = Total(OnTree(sub), Outside(sub, {})) + Total(LeafLength, {})
      BY <2>3, <3>1
    <3>4. limit = TreeLength(sub) + 0
      BY <2>4, <3>2, <3>3
    <3> QED  BY <2>4, <3>1, <3>4
  <2> QED  BY <2>2, <2>5, <2>6
<1> QED  BY <1>1, <1>2, <1>3, PTL DEF Spec
=============================================================================
