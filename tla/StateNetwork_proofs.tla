------------------------- MODULE StateNetwork_proofs -------------------------
(***************************************************************************)
(* Proofs about StateNetwork, for every finite set of ids, every set of    *)
(* weights and every sequence of calls: the statistics kept by hand, the   *)
(* compressed rows, and that the links implement WeightedGraph.            *)
(***************************************************************************)
EXTENDS StateNetwork, FiniteSetTheorems, SequenceTheorems, TLAPS

(***************************************************************************)
(* Sums over finite sets. SumFunctionOnSet is defined by recursion over    *)
(* subsets, through a function chosen to satisfy its equation: that there  *)
(* is one, and only one, has to be shown before anything is said of a sum. *)
(***************************************************************************)
\* One step of SumFunctionOnSet, which is a recursive function on the subsets of a set.
SumStep(f, g, s) ==
  IF s = {} THEN 0 ELSE f[CHOOSE x \in s : TRUE] + g[s \ {CHOOSE x \in s : TRUE}]

\* g is that function, on a family of subsets.
Sums(f, F, g) == g = [s \in F |-> SumStep(f, g, s)]

\* A set of natural numbers has a least one.
LEMMA LeastNatural ==
  ASSUME NEW N \in SUBSET Nat, N # {}
  PROVE  \E n \in N : n = 0 \/ n - 1 \in Nat \ N
<1>1. PICK m \in N : TRUE
  OBVIOUS
<1>2. IsFiniteSet(0..m) /\ IsWellFoundedOn(StrictSubsetOrdering(0..m), SUBSET (0..m))
  <2>1. IsFiniteSet(0..m)
    BY FS_Interval
  <2>2. FiniteSubsetsOf(0..m) = SUBSET (0..m)
    BY <2>1, FS_FiniteSubsetsOfFinite
  <2> QED  BY <2>1, <2>2, FS_StrictSubsetOrderingWellFounded
<1> DEFINE T == {0..n : n \in {k \in N : k <= m}}
<1>3. T \subseteq SUBSET (0..m) /\ T # {}
  BY <1>1
<1>4. PICK x \in T : \A y \in T : ~(<<y, x>> \in StrictSubsetOrdering(0..m))
  BY <1>2, <1>3, WFMin
<1>5. PICK n \in N : n <= m /\ x = 0..n
  BY <1>4
<1>6. CASE n = 0
  BY <1>6
<1>7. CASE n # 0 /\ n - 1 \in N
  <2>1. 0..(n - 1) \in T
    BY <1>5, <1>7
  <2>2. 0..(n - 1) \subseteq 0..n /\ n \in 0..n /\ n \notin 0..(n - 1)
    BY <1>5
  <2>3. 0..(n - 1) # 0..n
    BY <2>2
  <2>4. <<0..(n - 1), 0..n>> \in StrictSubsetOrdering(0..m)
    BY <1>3, <1>5, <2>1, <2>2, <2>3 DEF StrictSubsetOrdering
  <2> QED  BY <1>4, <1>5, <2>1, <2>4
<1> QED  BY <1>5, <1>6, <1>7

\* The recursive function exists: by the size of the subsets it is defined on.
LEMMA SumsExist ==
  ASSUME NEW f, NEW S, IsFiniteSet(S)
  PROVE  \E g : Sums(f, SUBSET S, g)
<1> DEFINE Small(n) == {s \in SUBSET S : Cardinality(s) <= n}
           Bad == {n \in Nat : ~ \E g : Sums(f, Small(n), g)}
<1>1. \A s \in SUBSET S : IsFiniteSet(s) /\ Cardinality(s) \in Nat
  BY FS_Subset, FS_CardinalityType
<1>2. Bad = {}
  <2> SUFFICES ASSUME Bad # {} PROVE FALSE
    OBVIOUS
  <2>1. PICK n \in Bad : n = 0 \/ n - 1 \in Nat \ Bad
    BY LeastNatural
  <2>2. CASE n = 0
    <3>1. \A s \in Small(0) : s = {}
      <4> TAKE s \in Small(0)
      <4>1. IsFiniteSet(s) /\ Cardinality(s) = 0
        BY <1>1
      <4> QED  BY <4>1, FS_EmptySet
    <3>2. Sums(f, Small(0), [s \in Small(0) |-> 0])
      BY <3>1 DEF Sums, SumStep
    <3> QED  BY <2>1, <2>2, <3>2
  <2>3. CASE n # 0
    <3>1. n \in Nat /\ n - 1 \in Nat
      BY <2>1, <2>3
    <3>2. PICK g : Sums(f, Small(n - 1), g)
      BY <2>1, <2>3
    <3> DEFINE h == [s \in Small(n) |-> SumStep(f, g, s)]
    <3>3. ASSUME NEW s \in Small(n) PROVE h[s] = SumStep(f, h, s)
      <4>1. CASE s = {}
        BY <3>3, <4>1 DEF SumStep
      <4>2. CASE s # {}
        <5> DEFINE x == CHOOSE y \in s : TRUE
                   r == s \ {x}
        <5>1. x \in s
          BY <4>2
        <5>2. IsFiniteSet(s) /\ Cardinality(s) \in Nat /\ Cardinality(s) <= n
          BY <1>1
        <5> HIDE DEF x
        <5>3. Cardinality(r) = Cardinality(s) - 1
          BY <5>1, <5>2, FS_RemoveElement
        <5>4. r \in Small(n - 1) /\ r \in Small(n)
          BY <1>1, <3>1, <5>2, <5>3
        <5>5. g[r] = SumStep(f, g, r) /\ h[r] = SumStep(f, g, r)
          <6>1. g = [t \in Small(n - 1) |-> SumStep(f, g, t)]
            BY <3>2 DEF Sums
          <6> HIDE DEF r, Small
          <6> QED  BY <5>4, <6>1, Zenon
        <5>6. SumStep(f, h, s) = f[x] + h[r] /\ SumStep(f, g, s) = f[x] + g[r]
          BY <4>2 DEF SumStep, x
        <5> QED  BY <5>5, <5>6
      <4> QED  BY <4>1, <4>2
    <3>4. Sums(f, Small(n), h)
      <4>1. h = [s \in Small(n) |-> h[s]]
        OBVIOUS
      <4> HIDE DEF h, Small
      <4> QED  BY <3>3, <4>1, Zenon DEF Sums
    <3> QED  BY <2>1, <3>4
  <2> QED  BY <2>2, <2>3
<1>3. Cardinality(S) \in Nat
  BY <1>1
<1>4. Small(Cardinality(S)) = SUBSET S
  BY FS_Subset, <1>3
<1> QED  BY <1>2, <1>3, <1>4

\* Induction over the subsets of a finite set, for a set of subsets.
LEMMA SubsetInduction ==
  ASSUME NEW S, IsFiniteSet(S), NEW P,
         \A s \in SUBSET S : (\A x \in s : s \ {x} \in P) => s \in P
  PROVE  SUBSET S \subseteq P
<1> DEFINE Bad == (SUBSET S) \ P
<1> SUFFICES ASSUME Bad # {} PROVE FALSE
  OBVIOUS
<1>1. IsWellFoundedOn(StrictSubsetOrdering(S), SUBSET S)
  <2>1. FiniteSubsetsOf(S) = SUBSET S
    BY FS_FiniteSubsetsOfFinite
  <2>2. IsWellFoundedOn(StrictSubsetOrdering(S), FiniteSubsetsOf(S))
    BY FS_StrictSubsetOrderingWellFounded
  <2> QED  BY <2>1, <2>2
<1>2. PICK s \in Bad : \A y \in Bad : ~(<<y, s>> \in StrictSubsetOrdering(S))
  <2>1. Bad \subseteq SUBSET S
    OBVIOUS
  <2> HIDE DEF Bad
  <2> QED  BY <1>1, <2>1, WFMin
<1>3. \A x \in s : s \ {x} \in P
  <2> TAKE x \in s
  <2>1. <<s \ {x}, s>> \in StrictSubsetOrdering(S)
    BY <1>2 DEF StrictSubsetOrdering
  <2> QED  BY <1>2, <2>1
<1> QED  BY <1>2, <1>3

\* Two such functions agree on the subsets both are defined on.
LEMMA SumsAgree ==
  ASSUME NEW f, NEW S, IsFiniteSet(S), NEW T \in SUBSET S, NEW g, NEW h,
         Sums(f, SUBSET S, g), Sums(f, SUBSET T, h)
  PROVE  g[T] = h[T]
<1> DEFINE P == {s \in SUBSET T : g[s] = h[s]}
<1>1. ASSUME NEW s \in SUBSET T, \A x \in s : s \ {x} \in P PROVE s \in P
  <2>1. g[s] = SumStep(f, g, s) /\ h[s] = SumStep(f, h, s)
    <3>1. s \in SUBSET S
      OBVIOUS
    <3> QED  BY <3>1, Zenon DEF Sums
  <2>2. CASE s = {}
    BY <2>1, <2>2 DEF SumStep
  <2>3. CASE s # {}
    <3> DEFINE x == CHOOSE y \in s : TRUE
    <3>1. x \in s
      BY <2>3
    <3>2. SumStep(f, g, s) = f[x] + g[s \ {x}] /\ SumStep(f, h, s) = f[x] + h[s \ {x}]
      BY <2>3 DEF SumStep
    <3> HIDE DEF x
    <3> QED  BY <1>1, <2>1, <3>1, <3>2
  <2> QED  BY <2>2, <2>3
<1>2. IsFiniteSet(T)
  BY FS_Subset
<1>3. SUBSET T \subseteq P
  <2> HIDE DEF P
  <2> QED  BY <1>1, <1>2, SubsetInduction
<1> QED  BY <1>3

LEMMA SumIsRecursive ==
  ASSUME NEW f, NEW S, IsFiniteSet(S)
  PROVE  \E g : /\ Sums(f, SUBSET S, g)
                /\ \A T \in SUBSET S : SumFunctionOnSet(f, T) = g[T]
<1>1. ASSUME NEW T, IsFiniteSet(T)
      PROVE  \E h : Sums(f, SUBSET T, h) /\ SumFunctionOnSet(f, T) = h[T]
  <2> DEFINE h == CHOOSE h : h = [s \in SUBSET T |-> SumStep(f, h, s)]
  <2>1. SumFunctionOnSet(f, T) = h[T]
    BY DEF SumFunctionOnSet, FoldFunctionOnSet, MapThenFoldSet, SumStep
  <2>2. \E k : k = [s \in SUBSET T |-> SumStep(f, k, s)]
    BY <1>1, SumsExist DEF Sums
  <2>3. h = [s \in SUBSET T |-> SumStep(f, h, s)]
    BY <2>2, Zenon
  <2> HIDE DEF h
  <2> QED  BY <2>1, <2>3 DEF Sums
<1>2. PICK g : Sums(f, SUBSET S, g)
  BY SumsExist
<1>3. ASSUME NEW T \in SUBSET S PROVE SumFunctionOnSet(f, T) = g[T]
  <2>1. PICK h : Sums(f, SUBSET T, h) /\ SumFunctionOnSet(f, T) = h[T]
    BY <1>1, FS_Subset
  <2> QED  BY <1>2, <2>1, SumsAgree
<1> QED  BY <1>2, <1>3

-----------------------------------------------------------------------------
\* f is integer on S.
Integral(f, S) == \A x \in S : f[x] \in Int

LEMMA SumEmpty == \A f : SumFunctionOnSet(f, {}) = 0
<1> TAKE f
<1>1. PICK g : Sums(f, SUBSET {}, g) /\ \A T \in SUBSET {} : SumFunctionOnSet(f, T) = g[T]
  BY SumIsRecursive, FS_EmptySet
<1>2. g[{}] = SumStep(f, g, {})
  BY <1>1, Zenon DEF Sums
<1> QED  BY <1>1, <1>2 DEF SumStep

LEMMA SumIsInteger ==
  ASSUME NEW f, NEW S, IsFiniteSet(S), Integral(f, S)
  PROVE  SumFunctionOnSet(f, S) \in Int
<1>1. PICK g : Sums(f, SUBSET S, g) /\ \A T \in SUBSET S : SumFunctionOnSet(f, T) = g[T]
  BY SumIsRecursive
<1> DEFINE P == {s \in SUBSET S : g[s] \in Int}
<1>2. ASSUME NEW s \in SUBSET S, \A x \in s : s \ {x} \in P PROVE s \in P
  <2>1. g[s] = SumStep(f, g, s)
    BY <1>1, Zenon DEF Sums
  <2>2. CASE s = {}
    BY <2>1, <2>2 DEF SumStep
  <2>3. CASE s # {}
    <3> DEFINE x == CHOOSE y \in s : TRUE
    <3>1. x \in s
      BY <2>3
    <3>2. g[s] = f[x] + g[s \ {x}]
      BY <2>1, <2>3 DEF SumStep
    <3> HIDE DEF x
    <3> QED  BY <1>2, <3>1, <3>2 DEF Integral
  <2> QED  BY <2>2, <2>3
<1>3. SUBSET S \subseteq P
  <2> HIDE DEF P
  <2> QED  BY <1>2, SubsetInduction
<1> QED  BY <1>1, <1>3

\* Any element may be taken out first.
LEMMA SumWithout ==
  ASSUME NEW f, NEW S, IsFiniteSet(S), Integral(f, S), NEW a \in S
  PROVE  SumFunctionOnSet(f, S) = f[a] + SumFunctionOnSet(f, S \ {a})
<1>1. PICK g : Sums(f, SUBSET S, g) /\ \A T \in SUBSET S : SumFunctionOnSet(f, T) = g[T]
  BY SumIsRecursive
<1>2. \A s \in SUBSET S : g[s] \in Int
  <2> TAKE s \in SUBSET S
  <2>1. IsFiniteSet(s) /\ Integral(f, s)
    BY FS_Subset DEF Integral
  <2> QED  BY <1>1, <2>1, SumIsInteger
<1> DEFINE P == {s \in SUBSET S : \A x \in s : g[s] = f[x] + g[s \ {x}]}
<1>3. ASSUME NEW s \in SUBSET S, \A x \in s : s \ {x} \in P PROVE s \in P
  <2> SUFFICES ASSUME NEW x \in s PROVE g[s] = f[x] + g[s \ {x}]
    OBVIOUS
  <2> DEFINE c == CHOOSE y \in s : TRUE
  <2>1. c \in s
    OBVIOUS
  <2>2. g[s] = f[c] + g[s \ {c}]
    <3>1. g[s] = SumStep(f, g, s)
      BY <1>1, Zenon DEF Sums
    <3> QED  BY <3>1 DEF SumStep
  <2> HIDE DEF c
  <2>3. CASE x = c
    BY <2>2, <2>3
  <2>4. CASE x # c
    <3>1. g[s \ {c}] = f[x] + g[(s \ {c}) \ {x}]
      BY <1>3, <2>1, <2>4
    <3>2. g[s \ {x}] = f[c] + g[(s \ {x}) \ {c}]
      BY <1>3, <2>1, <2>4
    <3>3. (s \ {c}) \ {x} = (s \ {x}) \ {c}
      OBVIOUS
    <3> DEFINE r == (s \ {x}) \ {c}
    <3>4. f[x] \in Int /\ f[c] \in Int /\ g[r] \in Int
      BY <1>2, <2>1 DEF Integral
    <3> HIDE DEF r
    <3>5. g[s \ {c}] = f[x] + g[r] /\ g[s \ {x}] = f[c] + g[r]
      BY <3>1, <3>2, <3>3 DEF r
    <3> QED  BY <2>2, <3>4, <3>5
  <2> QED  BY <2>3, <2>4
<1>4. SUBSET S \subseteq P
  <2> HIDE DEF P
  <2> QED  BY <1>3, SubsetInduction
<1>5. g[S] = f[a] + g[S \ {a}]
  BY <1>4
<1> QED  BY <1>1, <1>5

LEMMA SumSingle ==
  ASSUME NEW f, NEW a, f[a] \in Int
  PROVE  SumFunctionOnSet(f, {a}) = f[a]
<1>1. IsFiniteSet({a}) /\ Integral(f, {a}) /\ {a} \ {a} = {}
  BY FS_Singleton DEF Integral
<1>2. SumFunctionOnSet(f, {a}) = f[a] + SumFunctionOnSet(f, {a} \ {a})
  BY <1>1, SumWithout
<1> QED  BY <1>1, <1>2, SumEmpty

\* Disjoint sets add up.
LEMMA SumUnion ==
  ASSUME NEW f, NEW S, NEW T, IsFiniteSet(S), IsFiniteSet(T), S \cap T = {},
         Integral(f, S), Integral(f, T)
  PROVE  SumFunctionOnSet(f, S \cup T) = SumFunctionOnSet(f, S) + SumFunctionOnSet(f, T)
<1> DEFINE Sum(U) == SumFunctionOnSet(f, U)
           P == {s \in SUBSET S : Sum(s \cup T) = Sum(s) + Sum(T)}
<1>1. \A s \in SUBSET S : /\ IsFiniteSet(s) /\ Integral(f, s) /\ Sum(s) \in Int
                          /\ IsFiniteSet(s \cup T) /\ Integral(f, s \cup T)
  <2> TAKE s \in SUBSET S
  <2>1. IsFiniteSet(s) /\ IsFiniteSet(s \cup T)
    BY FS_Subset, FS_Union
  <2>2. Integral(f, s) /\ Integral(f, s \cup T)
    BY DEF Integral
  <2> QED  BY <2>1, <2>2, SumIsInteger
<1>2. Sum(T) \in Int
  BY SumIsInteger
<1>3. ASSUME NEW s \in SUBSET S, \A x \in s : s \ {x} \in P PROVE s \in P
  <2>1. CASE s = {}
    <3>1. s \cup T = T
      BY <2>1
    <3>2. Sum(s) = 0
      BY <2>1, SumEmpty
    <3> QED  BY <1>2, <3>1, <3>2
  <2>2. CASE s # {}
    <3>1. PICK x \in s : TRUE
      BY <2>2
    <3>2. (s \cup T) \ {x} = (s \ {x}) \cup T
      OBVIOUS
    <3>3. Sum(s) = f[x] + Sum(s \ {x})
      <4>1. IsFiniteSet(s) /\ Integral(f, s)
        BY <1>1
      <4> QED  BY <4>1, SumWithout
    <3>4. Sum(s \cup T) = f[x] + Sum((s \ {x}) \cup T)
      <4>1. IsFiniteSet(s \cup T) /\ Integral(f, s \cup T)
        BY <1>1
      <4>2. Sum(s \cup T) = f[x] + Sum((s \cup T) \ {x})
        BY <4>1, SumWithout
      <4> QED  BY <3>2, <4>2
    <3>5. Sum((s \ {x}) \cup T) = Sum(s \ {x}) + Sum(T)
      BY <1>3
    <3>6. f[x] \in Int /\ Sum(s \ {x}) \in Int
      <4>1. s \ {x} \in SUBSET S
        OBVIOUS
      <4> QED  BY <1>1, <4>1 DEF Integral
    <3> HIDE DEF Sum
    <3>7. Sum(s \cup T) = Sum(s) + Sum(T)
      BY <1>2, <3>3, <3>4, <3>5, <3>6
    <3> QED  BY <3>7
  <2> QED  BY <2>1, <2>2
<1>4. SUBSET S \subseteq P
  <2> HIDE DEF P
  <2> QED  BY <1>3, SubsetInduction
<1> QED  BY <1>4

\* Sums of functions that add up pointwise.
LEMMA SumPointwise ==
  ASSUME NEW f, NEW g, NEW h, NEW S, IsFiniteSet(S), Integral(g, S), Integral(h, S),
         \A x \in S : f[x] = g[x] + h[x]
  PROVE  SumFunctionOnSet(f, S) = SumFunctionOnSet(g, S) + SumFunctionOnSet(h, S)
<1> DEFINE F(U) == SumFunctionOnSet(f, U)
           G(U) == SumFunctionOnSet(g, U)
           H(U) == SumFunctionOnSet(h, U)
           P == {s \in SUBSET S : F(s) = G(s) + H(s)}
<1>1. ASSUME NEW s \in SUBSET S, \A x \in s : s \ {x} \in P PROVE s \in P
  <2>1. CASE s = {}
    BY <2>1, SumEmpty
  <2>2. CASE s # {}
    <3>1. PICK x \in s : TRUE
      BY <2>2
    <3>2. /\ IsFiniteSet(s) /\ Integral(f, s) /\ Integral(g, s) /\ Integral(h, s)
          /\ IsFiniteSet(s \ {x}) /\ Integral(g, s \ {x}) /\ Integral(h, s \ {x})
      BY FS_Subset DEF Integral
    <3>3. /\ F(s) = f[x] + F(s \ {x}) /\ G(s) = g[x] + G(s \ {x}) /\ H(s) = h[x] + H(s \ {x})
          /\ G(s \ {x}) \in Int /\ H(s \ {x}) \in Int
      BY <3>2, SumWithout, SumIsInteger
    <3>4. F(s \ {x}) = G(s \ {x}) + H(s \ {x}) /\ f[x] = g[x] + h[x] /\ g[x] \in Int /\ h[x] \in Int
      BY <1>1 DEF Integral
    <3> HIDE DEF F, G, H
    <3>5. F(s) = G(s) + H(s)
      BY <3>3, <3>4
    <3> QED  BY <3>5
  <2> QED  BY <2>1, <2>2
<1>2. SUBSET S \subseteq P
  <2> HIDE DEF P
  <2> QED  BY <1>1, SubsetInduction
<1> QED  BY <1>2

LEMMA SumOfZeros ==
  ASSUME NEW f, NEW S, IsFiniteSet(S), \A x \in S : f[x] = 0
  PROVE  SumFunctionOnSet(f, S) = 0
<1>1. Integral(f, S) /\ \A x \in S : f[x] = f[x] + f[x]
  BY DEF Integral
<1> DEFINE sum == SumFunctionOnSet(f, S)
<1>2. sum = sum + sum
  BY <1>1, SumPointwise
<1>3. sum \in Int
  BY <1>1, SumIsInteger
<1> HIDE DEF sum
<1>4. sum = 0
  BY <1>2, <1>3
<1> QED  BY <1>4 DEF sum

LEMMA SumSame ==
  ASSUME NEW f, NEW g, NEW S, IsFiniteSet(S), Integral(g, S), \A x \in S : f[x] = g[x]
  PROVE  SumFunctionOnSet(f, S) = SumFunctionOnSet(g, S)
<1> DEFINE zero == [x \in S |-> 0]
<1>1. Integral(zero, S) /\ (\A x \in S : zero[x] = 0) /\ \A x \in S : f[x] = g[x] + zero[x]
  BY DEF Integral
<1> HIDE DEF zero
<1>2. SumFunctionOnSet(zero, S) = 0
  BY <1>1, SumOfZeros
<1>3. SumFunctionOnSet(f, S) = SumFunctionOnSet(g, S) + SumFunctionOnSet(zero, S)
  BY <1>1, SumPointwise
<1>4. SumFunctionOnSet(g, S) \in Int
  BY SumIsInteger
<1> QED  BY <1>2, <1>3, <1>4

-----------------------------------------------------------------------------
(***************************************************************************)
(* Weights.                                                                *)
(***************************************************************************)
\* f gives integer weights to some members of S.
WeightsOn(f, S) ==
  /\ f = [x \in DOMAIN f |-> f[x]]
  /\ DOMAIN f \subseteq S
  /\ \A x \in DOMAIN f : f[x] \in Int

\* The sum of f over its members in T.
SumIn(f, T) == SumOver(DOMAIN f \cap T, f)

LEMMA WeightsFinite ==
  ASSUME NEW S, IsFiniteSet(S), NEW f, WeightsOn(f, S)
  PROVE  IsFiniteSet(DOMAIN f) /\ Integral(f, DOMAIN f)
  BY FS_Subset DEF WeightsOn, Integral

LEMMA SumInType ==
  ASSUME NEW S, IsFiniteSet(S), NEW f, WeightsOn(f, S), NEW T
  PROVE  SumIn(f, T) \in Int
<1>1. IsFiniteSet(DOMAIN f \cap T)
  BY WeightsFinite, FS_Subset
<1>2. Integral(f, DOMAIN f \cap T)
  BY DEF WeightsOn, Integral
<1> QED  BY <1>1, <1>2, SumIsInteger DEF SumIn, SumOver

LEMMA PlusIs ==
  ASSUME NEW S, NEW f, NEW g, WeightsOn(f, S), WeightsOn(g, S)
  PROVE  WeightsOn(Plus(f, g), S) /\ DOMAIN Plus(f, g) = DOMAIN f \cup DOMAIN g
<1>1. DOMAIN Plus(f, g) = DOMAIN f \cup DOMAIN g
  BY DEF Plus
<1>2. \A x \in DOMAIN Plus(f, g) : Plus(f, g)[x] \in Int
  BY DEF Plus, ValueAt, WeightsOn
<1>3. Plus(f, g) = [x \in DOMAIN Plus(f, g) |-> Plus(f, g)[x]]
  BY DEF Plus
<1> QED  BY <1>1, <1>2, <1>3 DEF WeightsOn

LEMMA OnlyIs ==
  ASSUME NEW S, NEW x \in S, NEW w \in Int
  PROVE  WeightsOn(Only(x, w), S) /\ DOMAIN Only(x, w) = {x} /\ Only(x, w)[x] = w
  BY DEF WeightsOn, Only

\* Summing a function that is zero outside f.
LEMMA ValueSums ==
  ASSUME NEW S, IsFiniteSet(S), NEW f, WeightsOn(f, S),
         NEW T, NEW D, IsFiniteSet(D), D \subseteq T, DOMAIN f \cap T \subseteq D,
         NEW h, \A x \in D : h[x] = ValueAt(f, x)
  PROVE  SumOver(D, h) = SumIn(f, T)
<1> DEFINE A == DOMAIN f \cap T
           B == D \ DOMAIN f
<1>1. D = A \cup B /\ A \cap B = {}
  OBVIOUS
<1>2. IsFiniteSet(A) /\ IsFiniteSet(B)
  BY <1>1, FS_Subset
<1>3. \A x \in A : h[x] = f[x] /\ f[x] \in Int
  BY DEF ValueAt, WeightsOn
<1>4. \A x \in B : h[x] = 0
  BY DEF ValueAt
<1> HIDE DEF A, B
<1>5. Integral(h, A) /\ Integral(f, A) /\ Integral(h, B)
  BY <1>3, <1>4 DEF Integral
<1>6. SumFunctionOnSet(h, D) = SumFunctionOnSet(h, A) + SumFunctionOnSet(h, B)
  BY <1>1, <1>2, <1>5, SumUnion
<1>7. SumFunctionOnSet(h, B) = 0
  BY <1>2, <1>4, SumOfZeros
<1>8. SumFunctionOnSet(h, A) = SumFunctionOnSet(f, A)
  BY <1>2, <1>3, <1>5, SumSame
<1>9. SumFunctionOnSet(f, A) \in Int
  BY <1>2, <1>5, SumIsInteger
<1> QED  BY <1>6, <1>7, <1>8, <1>9 DEF SumIn, SumOver, A

\* Any sum over the weights of f and g together.
LEMMA PlusSums ==
  ASSUME NEW S, IsFiniteSet(S), NEW f, NEW g, WeightsOn(f, S), WeightsOn(g, S), NEW T
  PROVE  SumIn(Plus(f, g), T) = SumIn(f, T) + SumIn(g, T)
<1> DEFINE D == DOMAIN Plus(f, g) \cap T
           F == [x \in D |-> ValueAt(f, x)]
           G == [x \in D |-> ValueAt(g, x)]
<1>1. IsFiniteSet(D)
  <2>1. WeightsOn(Plus(f, g), S)
    BY PlusIs
  <2>2. IsFiniteSet(DOMAIN Plus(f, g))
    BY <2>1, WeightsFinite
  <2> QED  BY <2>2, FS_Subset
<1>2. D \subseteq T /\ DOMAIN f \cap T \subseteq D /\ DOMAIN g \cap T \subseteq D
  BY DEF Plus
<1>3. \A x \in D : Plus(f, g)[x] = F[x] + G[x]
  BY DEF Plus
<1>4. Integral(F, D) /\ Integral(G, D)
  BY DEF Integral, ValueAt, WeightsOn
<1>5. (\A x \in D : F[x] = ValueAt(f, x)) /\ (\A x \in D : G[x] = ValueAt(g, x))
  OBVIOUS
<1>6. SumIn(Plus(f, g), T) = SumOver(D, Plus(f, g))
  BY DEF SumIn
<1> HIDE DEF D, F, G
<1>7. SumOver(D, F) = SumIn(f, T)
  BY <1>1, <1>2, <1>5, ValueSums
<1>8. SumOver(D, G) = SumIn(g, T)
  BY <1>1, <1>2, <1>5, ValueSums
<1>9. SumOver(D, Plus(f, g)) = SumOver(D, F) + SumOver(D, G)
  BY <1>1, <1>3, <1>4, SumPointwise DEF SumOver
<1> QED  BY <1>6, <1>7, <1>8, <1>9

LEMMA OnlySums ==
  ASSUME NEW x, NEW w \in Int, NEW T
  PROVE  SumIn(Only(x, w), T) = IF x \in T THEN w ELSE 0
<1>1. DOMAIN Only(x, w) = {x} /\ Only(x, w)[x] = w
  BY DEF Only
<1>2. CASE x \in T
  <2>1. DOMAIN Only(x, w) \cap T = {x}
    BY <1>1, <1>2
  <2> QED  BY <1>1, <1>2, <2>1, SumSingle DEF SumIn, SumOver
<1>3. CASE x \notin T
  <2>1. DOMAIN Only(x, w) \cap T = {}
    BY <1>1, <1>3
  <2> QED  BY <1>3, <2>1, SumEmpty DEF SumIn, SumOver
<1> QED  BY <1>2, <1>3

\* What is taken out of f and f without it are together f.
LEMMA WithoutIs ==
  ASSUME NEW S, NEW f, WeightsOn(f, S), NEW x \in DOMAIN f
  PROVE  LET g == Restrict(f, DOMAIN f \ {x})
         IN  /\ WeightsOn(g, S) /\ DOMAIN g = DOMAIN f \ {x}
             /\ Plus(g, Only(x, f[x])) = f
<1> DEFINE g == Restrict(f, DOMAIN f \ {x})
<1>1. g = [y \in DOMAIN f \ {x} |-> f[y]]
  BY DEF Restrict
<1>2. WeightsOn(g, S) /\ DOMAIN g = DOMAIN f \ {x}
  BY <1>1 DEF WeightsOn
<1>3. DOMAIN g \cup {x} = DOMAIN f
  BY <1>2
<1>4. \A y \in DOMAIN f : ValueAt(g, y) + ValueAt(Only(x, f[x]), y) = f[y]
  BY <1>1 DEF ValueAt, Only, WeightsOn
<1>5. DOMAIN Only(x, f[x]) = {x}
  BY DEF Only
<1> HIDE DEF g
<1>6. Plus(g, Only(x, f[x])) = [y \in DOMAIN f |-> f[y]]
  BY <1>3, <1>4, <1>5 DEF Plus
<1>7. Plus(g, Only(x, f[x])) = f
  BY <1>6 DEF WeightsOn
<1> QED  BY <1>2, <1>7 DEF g

LEMMA WithoutSums ==
  ASSUME NEW S, IsFiniteSet(S), NEW f, WeightsOn(f, S), NEW x \in DOMAIN f, NEW T
  PROVE  SumIn(Restrict(f, DOMAIN f \ {x}), T) = SumIn(f, T) - (IF x \in T THEN f[x] ELSE 0)
<1> DEFINE g == Restrict(f, DOMAIN f \ {x})
<1>1. WeightsOn(g, S) /\ Plus(g, Only(x, f[x])) = f
  BY WithoutIs
<1>2. x \in S /\ f[x] \in Int
  BY DEF WeightsOn
<1> HIDE DEF g
<1>3. WeightsOn(Only(x, f[x]), S)
  BY <1>2, OnlyIs
<1>4. SumIn(f, T) = SumIn(g, T) + SumIn(Only(x, f[x]), T)
  BY <1>1, <1>3, PlusSums
<1>5. SumIn(Only(x, f[x]), T) = IF x \in T THEN f[x] ELSE 0
  BY <1>2, OnlySums
<1>6. SumIn(g, T) \in Int
  BY <1>1, SumInType
<1> QED  BY <1>2, <1>4, <1>5, <1>6 DEF g

\* Nothing is added by nothing.
LEMMA PlusNothing ==
  ASSUME NEW S, NEW f, WeightsOn(f, S), NEW g, DOMAIN g = {}
  PROVE  Plus(f, g) = f
<1>1. \A x \in DOMAIN f : ValueAt(f, x) + ValueAt(g, x) = f[x]
  BY DEF ValueAt, WeightsOn
<1>2. Plus(f, g) = [x \in DOMAIN f |-> f[x]]
  BY <1>1 DEF Plus
<1> QED  BY <1>2 DEF WeightsOn

-----------------------------------------------------------------------------
(***************************************************************************)
(* Sorting.                                                                *)
(***************************************************************************)
StrictOrder(order, S) ==
  /\ \A x \in S : <<x, x>> \notin order
  /\ \A x, y, z \in S : <<x, y>> \in order /\ <<y, z>> \in order => <<x, z>> \in order
  /\ \A x, y \in S : x # y => <<x, y>> \in order \/ <<y, x>> \in order

\* s lists S in that order.
Lists(s, S, order) ==
  /\ Cardinality(S) \in Nat
  /\ s \in [1..Cardinality(S) -> S]
  /\ \A x \in S : \E k \in 1..Cardinality(S) : s[k] = x
  /\ \A i, j \in 1..Cardinality(S) : <<s[i], s[j]>> \in order <=> i < j
  /\ \A i, j \in 1..Cardinality(S) : s[i] = s[j] => i = j
  /\ \A k \in 1..Cardinality(S) : Cardinality({y \in S : <<y, s[k]>> \in order}) = k - 1

LEMMA SortedLists ==
  ASSUME NEW S, IsFiniteSet(S), NEW order, StrictOrder(order, S)
  PROVE  Lists(Sorted(S, order), S, order)
<1> DEFINE N == Cardinality(S)
           Below(x) == {y \in S : <<y, x>> \in order}
           rank == [x \in S |-> Cardinality(Below(x)) + 1]
<1>1. N \in Nat /\ IsFiniteSet(1..N) /\ Cardinality(1..N) = N
  BY FS_CardinalityType, FS_Interval
<1>2. \A x \in S : /\ IsFiniteSet(Below(x)) /\ Cardinality(Below(x)) \in Nat
                   /\ Cardinality(Below(x)) < N
  <2> TAKE x \in S
  <2>1. Below(x) \in SUBSET S /\ x \notin Below(x)
    BY DEF StrictOrder
  <2> HIDE DEF Below
  <2>2. Below(x) # S
    BY <2>1
  <2>3. IsFiniteSet(Below(x)) /\ Cardinality(Below(x)) <= N /\ Cardinality(Below(x)) # N
    BY <2>1, <2>2, FS_Subset
  <2> QED  BY <1>1, <2>3, FS_CardinalityType
<1>3. \A x, y \in S : <<x, y>> \in order => rank[x] < rank[y]
  <2> SUFFICES ASSUME NEW x \in S, NEW y \in S, <<x, y>> \in order PROVE rank[x] < rank[y]
    OBVIOUS
  <2>1. Below(x) \in SUBSET Below(y) /\ x \in Below(y) /\ x \notin Below(x)
    BY DEF StrictOrder
  <2>2. IsFiniteSet(Below(y)) /\ Cardinality(Below(y)) \in Nat /\ Cardinality(Below(x)) \in Nat
    BY <1>2
  <2>3. Cardinality(Below(x)) < Cardinality(Below(y))
    <3> HIDE DEF Below
    <3>1. Below(x) # Below(y)
      BY <2>1
    <3>2. /\ Cardinality(Below(x)) <= Cardinality(Below(y))
          /\ Cardinality(Below(x)) # Cardinality(Below(y))
      BY <2>1, <2>2, <3>1, FS_Subset
    <3> QED  BY <2>2, <3>2
  <2> QED  BY <2>2, <2>3
<1>4. rank \in [S -> 1..N]
  <2>1. \A x \in S : Cardinality(Below(x)) + 1 \in 1..N
    <3> TAKE x \in S
    <3>1. N \in Nat /\ Cardinality(Below(x)) \in Nat /\ Cardinality(Below(x)) < N
      BY <1>1, <1>2
    <3> HIDE DEF Below, N
    <3> QED  BY <3>1
  <2> HIDE DEF Below, N
  <2> QED  BY <2>1
<1>5. \A x, y \in S : rank[x] = rank[y] => x = y
  <2> SUFFICES ASSUME NEW x \in S, NEW y \in S, rank[x] = rank[y] PROVE x = y
    OBVIOUS
  <2>1. rank[x] \in Int /\ rank[y] \in Int
    BY <1>1, <1>4
  <2> HIDE DEF rank
  <2>2. ~(<<x, y>> \in order) /\ ~(<<y, x>> \in order)
    <3>1. ~(rank[x] < rank[y]) /\ ~(rank[y] < rank[x])
      BY <2>1
    <3> QED  BY <1>3, <3>1
  <2> QED  BY <2>2, Zenon DEF StrictOrder
<1>6. \A k \in 1..N : \E x \in S : rank[x] = k
  <2> HIDE DEF rank
  <2>1. rank \in Injection(S, 1..N)
    BY <1>4, <1>5 DEF Injection, IsInjective
  <2>2. rank \in Surjection(S, 1..N)
    BY <1>1, <2>1, FS_Injection
  <2> QED  BY <2>2 DEF Surjection
<1> DEFINE s == Sorted(S, order)
<1>7. s = [k \in 1..N |-> CHOOSE x \in S : Cardinality(Below(x)) = k - 1]
  BY DEF Sorted
<1>8. \A k \in 1..N : s[k] \in S /\ Cardinality(Below(s[k])) = k - 1 /\ rank[s[k]] = k
  <2> TAKE k \in 1..N
  <2>1. \E x \in S : Cardinality(Below(x)) = k - 1
    <3>1. PICK x \in S : rank[x] = k
      BY <1>6
    <3>2. Cardinality(Below(x)) \in Nat /\ k \in Int
      BY <1>1, <1>2
    <3>3. Cardinality(Below(x)) + 1 = k
      BY <3>1
    <3> HIDE DEF Below
    <3>4. Cardinality(Below(x)) = k - 1
      BY <3>2, <3>3
    <3> QED  BY <3>4
  <2>2. s[k] = CHOOSE x \in S : Cardinality(Below(x)) = k - 1
    BY <1>7
  <2> HIDE DEF s, Below
  <2>3. s[k] \in S /\ Cardinality(Below(s[k])) = k - 1
    BY <2>1, <2>2
  <2>4. rank[s[k]] = k - 1 + 1
    BY <2>3 DEF rank
  <2>5. k - 1 + 1 = k
    BY <1>1
  <2> QED  BY <2>3, <2>4, <2>5
<1>9. s \in [1..N -> S]
  <2>1. s = [k \in 1..N |-> s[k]]
    BY <1>7
  <2> HIDE DEF s, rank, Below
  <2> QED  BY <1>8, <2>1
<1> HIDE DEF s, rank
<1>10. \A x \in S : s[rank[x]] = x /\ rank[x] \in 1..N
  BY <1>4, <1>5, <1>8
<1>11. \A i, j \in 1..N : s[i] = s[j] => i = j
  BY <1>8
<1>12. \A i, j \in 1..N : <<s[i], s[j]>> \in order <=> i < j
  <2> SUFFICES ASSUME NEW i \in 1..N, NEW j \in 1..N PROVE <<s[i], s[j]>> \in order <=> i < j
    OBVIOUS
  <2>1. s[i] \in S /\ s[j] \in S /\ rank[s[i]] = i /\ rank[s[j]] = j /\ i \in Int /\ j \in Int
    <3>1. i \in Int /\ j \in Int
      BY <1>1
    <3> HIDE DEF Below, N
    <3> QED  BY <1>8, <3>1
  <2>2. <<s[i], s[j]>> \in order => i < j
    BY <1>3, <2>1
  <2>3. <<s[j], s[i]>> \in order => j < i
    BY <1>3, <2>1
  <2>4. s[i] # s[j] => <<s[i], s[j]>> \in order \/ <<s[j], s[i]>> \in order
    BY <2>1 DEF StrictOrder
  <2>5. s[i] = s[j] => i = j
    BY <2>1
  <2> QED  BY <2>1, <2>2, <2>3, <2>4, <2>5
<1>13. \A x \in S : \E k \in 1..N : s[k] = x
  BY <1>10
<1>14. \A k \in 1..N : Cardinality({y \in S : <<y, s[k]>> \in order}) = k - 1
  BY <1>8
<1> QED  BY <1>1, <1>9, <1>11, <1>12, <1>13, <1>14 DEF Lists, s

LEMMA IdsAreNumbers == \A x \in Ids : x \in Int
  BY NetworkAssumption

LEMMA IdsSorted ==
  ASSUME NEW N \in SUBSET Ids
  PROVE  IsFiniteSet(N) /\ Lists(Sorted(N, IdOrder), N, IdOrder)
<1>1. IsFiniteSet(N)
  BY NetworkAssumption, FS_Subset
<1>2. N \subseteq Int
  BY NetworkAssumption
<1>3. \A x, y \in N : <<x, y>> \in IdOrder <=> x < y
  BY DEF IdOrder
<1>4. StrictOrder(IdOrder, N)
  <2>1. \A x \in N : x \in Int
    BY <1>2
  <2>2. \A x \in N : <<x, x>> \notin IdOrder
    BY <1>3, <2>1
  <2>3. \A x, y, z \in N : <<x, y>> \in IdOrder /\ <<y, z>> \in IdOrder => <<x, z>> \in IdOrder
    <3> SUFFICES ASSUME NEW x \in N, NEW y \in N, NEW z \in N, x < y, y < z PROVE x < z
      BY <1>3
    <3> QED  BY <2>1
  <2>4. \A x, y \in N : x # y => <<x, y>> \in IdOrder \/ <<y, x>> \in IdOrder
    <3> SUFFICES ASSUME NEW x \in N, NEW y \in N, x # y PROVE x < y \/ y < x
      BY <1>3
    <3> QED  BY <2>1
  <2> QED  BY <2>2, <2>3, <2>4 DEF StrictOrder
<1> QED  BY <1>1, <1>4, SortedLists

LEMMA PairsSorted ==
  ASSUME NEW P \in SUBSET (Ids \X Ids)
  PROVE  IsFiniteSet(P) /\ Lists(Sorted(P, PairOrder), P, PairOrder)
<1>1. IsFiniteSet(P)
  BY NetworkAssumption, FS_Product, FS_Subset
<1>2. \A x \in P : x[1] \in Int /\ x[2] \in Int /\ x = <<x[1], x[2]>>
  <2> TAKE x \in P
  <2>1. x \in Ids \X Ids
    OBVIOUS
  <2>2. x[1] \in Ids /\ x[2] \in Ids /\ x = <<x[1], x[2]>>
    BY <2>1
  <2>3. Ids \subseteq Int
    BY NetworkAssumption
  <2> QED  BY <2>2, <2>3
<1> DEFINE Less(x, y) == x[1] < y[1] \/ (x[1] = y[1] /\ x[2] < y[2])
<1>3. \A x, y \in P : <<x, y>> \in PairOrder <=> Less(x, y)
  BY DEF PairOrder
<1>4. StrictOrder(PairOrder, P)
  <2>1. \A x \in P : ~Less(x, x)
    BY <1>2
  <2>2. ASSUME NEW x \in P, NEW y \in P, NEW z \in P, Less(x, y), Less(y, z) PROVE Less(x, z)
    BY <1>2, <2>2
  <2>3. ASSUME NEW x \in P, NEW y \in P, x # y PROVE Less(x, y) \/ Less(y, x)
    <3>1. x[1] # y[1] \/ x[2] # y[2]
      BY <1>2, <2>3
    <3> QED  BY <1>2, <3>1
  <2> HIDE DEF Less
  <2> QED  BY <1>3, <2>1, <2>2, <2>3 DEF StrictOrder
<1> QED  BY <1>1, <1>4, SortedLists

-----------------------------------------------------------------------------
(***************************************************************************)
(* Rows.                                                                   *)
(***************************************************************************)
\* Among sorted ids the lower bound of one is its position.
LEMMA IndexIs ==
  ASSUME NEW N \in SUBSET Ids, NEW x \in N
  PROVE  LET ids == Sorted(N, IdOrder)
         IN  IndexOfId(ids, x) \in 1..Cardinality(N) /\ ids[IndexOfId(ids, x)] = x
<1> DEFINE ids == Sorted(N, IdOrder)
           n == Cardinality(N)
<1>1. Lists(ids, N, IdOrder)
  BY IdsSorted
<1> HIDE DEF ids
<1>2. n \in Nat /\ DOMAIN ids = 1..n /\ \A k \in 1..n : ids[k] \in N
  BY <1>1 DEF Lists
<1>3. PICK j \in 1..n : ids[j] = x
  BY <1>1 DEF Lists
<1>4. \A k \in 1..n : ids[k] < x <=> k < j
  <2> TAKE k \in 1..n
  <2>1. <<ids[k], ids[j]>> \in IdOrder <=> k < j
    BY <1>1 DEF Lists
  <2>2. ids[k] \in Ids /\ ids[j] \in Ids
    BY <1>2
  <2> QED  BY <1>3, <2>1, <2>2 DEF IdOrder
<1>5. {k \in DOMAIN ids : ids[k] < x} = 1..(j - 1)
  BY <1>2, <1>3, <1>4
<1>6. Cardinality(1..(j - 1)) = j - 1
  BY <1>2, <1>3, FS_Interval
<1>7. IndexOfId(ids, x) = j
  <2>1. IndexOfId(ids, x) = j - 1 + 1
    BY <1>5, <1>6 DEF IndexOfId
  <2>2. j - 1 + 1 = j
    BY <1>2, <1>3
  <2> QED  BY <2>1, <2>2
<1> QED  BY <1>3, <1>7 DEF ids

LEMMA IndexOrder ==
  ASSUME NEW N \in SUBSET Ids, NEW x \in N, NEW y \in N
  PROVE  LET ids == Sorted(N, IdOrder)
         IN  IndexOfId(ids, x) < IndexOfId(ids, y) <=> x < y
<1> DEFINE ids == Sorted(N, IdOrder)
           i == IndexOfId(ids, x)
           j == IndexOfId(ids, y)
<1>1. Lists(ids, N, IdOrder)
  BY IdsSorted
<1>2. /\ i \in 1..Cardinality(N) /\ ids[i] = x
      /\ j \in 1..Cardinality(N) /\ ids[j] = y
  BY IndexIs
<1> HIDE DEF ids, i, j
<1>3. <<ids[i], ids[j]>> \in IdOrder <=> i < j
  BY <1>1, <1>2 DEF Lists
<1>4. i < j <=> x < y
  BY <1>2, <1>3 DEF IdOrder
<1> QED  BY <1>4 DEF i, j, ids

\* How many rows begin at a link or before it is the row of its source.
LEMMA RowOfLink ==
  ASSUME NEW N \in SUBSET Ids, NEW f, WeightsOn(f, N \X N),
         NEW e \in 1..Cardinality(DOMAIN f)
  PROVE  LET r == RowsOf(f, N)
             p == Sorted(DOMAIN f, PairOrder)[e]
         IN  Cardinality({k \in DOMAIN r.offsets : r.offsets[k] <= e}) = IndexOfId(r.ids, p[1])
<1> DEFINE D == DOMAIN f
           n == Cardinality(N)
           ids == Sorted(N, IdOrder)
           order == Sorted(D, PairOrder)
           p == order[e]
           j == IndexOfId(ids, p[1])
           Earlier(k) == {q \in D : IndexOfId(ids, q[1]) < k}
           Before == {q \in D : <<q, p>> \in PairOrder}
<1>1. D \in SUBSET (Ids \X Ids) /\ D \subseteq N \X N
  BY DEF WeightsOn
<1>2. IsFiniteSet(D) /\ Lists(order, D, PairOrder) /\ Lists(ids, N, IdOrder)
  BY <1>1, PairsSorted, IdsSorted
<1>3. n \in Nat /\ Len(ids) = n
  <2>1. n \in Nat /\ ids \in [1..n -> N]
    BY <1>2 DEF Lists
  <2> HIDE DEF ids, n
  <2> QED  BY <2>1
<1>4. p \in D /\ Cardinality(Before) = e - 1 /\ e \in Int
  <2>1. Cardinality(D) \in Nat
    BY <1>2 DEF Lists
  <2>2. p \in D /\ Cardinality({q \in D : <<q, order[e]>> \in PairOrder}) = e - 1
    <3> HIDE DEF D, order
    <3> QED  BY <1>2 DEF Lists, D
  <2> QED  BY <2>1, <2>2
<1> DEFINE r == RowsOf(f, N)
<1>5. r.ids = ids /\ r.offsets = [k \in 1..(n + 1) |-> 1 + Cardinality(Earlier(k))]
  BY <1>3 DEF RowsOf
<1>6. \A q \in D : q[1] \in N /\ q[2] \in N /\ q[1] \in Ids /\ q[2] \in Ids
  BY <1>1
<1>7. \A q \in D : /\ IndexOfId(ids, q[1]) \in 1..n
                   /\ IndexOfId(ids, q[1]) < j => <<q, p>> \in PairOrder
                   /\ <<q, p>> \in PairOrder => IndexOfId(ids, q[1]) <= j
  <2> TAKE q \in D
  <2>1. q[1] \in N /\ p[1] \in N /\ q \in Ids \X Ids /\ p \in Ids \X Ids
    BY <1>1, <1>4, <1>6
  <2> HIDE DEF D, p
  <2>2. IndexOfId(ids, q[1]) \in 1..n /\ j \in 1..n
    BY <2>1, IndexIs
  <2>3. /\ IndexOfId(ids, q[1]) < j <=> q[1] < p[1]
        /\ j < IndexOfId(ids, q[1]) <=> p[1] < q[1]
    BY <2>1, IndexOrder
  <2>4. IndexOfId(ids, q[1]) < j => <<q, p>> \in PairOrder
    BY <2>1, <2>3 DEF PairOrder
  <2>5. <<q, p>> \in PairOrder => ~(p[1] < q[1])
    <3>1. q[1] \in Int /\ p[1] \in Int
      <4>1. q[1] \in Ids /\ p[1] \in Ids
        BY <2>1
      <4> QED  BY <4>1, IdsAreNumbers
    <3> QED  BY <3>1 DEF PairOrder
  <2> HIDE DEF ids, n, j
  <2>6. <<q, p>> \in PairOrder => IndexOfId(ids, q[1]) <= j
    <3>1. IndexOfId(ids, q[1]) \in Int /\ j \in Int
      BY <1>3, <2>2
    <3> QED  BY <2>3, <2>5, <3>1
  <2> QED  BY <2>2, <2>4, <2>6
<1>8. j \in 1..n
  BY <1>4, <1>7
<1>9. \A k \in 1..(n + 1) : IsFiniteSet(Earlier(k)) /\ Cardinality(Earlier(k)) \in Nat
  BY <1>2, FS_Subset, FS_CardinalityType
<1>10. \A k \in 1..(n + 1) : r.offsets[k] <= e <=> k <= j
  <2> TAKE k \in 1..(n + 1)
  <2>0. k \in Int /\ j \in Int /\ r.offsets[k] = 1 + Cardinality(Earlier(k))
        /\ Cardinality(Earlier(k)) \in Int
    <3>1. k \in Int
      BY <1>3
    <3>2. j \in Int
      <4> HIDE DEF j
      <4> QED  BY <1>3, <1>8
    <3>3. r.offsets[k] = 1 + Cardinality(Earlier(k))
      <4> HIDE DEF r, n, Earlier
      <4> QED  BY <1>5
    <3>4. Cardinality(Earlier(k)) \in Int
      <4> HIDE DEF Earlier
      <4> QED  BY <1>9
    <3> QED  BY <3>1, <3>2, <3>3, <3>4
  <2>1. IsFiniteSet(Before) /\ p \notin Before /\ IsFiniteSet(Earlier(k))
    <3>1. <<p, p>> \notin PairOrder
      <4>1. p[1] \in Int /\ p[2] \in Int
        <5> HIDE DEF D, p
        <5>1. p[1] \in Ids /\ p[2] \in Ids
          BY <1>4, <1>6
        <5> QED  BY <5>1, IdsAreNumbers
      <4> QED  BY <4>1 DEF PairOrder
    <3> QED  BY <1>2, <1>9, <3>1, FS_Subset
  <2>2. CASE k <= j
    <3>1. Earlier(k) \subseteq Before
      <4> SUFFICES ASSUME NEW q \in D, IndexOfId(ids, q[1]) < k PROVE <<q, p>> \in PairOrder
        OBVIOUS
      <4> HIDE DEF D, ids, j, p
      <4>1. IndexOfId(ids, q[1]) \in Int
        <5>1. IndexOfId(ids, q[1]) \in 1..n
          BY <1>7
        <5> QED  BY <1>3, <5>1
      <4> QED  BY <1>7, <2>0, <2>2, <4>1
    <3> HIDE DEF Earlier, Before
    <3>2. Cardinality(Earlier(k)) <= e - 1
      BY <1>4, <2>1, <3>1, FS_Subset
    <3> QED  BY <1>4, <2>0, <2>2, <3>2
  <2>3. CASE ~(k <= j)
    <3>1. Before \cup {p} \subseteq Earlier(k)
      <4>1. ASSUME NEW q \in D, <<q, p>> \in PairOrder PROVE IndexOfId(ids, q[1]) < k
        <5> HIDE DEF D, ids, j, p
        <5>1. IndexOfId(ids, q[1]) \in Int
          <6>1. IndexOfId(ids, q[1]) \in 1..n
            BY <1>7
          <6> QED  BY <1>3, <6>1
        <5> QED  BY <1>7, <2>0, <2>3, <4>1, <5>1
      <4>2. p \in D /\ IndexOfId(ids, p[1]) < k
        BY <1>4, <2>0, <2>3
      <4> QED  BY <4>1, <4>2
    <3> HIDE DEF Earlier, Before
    <3>2. Cardinality(Before \cup {p}) = Cardinality(Before) + 1
      BY <2>1, FS_AddElement
    <3>3. Cardinality(Before \cup {p}) <= Cardinality(Earlier(k))
      BY <2>1, <3>1, FS_Subset
    <3> QED  BY <1>4, <2>0, <2>3, <3>2, <3>3
  <2> QED  BY <2>2, <2>3
<1>11. {k \in DOMAIN r.offsets : r.offsets[k] <= e} = 1..j
  <2>1. DOMAIN r.offsets = 1..(n + 1)
    BY <1>5
  <2> HIDE DEF r, n, j
  <2> QED  BY <1>3, <1>8, <1>10, <2>1
<1>12. Cardinality(1..j) = j
  BY <1>3, <1>8, FS_Interval
<1> QED  BY <1>5, <1>11, <1>12

\* Reading rows gives back the links they were made of.
LEMMA LinksReadBack ==
  ASSUME NEW N \in SUBSET Ids, NEW f, WeightsOn(f, N \X N)
  PROVE  LinksOfRows(RowsOf(f, N)) = f /\ RowsOf(f, N).ids = Sorted(N, IdOrder)
<1> DEFINE D == DOMAIN f
           ids == Sorted(N, IdOrder)
           order == Sorted(D, PairOrder)
           r == RowsOf(f, N)
<1>1. D \in SUBSET (Ids \X Ids) /\ D \subseteq N \X N
  BY DEF WeightsOn
<1>2. Lists(order, D, PairOrder)
  BY <1>1, PairsSorted
<1>3. /\ r.ids = ids
      /\ r.targets = [e \in DOMAIN order |-> IndexOfId(ids, order[e][2])]
      /\ r.weights = [e \in DOMAIN order |-> f[order[e]]]
  BY DEF RowsOf
<1>4. DOMAIN order = 1..Cardinality(D) /\ \A e \in DOMAIN order : order[e] \in D
  BY <1>2 DEF Lists
<1> DEFINE row(e) == Cardinality({k \in DOMAIN r.offsets : r.offsets[k] <= e})
           pairOf == [e \in DOMAIN r.targets |-> <<r.ids[row(e)], r.ids[r.targets[e]]>>]
<1>5. pairOf = order
  <2>1. \A e \in DOMAIN order : <<r.ids[row(e)], r.ids[r.targets[e]]>> = order[e]
    <3> TAKE e \in DOMAIN order
    <3>1. order[e] \in N \X N
      BY <1>1, <1>4
    <3>2. order[e][1] \in N /\ order[e][2] \in N /\ order[e] = <<order[e][1], order[e][2]>>
      BY <3>1
    <3>3. row(e) = IndexOfId(ids, order[e][1])
      <4>1. e \in 1..Cardinality(DOMAIN f)
        BY <1>4
      <4>2. Cardinality({k \in DOMAIN RowsOf(f, N).offsets : RowsOf(f, N).offsets[k] <= e})
              = IndexOfId(RowsOf(f, N).ids, Sorted(DOMAIN f, PairOrder)[e][1])
        BY <4>1, RowOfLink
      <4> QED  BY <1>3, <4>2
    <3>4. ids[IndexOfId(ids, order[e][1])] = order[e][1]
      BY <3>2, IndexIs
    <3>5. ids[IndexOfId(ids, order[e][2])] = order[e][2]
      BY <3>2, IndexIs
    <3> HIDE DEF row, ids, order, r
    <3>6. r.targets[e] = IndexOfId(ids, order[e][2])
      BY <1>3
    <3> QED  BY <1>3, <3>2, <3>3, <3>4, <3>5, <3>6
  <2>2. DOMAIN r.targets = DOMAIN order
    BY <1>3
  <2>3. order = [e \in DOMAIN order |-> order[e]]
    BY <1>2 DEF Lists
  <2> HIDE DEF row, order, r
  <2> QED  BY <2>1, <2>2, <2>3
<1>6. LinksOfRows(r) = [p \in Range(pairOf) |-> r.weights[CHOOSE e \in DOMAIN pairOf : pairOf[e] = p]]
  BY DEF LinksOfRows
<1> HIDE DEF pairOf, row, r
<1>7. Range(order) = D
  <2> HIDE DEF order, D
  <2>1. \A p \in D : \E e \in DOMAIN order : order[e] = p
    BY <1>2, <1>4 DEF Lists
  <2> QED  BY <1>4, <2>1 DEF Range
<1>8. \A p \in D : r.weights[CHOOSE e \in DOMAIN order : order[e] = p] = f[p]
  <2> TAKE p \in D
  <2> DEFINE c == CHOOSE e \in DOMAIN order : order[e] = p
  <2> HIDE DEF order
  <2>1. \E e \in DOMAIN order : order[e] = p
    BY <1>2, <1>4 DEF Lists
  <2>2. c \in DOMAIN order /\ order[c] = p
    BY <2>1
  <2> HIDE DEF c
  <2>3. r.weights[c] = f[order[c]]
    BY <1>3, <2>2
  <2> QED  BY <2>2, <2>3 DEF c
<1>9. LinksOfRows(r) = [p \in D |-> f[p]]
  <2> HIDE DEF order, D
  <2> QED  BY <1>5, <1>6, <1>7, <1>8
<1>10. f = [p \in D |-> f[p]]
  BY DEF WeightsOn
<1> QED  BY <1>3, <1>9, <1>10 DEF r

-----------------------------------------------------------------------------
(***************************************************************************)
(* Merging arrivals.                                                       *)
(***************************************************************************)
Arrivals(N) == Seq(N \X N \X Int)
PairOf(buf, k) == <<buf[k][1], buf[k][2]>>
WeightsIn(buf) == [k \in DOMAIN buf |-> buf[k][3]]
IndicesOf(buf, p) == {k \in DOMAIN buf : PairOf(buf, k) = p}

LEMMA ArrivalIs ==
  ASSUME NEW N, NEW buf \in Arrivals(N)
  PROVE  /\ IsFiniteSet(DOMAIN buf) /\ DOMAIN buf = 1..Len(buf) /\ Len(buf) \in Nat
         /\ \A k \in DOMAIN buf : PairOf(buf, k) \in N \X N /\ buf[k][3] \in Int
         /\ \A p : IsFiniteSet(IndicesOf(buf, p)) /\ Integral(WeightsIn(buf), IndicesOf(buf, p))
<1>1. DOMAIN buf = 1..Len(buf) /\ Len(buf) \in Nat
  BY DEF Arrivals
<1>2. IsFiniteSet(DOMAIN buf)
  BY <1>1, FS_Interval
<1>3. \A k \in DOMAIN buf : PairOf(buf, k) \in N \X N /\ buf[k][3] \in Int
  <2> TAKE k \in DOMAIN buf
  <2>1. buf[k] \in N \X N \X Int
    BY <1>1 DEF Arrivals
  <2> QED  BY <2>1 DEF PairOf
<1>4. \A p : IsFiniteSet(IndicesOf(buf, p)) /\ Integral(WeightsIn(buf), IndicesOf(buf, p))
  <2> TAKE p
  <2>1. IndicesOf(buf, p) \subseteq DOMAIN buf
    BY DEF IndicesOf
  <2>2. Integral(WeightsIn(buf), IndicesOf(buf, p))
    BY <1>3, <2>1 DEF WeightsIn, Integral
  <2> QED  BY <1>2, <2>1, <2>2, FS_Subset
<1> QED  BY <1>1, <1>2, <1>3, <1>4

LEMMA MergedIs ==
  ASSUME NEW N, NEW buf \in Arrivals(N)
  PROVE  /\ WeightsOn(Merged(buf), N \X N)
         /\ DOMAIN Merged(buf) = Pairs(buf)
         /\ \A p \in Pairs(buf) : Merged(buf)[p] = SumFunctionOnSet(WeightsIn(buf), IndicesOf(buf, p))
<1>1. Merged(buf) = [p \in Pairs(buf) |-> SumFunctionOnSet(WeightsIn(buf), IndicesOf(buf, p))]
  BY DEF Merged, SumOver, WeightsIn, IndicesOf, PairOf
<1>2. Pairs(buf) \subseteq N \X N
  BY ArrivalIs DEF Pairs, PairOf
<1>3. \A p : SumFunctionOnSet(WeightsIn(buf), IndicesOf(buf, p)) \in Int
  BY ArrivalIs, SumIsInteger
<1> HIDE DEF WeightsIn, IndicesOf
<1>4. WeightsOn(Merged(buf), N \X N)
  BY <1>1, <1>2, <1>3 DEF WeightsOn
<1> QED  BY <1>1, <1>4

\* A new arrival adds its weight to that of its pair.
LEMMA MergedAppend ==
  ASSUME NEW N, NEW buf \in Arrivals(N), NEW s \in N, NEW t \in N, NEW w \in Int
  PROVE  /\ Append(buf, <<s, t, w>>) \in Arrivals(N)
         /\ Merged(Append(buf, <<s, t, w>>)) = Plus(Merged(buf), Only(<<s, t>>, w))
<1> DEFINE new == Append(buf, <<s, t, w>>)
           n == Len(buf)
           a == <<s, t>>
           Sum(b, p) == SumFunctionOnSet(WeightsIn(b), IndicesOf(b, p))
<1>1. new \in Arrivals(N)
  BY DEF Arrivals
<1>2. /\ n \in Nat /\ DOMAIN buf = 1..n /\ DOMAIN new = 1..(n + 1)
      /\ \A k \in 1..n : new[k] = buf[k]
      /\ new[n + 1] = <<s, t, w>>
  BY DEF Arrivals
<1> HIDE DEF new
<1>3. DOMAIN new = DOMAIN buf \cup {n + 1} /\ n + 1 \notin DOMAIN buf
  BY <1>2
<1>4. \A k \in DOMAIN buf : PairOf(new, k) = PairOf(buf, k) /\ WeightsIn(new)[k] = WeightsIn(buf)[k]
  BY <1>2, <1>3 DEF PairOf, WeightsIn
<1>5. PairOf(new, n + 1) = a /\ WeightsIn(new)[n + 1] = w
  BY <1>2, <1>3 DEF PairOf, WeightsIn
<1>6. Pairs(new) = Pairs(buf) \cup {a}
  <2>1. \A b : Pairs(b) = {PairOf(b, k) : k \in DOMAIN b}
    BY DEF Pairs, PairOf
  <2> HIDE DEF a
  <2> QED  BY <1>3, <1>4, <1>5, <2>1
<1>7. \A p : IndicesOf(new, p) = IF p = a THEN IndicesOf(buf, p) \cup {n + 1} ELSE IndicesOf(buf, p)
  <2> HIDE DEF a
  <2> QED  BY <1>3, <1>4, <1>5 DEF IndicesOf
<1>8. \A p : SumFunctionOnSet(WeightsIn(new), IndicesOf(buf, p)) = Sum(buf, p) /\ Sum(buf, p) \in Int
  <2> TAKE p
  <2>1. IsFiniteSet(IndicesOf(buf, p)) /\ Integral(WeightsIn(buf), IndicesOf(buf, p))
    BY ArrivalIs
  <2>2. \A k \in IndicesOf(buf, p) : WeightsIn(new)[k] = WeightsIn(buf)[k]
    BY <1>4 DEF IndicesOf
  <2> QED  BY <2>1, <2>2, SumSame, SumIsInteger
<1>9. Sum(new, a) = w + Sum(buf, a)
  <2>1. IsFiniteSet(IndicesOf(new, a)) /\ Integral(WeightsIn(new), IndicesOf(new, a))
    BY <1>1, ArrivalIs
  <2>2. n + 1 \in IndicesOf(new, a) /\ IndicesOf(new, a) \ {n + 1} = IndicesOf(buf, a)
    BY <1>3, <1>7 DEF IndicesOf
  <2> HIDE DEF a
  <2>3. Sum(new, a) = WeightsIn(new)[n + 1] + SumFunctionOnSet(WeightsIn(new), IndicesOf(new, a) \ {n + 1})
    BY <2>1, <2>2, SumWithout
  <2> QED  BY <1>5, <1>8, <2>2, <2>3
<1>10. \A p : p # a => Sum(new, p) = Sum(buf, p)
  BY <1>7, <1>8
<1>11. \A p : p \notin Pairs(buf) => Sum(buf, p) = 0
  <2> SUFFICES ASSUME NEW p, p \notin Pairs(buf) PROVE Sum(buf, p) = 0
    OBVIOUS
  <2>1. IndicesOf(buf, p) = {}
    BY DEF IndicesOf, Pairs, PairOf
  <2> QED  BY <2>1, SumEmpty
<1> DEFINE old == Merged(buf)
           only == Only(a, w)
<1>12. DOMAIN old = Pairs(buf) /\ \A p \in Pairs(buf) : old[p] = Sum(buf, p)
  BY MergedIs
<1>13. DOMAIN only = {a} /\ only[a] = w
  BY DEF Only
<1>14. /\ DOMAIN Merged(new) = Pairs(new) /\ \A p \in Pairs(new) : Merged(new)[p] = Sum(new, p)
       /\ Merged(new) = [p \in DOMAIN Merged(new) |-> Merged(new)[p]]
  BY <1>1, MergedIs DEF WeightsOn
<1> HIDE DEF old, only, Sum, a
<1>15. \A p \in Pairs(new) : Merged(new)[p] = ValueAt(old, p) + ValueAt(only, p)
  <2> TAKE p \in Pairs(new)
  <2>1. ValueAt(old, p) = Sum(buf, p) /\ Sum(buf, p) \in Int
    BY <1>8, <1>11, <1>12 DEF ValueAt
  <2>2. CASE p = a
    <3>1. ValueAt(only, p) = w
      BY <1>13, <2>2 DEF ValueAt
    <3> QED  BY <1>9, <1>14, <2>1, <2>2, <3>1
  <2>3. CASE p # a
    <3>1. ValueAt(only, p) = 0
      BY <1>13, <2>3 DEF ValueAt
    <3> QED  BY <1>10, <1>14, <2>1, <2>3, <3>1
  <2> QED  BY <2>2, <2>3
<1>16. Merged(new) = Plus(old, only)
  BY <1>6, <1>12, <1>13, <1>14, <1>15 DEF Plus
<1> QED  BY <1>1, <1>16 DEF new, old, only, a

\* Links that become arrivals again are the same links.
LEMMA ArrivalsReadBack ==
  ASSUME NEW N \in SUBSET Ids, NEW f, WeightsOn(f, N \X N)
  PROVE  ArrivalsOf(f) \in Arrivals(N) /\ Merged(ArrivalsOf(f)) = f
<1> DEFINE D == DOMAIN f
           order == Sorted(D, PairOrder)
           L == Cardinality(D)
           buf == ArrivalsOf(f)
<1>1. D \in SUBSET (Ids \X Ids) /\ D \subseteq N \X N
  BY DEF WeightsOn
<1>2. Lists(order, D, PairOrder)
  BY <1>1, PairsSorted
<1>3. L \in Nat /\ DOMAIN order = 1..L /\ \A k \in 1..L : order[k] \in D
  BY <1>2 DEF Lists
<1>4. buf = [k \in 1..L |-> <<order[k][1], order[k][2], f[order[k]]>>]
  BY <1>3 DEF ArrivalsOf
<1> HIDE DEF order, L
<1>5. \A k \in 1..L : /\ order[k] \in N \X N /\ f[order[k]] \in Int
                      /\ order[k] = <<order[k][1], order[k][2]>>
  BY <1>1, <1>3 DEF WeightsOn
<1>6. buf \in Arrivals(N)
  <2>1. \A k \in 1..L : <<order[k][1], order[k][2], f[order[k]]>> \in N \X N \X Int
    BY <1>5
  <2> QED  BY <1>3, <1>4, <2>1 DEF Arrivals
<1>7. \A k \in 1..L : PairOf(buf, k) = order[k] /\ WeightsIn(buf)[k] = f[order[k]]
  BY <1>4, <1>5 DEF PairOf, WeightsIn
<1>8. DOMAIN buf = 1..L
  BY <1>4
<1> HIDE DEF buf, D
<1>9. Pairs(buf) = D
  <2>1. Pairs(buf) = {PairOf(buf, k) : k \in DOMAIN buf}
    BY DEF Pairs, PairOf
  <2>2. \A p \in D : \E k \in 1..L : order[k] = p
    BY <1>2 DEF Lists, L
  <2> QED  BY <1>3, <1>7, <1>8, <2>1, <2>2
<1>10. \A p \in D : SumFunctionOnSet(WeightsIn(buf), IndicesOf(buf, p)) = f[p]
  <2> TAKE p \in D
  <2>1. PICK k \in 1..L : order[k] = p
    BY <1>2 DEF Lists, L
  <2>2. \A i, j \in 1..L : order[i] = order[j] => i = j
    BY <1>2 DEF Lists, L
  <2>3. IndicesOf(buf, p) = {k}
    BY <1>7, <1>8, <2>1, <2>2 DEF IndicesOf
  <2>4. WeightsIn(buf)[k] = f[p] /\ f[p] \in Int
    BY <1>5, <1>7, <2>1
  <2> QED  BY <2>3, <2>4, SumSingle
<1>11. /\ DOMAIN Merged(buf) = Pairs(buf)
       /\ \A p \in Pairs(buf) : Merged(buf)[p] = SumFunctionOnSet(WeightsIn(buf), IndicesOf(buf, p))
       /\ Merged(buf) = [p \in DOMAIN Merged(buf) |-> Merged(buf)[p]]
  BY <1>6, MergedIs DEF WeightsOn
<1>12. f = [p \in D |-> f[p]]
  BY DEF WeightsOn, D
<1>13. Merged(buf) = f
  BY <1>9, <1>10, <1>11, <1>12
<1> QED  BY <1>6, <1>13 DEF buf

-----------------------------------------------------------------------------
(***************************************************************************)
(* The state: types, and what the two representations hold.                *)
(***************************************************************************)
Stats == [links : Int, sum : Int, selfSum : Int]
Loops == {p \in Ids \X Ids : p[1] = p[2]}
From(s) == {p \in Ids \X Ids : p[1] = s}

TypeInv ==
  /\ nodes \subseteq Ids
  /\ useMap \in BOOLEAN /\ finalized \in BOOLEAN
  /\ released \in BOOLEAN /\ behind \in BOOLEAN
  /\ buffer \in Arrivals(nodes)
  /\ WeightsOn(outWeights, Ids)
  /\ stats \in Stats
  /\ WeightsOn(Content, nodes \X nodes)

\* Rows that nothing came after were made of the links of now.
RowsInv == finalized /\ ~behind => rows = RowsOf(Content, nodes)

\* In map mode every source of a link has an entry of its own, also when the
\* statistics no longer count.
SourcesInv == useMap => \A p \in DOMAIN Content : p[1] \in DOMAIN outWeights

StatsInv ==
  ~released =>
    /\ stats.sum = SumIn(Content, Ids \X Ids)
    /\ stats.selfSum = SumIn(Content, Loops)
    /\ useMap \/ finalized => stats.links = Cardinality(DOMAIN Content)
    /\ useMap => \A s \in Ids : ValueAt(outWeights, s) = SumIn(Content, From(s))

IInv == TypeInv /\ RowsInv /\ SourcesInv /\ StatsInv

LEMMA ContentIs ==
  /\ useMap => Content = linkMap
  /\ ~useMap /\ finalized => Content = LinksOfRows(rows)
  /\ ~useMap /\ ~finalized => Content = Merged(buffer)
  BY DEF Content

LEMMA ContentIsNext ==
  /\ useMap' => Content' = linkMap'
  /\ ~useMap' /\ finalized' => Content' = LinksOfRows(rows')
  /\ ~useMap' /\ ~finalized' => Content' = Merged(buffer')
  BY DEF Content

LEMMA IdPairsFinite ==
  IsFiniteSet(Ids) /\ IsFiniteSet(Ids \X Ids)
  BY NetworkAssumption, FS_Product

LEMMA WiderWeights ==
  ASSUME NEW N, NEW M, N \subseteq M, NEW f, WeightsOn(f, N \X N)
  PROVE  WeightsOn(f, M \X M)
  BY DEF WeightsOn

LEMMA WiderArrivals ==
  ASSUME NEW N, NEW M, N \subseteq M, NEW buf \in Arrivals(N)
  PROVE  buf \in Arrivals(M)
<1>1. Len(buf) \in Nat /\ buf = [k \in 1..Len(buf) |-> buf[k]]
  BY DEF Arrivals
<1>2. \A k \in 1..Len(buf) : buf[k] \in M \X M \X Int
  <2> TAKE k \in 1..Len(buf)
  <2>1. buf[k] \in N \X N \X Int
    BY DEF Arrivals
  <2> QED  BY <2>1
<1> QED  BY <1>1, <1>2 DEF Arrivals

LEMMA NoLinks ==
  /\ Merged(<<>>) = <<>>
  /\ LinksOfRows(NoRows) = <<>>
  /\ \A S : WeightsOn(<<>>, S)
  /\ \A N : <<>> \in Arrivals(N)
<1>1. Pairs(<<>>) = {}
  BY DEF Pairs
<1>2. Merged(<<>>) = <<>>
  BY <1>1 DEF Merged
<1>3. LinksOfRows(NoRows) = <<>>
  BY DEF LinksOfRows, NoRows, Range
<1>4. \A S : WeightsOn(<<>>, S)
  BY DEF WeightsOn
<1>5. \A N : <<>> \in Arrivals(N)
  BY DEF Arrivals
<1> QED  BY <1>2, <1>3, <1>4, <1>5

LEMMA ContentIsWeights ==
  ASSUME TypeInv
  PROVE  WeightsOn(Content, Ids \X Ids)
  BY WiderWeights DEF TypeInv

LEMMA RowSumsAre ==
  ASSUME NEW f, WeightsOn(f, Ids \X Ids)
  PROVE  /\ WeightsOn(RowSums(f), Ids)
         /\ DOMAIN RowSums(f) = {p[1] : p \in DOMAIN f}
         /\ \A s \in Ids : ValueAt(RowSums(f), s) = SumIn(f, From(s))
<1> DEFINE Row(s) == {p \in DOMAIN f : p[1] = s}
           sources == {p[1] : p \in DOMAIN f}
<1>1. RowSums(f) = [s \in sources |-> SumOver(Row(s), f)]
  BY DEF RowSums
<1>2. \A s : Row(s) = DOMAIN f \cap From(s)
  <2> SUFFICES ASSUME NEW s PROVE Row(s) = DOMAIN f \cap From(s)
    OBVIOUS
  <2>1. DOMAIN f \subseteq Ids \X Ids
    BY DEF WeightsOn
  <2> QED  BY <2>1 DEF From
<1>3. \A s : SumOver(Row(s), f) = SumIn(f, From(s)) /\ SumIn(f, From(s)) \in Int
  BY <1>2, IdPairsFinite, SumInType DEF SumIn
<1>4. sources \subseteq Ids
  BY DEF WeightsOn
<1>5. \A s : s \notin sources => SumIn(f, From(s)) = 0
  <2> SUFFICES ASSUME NEW s, s \notin sources PROVE SumIn(f, From(s)) = 0
    OBVIOUS
  <2>1. Row(s) = {}
    OBVIOUS
  <2>2. SumOver(Row(s), f) = 0
    BY <2>1, SumEmpty DEF SumOver
  <2> QED  BY <1>3, <2>2
<1> HIDE DEF Row, sources
<1>6. WeightsOn(RowSums(f), Ids)
  BY <1>1, <1>3, <1>4 DEF WeightsOn
<1>7. \A s \in Ids : ValueAt(RowSums(f), s) = SumIn(f, From(s))
  BY <1>1, <1>3, <1>5 DEF ValueAt
<1> QED  BY <1>1, <1>6, <1>7 DEF sources

\* Finalising shows the links that were there.
LEMMA FinalRowsAre ==
  ASSUME TypeInv
  PROVE  /\ ~finalized => FinalRows = RowsOf(Content, nodes)
         /\ ~useMap => LinksOfRows(FinalRows) = Content
         /\ AsMap = Content
<1>1. ~finalized => FinalRows = RowsOf(Content, nodes)
  BY ContentIs DEF FinalRows
<1>2. LinksOfRows(RowsOf(Content, nodes)) = Content
  BY LinksReadBack DEF TypeInv
<1>3. finalized => FinalRows = rows
  BY DEF FinalRows
<1>4. ~useMap => LinksOfRows(FinalRows) = Content
  BY <1>1, <1>2, <1>3, ContentIs DEF TypeInv
<1>5. AsMap = Content
  BY <1>4, ContentIs DEF AsMap
<1> QED  BY <1>1, <1>4, <1>5

\* The counters and out-weights that a change of mode starts from.
LEMMA AsStatsAre ==
  ASSUME TypeInv, StatsInv
  PROVE  /\ AsStats \in Stats /\ AsStats.sum = stats.sum /\ AsStats.selfSum = stats.selfSum
         /\ ~released => AsStats.links = Cardinality(DOMAIN Content)
<1>1. stats \in Stats
  BY DEF TypeInv
<1>2. CASE useMap \/ finalized
  <2>1. AsStats = stats
    BY <1>2 DEF AsStats, FinalStats
  <2> QED  BY <1>1, <1>2, <2>1 DEF StatsInv
<1>3. CASE ~useMap /\ ~finalized
  <2>1. AsStats = [stats EXCEPT !.links = Cardinality(Pairs(buffer))]
    BY <1>3 DEF AsStats, FinalStats
  <2>2. Content = Merged(buffer) /\ DOMAIN Content = Pairs(buffer)
    BY <1>3, ContentIs, MergedIs DEF TypeInv
  <2>3. Cardinality(Pairs(buffer)) \in Int
    <3>1. IsFiniteSet(DOMAIN Content)
      BY ContentIsWeights, IdPairsFinite, WeightsFinite
    <3> QED  BY <2>2, <3>1, FS_CardinalityType
  <2> QED  BY <1>1, <2>1, <2>2, <2>3 DEF Stats
<1> QED  BY <1>2, <1>3

LEMMA OutWeightsAre ==
  ASSUME IInv
  PROVE  LET out == OutWeightsWith(Content)
         IN  /\ WeightsOn(out, Ids)
             /\ \A p \in DOMAIN Content : p[1] \in DOMAIN out
             /\ ~released => \A s \in Ids : ValueAt(out, s) = SumIn(Content, From(s))
<1>1. CASE useMap
  <2>1. OutWeightsWith(Content) = outWeights
    BY <1>1 DEF OutWeightsWith
  <2> QED  BY <1>1, <2>1 DEF IInv, TypeInv, SourcesInv, StatsInv
<1>2. CASE ~useMap
  <2>1. OutWeightsWith(Content) = RowSums(Content)
    BY <1>2 DEF OutWeightsWith
  <2>2. WeightsOn(Content, Ids \X Ids)
    BY ContentIsWeights DEF IInv
  <2> QED  BY <2>1, <2>2, RowSumsAre
<1> QED  BY <1>1, <1>2

-----------------------------------------------------------------------------
(***************************************************************************)
(* What each call does to the links, whichever way they are stored.        *)
(***************************************************************************)
\* The links without the one from s to t; those that answer the others.
LinksWithout(s, t) == Restrict(Content, DOMAIN Content \ {<<s, t>>})
Opposites(f) == {<<p[2], p[1]>> : p \in {q \in DOMAIN f : q[1] # q[2]}}
Answers(f) == [p \in Opposites(f) |-> f[<<p[2], p[1]>>]]

LEMMA AddNodeEffect ==
  ASSUME TypeInv, NEW id \in Ids, AddStateNode(id)
  PROVE  Content' = Content /\ TypeInv'
<1>1. /\ nodes' = nodes \cup {id} /\ behind' = (behind \/ (finalized /\ id \notin nodes))
      /\ UNCHANGED <<useMap, finalized, buffer, linkMap, outWeights, rows, stats, released>>
  BY DEF AddStateNode, links
<1>2. Content' = Content
  BY <1>1, ContentIs, ContentIsNext DEF TypeInv
<1>3. nodes \subseteq nodes' /\ nodes' \subseteq Ids /\ behind' \in BOOLEAN
  BY <1>1 DEF TypeInv
<1>4. buffer' \in Arrivals(nodes')
  BY <1>1, <1>3, WiderArrivals DEF TypeInv
<1>5. WeightsOn(Content', nodes' \X nodes')
  BY <1>2, <1>3, WiderWeights DEF TypeInv
<1> QED  BY <1>1, <1>2, <1>3, <1>4, <1>5 DEF TypeInv

LEMMA ReadEffect ==
  ASSUME TypeInv, StatsInv, ReadLinks
  PROVE  Content' = Content /\ TypeInv'
<1>1. /\ finalized' = TRUE /\ rows' = FinalRows /\ stats' = FinalStats
      /\ buffer' = IF finalized \/ useMap THEN buffer ELSE <<>>
      /\ behind' = (finalized /\ behind)
      /\ UNCHANGED <<nodes, useMap, linkMap, outWeights, released>>
  BY DEF ReadLinks
<1>2. Content' = Content
  <2>1. CASE useMap
    BY <1>1, <2>1, ContentIs, ContentIsNext
  <2>2. CASE ~useMap
    BY <1>1, <2>2, ContentIsNext, FinalRowsAre
  <2> QED  BY <2>1, <2>2
<1>3. buffer' \in Arrivals(nodes')
  BY <1>1, NoLinks DEF TypeInv
<1>4. stats' \in Stats
  <2>1. FinalStats = IF useMap THEN stats ELSE AsStats
    BY DEF AsStats, FinalStats
  <2> QED  BY <1>1, <2>1, AsStatsAre DEF TypeInv
<1> QED  BY <1>1, <1>2, <1>3, <1>4 DEF TypeInv

LEMMA AddLinkEffect ==
  ASSUME TypeInv, NEW s \in Ids, NEW t \in Ids, NEW w \in Weights, AddLink(s, t, w)
  PROVE  Content' = Plus(Content, Only(<<s, t>>, w)) /\ w # 0 /\ w \in Int /\ TypeInv'
<1>1. /\ w # 0 /\ nodes' = nodes \cup {s, t}
      /\ stats' = [links   |-> stats.links + (IF useMap /\ <<s, t>> \notin DOMAIN linkMap THEN 1 ELSE 0),
                   sum     |-> stats.sum + w,
                   selfSum |-> stats.selfSum + (IF s = t THEN w ELSE 0)]
      /\ IF useMap THEN AddLinkToMap(s, t, w) ELSE AppendToBuffer(s, t, w)
      /\ finalized' = FALSE /\ behind' = FALSE
      /\ UNCHANGED <<useMap, released>>
  BY DEF AddLink, Accepts, Reopen
<1>2. w \in Int
  BY NetworkAssumption
<1>3. nodes \subseteq nodes' /\ nodes' \subseteq Ids /\ s \in nodes' /\ t \in nodes'
  BY <1>1 DEF TypeInv
<1>4. stats' \in Stats
  <2>1. stats.links \in Int /\ stats.sum \in Int /\ stats.selfSum \in Int
    BY DEF TypeInv, Stats
  <2> QED  BY <1>1, <1>2, <2>1 DEF Stats
<1>5. buffer \in Arrivals(nodes') /\ WeightsOn(Content, nodes' \X nodes')
  BY <1>3, WiderArrivals, WiderWeights DEF TypeInv
<1>6. CASE useMap
  <2>1. /\ linkMap' = Plus(linkMap, Only(<<s, t>>, w))
        /\ outWeights' = Plus(outWeights, Only(s, w))
        /\ buffer' = buffer
    BY <1>1, <1>6 DEF AddLinkToMap
  <2>2. Content' = Plus(Content, Only(<<s, t>>, w))
    BY <1>1, <1>6, <2>1, ContentIs, ContentIsNext
  <2>3. WeightsOn(Content', nodes' \X nodes')
    BY <1>2, <1>3, <1>5, <2>2, OnlyIs, PlusIs
  <2>4. WeightsOn(outWeights', Ids)
    BY <1>2, <2>1, OnlyIs, PlusIs DEF TypeInv
  <2> QED  BY <1>1, <1>2, <1>3, <1>4, <1>5, <2>1, <2>2, <2>3, <2>4 DEF TypeInv
<1>7. CASE ~useMap
  <2> DEFINE old == IF finalized THEN Definalized ELSE buffer
  <2>1. buffer' = Append(old, <<s, t, w>>) /\ outWeights' = outWeights
    BY <1>1, <1>7 DEF AppendToBuffer
  <2>2. old \in Arrivals(nodes') /\ Merged(old) = Content
    <3>1. CASE finalized
      <4>1. old = ArrivalsOf(Content)
        BY <1>7, <3>1, ContentIs DEF Definalized
      <4> HIDE DEF old
      <4> QED  BY <1>3, <1>5, <4>1, ArrivalsReadBack
    <3>2. CASE ~finalized
      BY <1>5, <1>7, <3>2, ContentIs
    <3> QED  BY <3>1, <3>2
  <2> HIDE DEF old
  <2>3. /\ buffer' \in Arrivals(nodes')
        /\ Merged(buffer') = Plus(Content, Only(<<s, t>>, w))
    BY <1>2, <1>3, <2>1, <2>2, MergedAppend
  <2>4. Content' = Plus(Content, Only(<<s, t>>, w))
    BY <1>1, <1>7, <2>3, ContentIsNext
  <2>5. WeightsOn(Content', nodes' \X nodes')
    BY <1>2, <1>3, <1>5, <2>4, OnlyIs, PlusIs
  <2> QED  BY <1>1, <1>2, <1>3, <1>4, <2>1, <2>3, <2>4, <2>5 DEF TypeInv
<1> QED  BY <1>6, <1>7

LEMMA RemoveEffect ==
  ASSUME IInv, NEW s \in Ids, NEW t \in Ids, RemoveLink(s, t)
  PROVE  /\ Content' = LinksWithout(s, t) /\ useMap' = TRUE /\ TypeInv'
         /\ <<s, t>> \in DOMAIN Content =>
              outWeights' = [OutWeightsWith(Content) EXCEPT ![s] = @ - Content[<<s, t>>]]
         /\ <<s, t>> \notin DOMAIN Content =>
              Content' = Content /\ outWeights' = OutWeightsWith(Content)
<1> DEFINE found == <<s, t>> \in DOMAIN Content
           w == ValueAt(Content, <<s, t>>)
           out == OutWeightsWith(Content)
<1>1. AsMap = Content
  BY FinalRowsAre DEF IInv
<1>2. /\ EnsureMapBuild /\ linkMap' = LinksWithout(s, t)
      /\ outWeights' = (IF found THEN [out EXCEPT ![s] = @ - w] ELSE out)
      /\ stats' = (IF found THEN Without(s, t, w) ELSE AsStats)
      /\ finalized' = (useMap /\ finalized)
      /\ behind' = (finalized' /\ (behind \/ found))
      /\ UNCHANGED <<nodes, released>>
  BY <1>1 DEF RemoveLink, LinksWithout
<1>3. useMap' = TRUE /\ buffer' = IF useMap THEN buffer ELSE <<>>
  BY <1>2 DEF EnsureMapBuild
<1>4. Content' = LinksWithout(s, t)
  BY <1>2, <1>3, ContentIsNext
<1>5. found => w = Content[<<s, t>>] /\ w \in Int
  BY DEF ValueAt, IInv, TypeInv, WeightsOn
<1>6. WeightsOn(out, Ids) /\ WeightsOn(Content, nodes \X nodes)
  BY OutWeightsAre DEF IInv, TypeInv
<1>7. AsStats \in Stats
  BY AsStatsAre DEF IInv
<1> HIDE DEF found, w, out
<1>8. WeightsOn(outWeights', Ids)
  <2>1. CASE found
    <3>1. outWeights' = [out EXCEPT ![s] = out[s] - w]
      BY <1>2, <2>1
    <3>2. outWeights' = [x \in DOMAIN out |-> IF x = s THEN out[s] - w ELSE out[x]]
      BY <3>1
    <3> QED  BY <1>5, <1>6, <2>1, <3>2 DEF WeightsOn
  <2>2. CASE ~found
    BY <1>2, <1>6, <2>2
  <2> QED  BY <2>1, <2>2
<1>9. stats' \in Stats
  <2>1. CASE found
    <3>1. stats' = Without(s, t, w)
      BY <1>2, <2>1
    <3>2. AsStats.links \in Int /\ AsStats.sum \in Int /\ AsStats.selfSum \in Int
      BY <1>7 DEF Stats
    <3>3. w \in Int
      BY <1>5, <2>1
    <3> QED  BY <1>7, <3>1, <3>2, <3>3 DEF Without, Stats
  <2>2. CASE ~found
    BY <1>2, <1>7, <2>2
  <2> QED  BY <2>1, <2>2
<1>10. ~found => Content' = Content
  <2> SUFFICES ASSUME ~found PROVE LinksWithout(s, t) = Content
    BY <1>4
  <2>1. DOMAIN Content \ {<<s, t>>} = DOMAIN Content
    BY DEF found
  <2>2. LinksWithout(s, t) = [p \in DOMAIN Content |-> Content[p]]
    BY <2>1 DEF LinksWithout, Restrict
  <2> QED  BY <1>6, <2>2 DEF WeightsOn
<1>11. WeightsOn(Content', nodes' \X nodes')
  <2>1. CASE found
    BY <1>2, <1>4, <1>6, <2>1, WithoutIs DEF LinksWithout, found
  <2>2. CASE ~found
    BY <1>2, <1>6, <1>10, <2>2
  <2> QED  BY <2>1, <2>2
<1>12. buffer' \in Arrivals(nodes') /\ nodes' \subseteq Ids
  BY <1>2, <1>3, NoLinks DEF IInv, TypeInv
<1>13. TypeInv'
  <2>1. useMap' \in BOOLEAN /\ finalized' \in BOOLEAN /\ released' \in BOOLEAN /\ behind' \in BOOLEAN
    BY <1>2, <1>3 DEF IInv, TypeInv
  <2> QED  BY <1>8, <1>9, <1>11, <1>12, <2>1 DEF TypeInv
<1> QED  BY <1>2, <1>3, <1>4, <1>5, <1>10, <1>13 DEF found, w, out

LEMMA AnswersAre ==
  ASSUME NEW N, NEW f, WeightsOn(f, N \X N)
  PROVE  WeightsOn(Answers(f), N \X N) /\ DOMAIN Answers(f) = Opposites(f)
<1>1. \A p \in Opposites(f) : p \in N \X N /\ f[<<p[2], p[1]>>] \in Int
  <2> TAKE p \in Opposites(f)
  <2>1. PICK q \in DOMAIN f : p = <<q[2], q[1]>>
    BY DEF Opposites
  <2>2. q \in N \X N /\ f[q] \in Int
    BY DEF WeightsOn
  <2>3. <<p[2], p[1]>> = q
    BY <2>1, <2>2
  <2> QED  BY <2>1, <2>2, <2>3
<1> QED  BY <1>1 DEF WeightsOn, Answers

LEMMA ConvertEffect ==
  ASSUME IInv, UndirectedToDirected
  PROVE  /\ Content' = Plus(Content, Answers(Content)) /\ useMap' = TRUE /\ TypeInv'
         /\ outWeights' = Plus(OutWeightsWith(Content), RowSums(Answers(Content)))
<1> DEFINE out == OutWeightsWith(Content)
           answer == Answers(Content)
<1>1. AsMap = Content
  BY FinalRowsAre DEF IInv
<1>2. /\ EnsureMapBuild /\ linkMap' = Plus(Content, answer)
      /\ outWeights' = Plus(out, RowSums(answer))
      /\ stats' = [links   |-> AsStats.links + Cardinality(Opposites(Content) \ DOMAIN Content),
                   sum     |-> AsStats.sum + Total(answer),
                   selfSum |-> AsStats.selfSum]
      /\ finalized' = (useMap /\ finalized /\ Opposites(Content) = {})
      /\ behind' = (finalized' /\ behind)
      /\ UNCHANGED <<nodes, released>>
  BY <1>1 DEF UndirectedToDirected, Answers, Opposites
<1>3. useMap' = TRUE /\ buffer' = IF useMap THEN buffer ELSE <<>>
  BY <1>2 DEF EnsureMapBuild
<1>4. Content' = Plus(Content, answer)
  BY <1>2, <1>3, ContentIsNext
<1>5. WeightsOn(out, Ids) /\ WeightsOn(Content, nodes \X nodes) /\ AsStats \in Stats
  BY OutWeightsAre, AsStatsAre DEF IInv, TypeInv
<1>6. WeightsOn(answer, nodes \X nodes) /\ WeightsOn(answer, Ids \X Ids) /\ DOMAIN answer = Opposites(Content)
  BY <1>5, AnswersAre, WiderWeights DEF IInv, TypeInv
<1> HIDE DEF out, answer
<1>7. WeightsOn(Content', nodes' \X nodes')
  BY <1>2, <1>4, <1>5, <1>6, PlusIs
<1>8. WeightsOn(outWeights', Ids)
  <2>1. WeightsOn(RowSums(answer), Ids)
    BY <1>6, RowSumsAre
  <2> QED  BY <1>2, <1>5, <2>1, PlusIs
<1>9. stats' \in Stats
  <2>1. IsFiniteSet(DOMAIN answer) /\ Integral(answer, DOMAIN answer)
    BY <1>6, IdPairsFinite, WeightsFinite
  <2>2. Total(answer) \in Int
    BY <2>1, SumIsInteger DEF Total, SumFunction
  <2>3. Cardinality(Opposites(Content) \ DOMAIN Content) \in Int
    BY <1>6, <2>1, FS_Subset, FS_CardinalityType
  <2>4. AsStats.links \in Int /\ AsStats.sum \in Int /\ AsStats.selfSum \in Int
    BY <1>5 DEF Stats
  <2> QED  BY <1>2, <1>5, <2>2, <2>3, <2>4 DEF Stats
<1>10. buffer' \in Arrivals(nodes') /\ nodes' \subseteq Ids
  BY <1>2, <1>3, NoLinks DEF IInv, TypeInv
<1>11. useMap' \in BOOLEAN /\ finalized' \in BOOLEAN /\ released' \in BOOLEAN /\ behind' \in BOOLEAN
  BY <1>2, <1>3 DEF IInv, TypeInv
<1>12. TypeInv'
  BY <1>7, <1>8, <1>9, <1>10, <1>11 DEF TypeInv
<1> QED  BY <1>2, <1>3, <1>4, <1>12 DEF out, answer

LEMMA ClearLinksEffect ==
  ASSUME TypeInv, ClearLinks
  PROVE  Content' = <<>> /\ TypeInv'
<1>1. /\ buffer' = <<>> /\ linkMap' = <<>> /\ outWeights' = <<>> /\ rows' = NoRows
      /\ finalized' = TRUE /\ released' = TRUE /\ behind' = TRUE
      /\ UNCHANGED <<nodes, useMap, stats>>
  BY DEF ClearLinks
<1>2. Content' = <<>>
  BY <1>1, NoLinks, ContentIsNext DEF TypeInv
<1>3. WeightsOn(Content', nodes' \X nodes') /\ WeightsOn(outWeights', Ids) /\ buffer' \in Arrivals(nodes')
  BY <1>1, <1>2, NoLinks
<1> QED  BY <1>1, <1>2, <1>3 DEF TypeInv

LEMMA ClearEffect ==
  ASSUME Clear
  PROVE  Content' = <<>> /\ TypeInv'
<1>1. /\ nodes' = {} /\ useMap' = FALSE /\ finalized' = FALSE
      /\ buffer' = <<>> /\ linkMap' = <<>> /\ outWeights' = <<>>
      /\ rows' = NoRows /\ stats' = NoStats
      /\ released' = FALSE /\ behind' = FALSE
  BY DEF Clear
<1>2. Content' = <<>>
  BY <1>1, NoLinks, ContentIsNext
<1>3. WeightsOn(Content', nodes' \X nodes') /\ WeightsOn(outWeights', Ids) /\ buffer' \in Arrivals(nodes')
  BY <1>1, <1>2, NoLinks
<1>4. stats' \in Stats
  BY <1>1 DEF NoStats, Stats
<1> QED  BY <1>1, <1>2, <1>3, <1>4 DEF TypeInv

LEMMA InitEffect ==
  ASSUME Init
  PROVE  Content = <<>> /\ TypeInv
<1>1. /\ nodes = {} /\ useMap \in BOOLEAN /\ finalized = FALSE
      /\ buffer = <<>> /\ linkMap = <<>> /\ outWeights = <<>>
      /\ rows = NoRows /\ stats = NoStats
      /\ released = FALSE /\ behind = FALSE
  BY DEF Init
<1>2. Content = <<>>
  BY <1>1, NoLinks, ContentIs
<1>3. WeightsOn(Content, nodes \X nodes) /\ WeightsOn(outWeights, Ids) /\ buffer \in Arrivals(nodes)
  BY <1>1, <1>2, NoLinks
<1>4. stats \in Stats
  BY <1>1 DEF NoStats, Stats
<1> QED  BY <1>1, <1>2, <1>3, <1>4 DEF TypeInv


-----------------------------------------------------------------------------
(***************************************************************************)
(* The invariant is kept by each call.                                     *)
(***************************************************************************)
LEMMA PlusValue ==
  ASSUME NEW S, NEW f, NEW g, WeightsOn(f, S), WeightsOn(g, S), NEW x
  PROVE  ValueAt(Plus(f, g), x) = ValueAt(f, x) + ValueAt(g, x)
  BY DEF Plus, ValueAt, WeightsOn

LEMMA NothingSums ==
  /\ \A T : SumIn(<<>>, T) = 0
  /\ DOMAIN <<>> = {} /\ Cardinality(DOMAIN <<>>) = 0
<1>1. DOMAIN <<>> = {}
  OBVIOUS
<1>2. \A T : SumIn(<<>>, T) = 0
  <2> TAKE T
  <2>1. DOMAIN <<>> \cap T = {}
    BY <1>1
  <2> QED  BY <2>1, SumEmpty DEF SumIn, SumOver
<1> QED  BY <1>1, <1>2, FS_EmptySet

LEMMA AddNodeStep ==
  ASSUME IInv, NEW id \in Ids, AddStateNode(id)
  PROVE  IInv'
<1>1. /\ nodes' = nodes \cup {id} /\ behind' = (behind \/ (finalized /\ id \notin nodes))
      /\ UNCHANGED <<useMap, finalized, outWeights, rows, stats, released>>
  BY DEF AddStateNode, links
<1>2. Content' = Content /\ TypeInv'
  BY AddNodeEffect DEF IInv
<1>3. RowsInv'
  <2> SUFFICES ASSUME finalized', ~behind' PROVE rows' = RowsOf(Content', nodes')
    BY DEF RowsInv
  <2>1. finalized /\ ~behind /\ nodes' = nodes
    BY <1>1
  <2> QED  BY <1>1, <1>2, <2>1 DEF IInv, RowsInv
<1>4. SourcesInv' /\ StatsInv'
  BY <1>1, <1>2 DEF IInv, SourcesInv, StatsInv
<1> QED  BY <1>2, <1>3, <1>4 DEF IInv

LEMMA ReadStep ==
  ASSUME IInv, ReadLinks
  PROVE  IInv'
<1>1. /\ finalized' = TRUE /\ rows' = FinalRows /\ stats' = FinalStats
      /\ behind' = (finalized /\ behind)
      /\ UNCHANGED <<nodes, useMap, outWeights, released>>
  BY DEF ReadLinks
<1>2. Content' = Content /\ TypeInv'
  BY ReadEffect DEF IInv
<1>3. RowsInv'
  <2> SUFFICES ASSUME finalized', ~behind' PROVE rows' = RowsOf(Content', nodes')
    BY DEF RowsInv
  <2>1. CASE finalized
    BY <1>1, <1>2, <2>1 DEF FinalRows, IInv, RowsInv
  <2>2. CASE ~finalized
    BY <1>1, <1>2, <2>2, FinalRowsAre DEF IInv
  <2> QED  BY <2>1, <2>2
<1>4. SourcesInv'
  BY <1>1, <1>2 DEF IInv, SourcesInv
<1>5. StatsInv'
  <2>1. CASE useMap
    <3>1. stats' = stats
      BY <1>1, <2>1 DEF FinalStats
    <3> QED  BY <1>1, <1>2, <2>1, <3>1 DEF IInv, StatsInv
  <2>2. CASE ~useMap
    <3>1. stats' = AsStats
      BY <1>1, <2>2 DEF AsStats
    <3> QED  BY <1>1, <1>2, <2>2, <3>1, AsStatsAre DEF IInv, StatsInv
  <2> QED  BY <2>1, <2>2
<1> QED  BY <1>2, <1>3, <1>4, <1>5 DEF IInv

LEMMA AddLinkStep ==
  ASSUME IInv, NEW s \in Ids, NEW t \in Ids, NEW w \in Weights, AddLink(s, t, w)
  PROVE  IInv'
<1> DEFINE a == <<s, t>>
           only == Only(a, w)
<1>1. /\ stats' = [links   |-> stats.links + (IF useMap /\ a \notin DOMAIN linkMap THEN 1 ELSE 0),
                   sum     |-> stats.sum + w,
                   selfSum |-> stats.selfSum + (IF s = t THEN w ELSE 0)]
      /\ useMap => outWeights' = Plus(outWeights, Only(s, w))
      /\ finalized' = FALSE
      /\ UNCHANGED <<useMap, released>>
  BY DEF AddLink, AddLinkToMap, Reopen
<1>2. Content' = Plus(Content, only) /\ w \in Int /\ TypeInv'
  BY AddLinkEffect DEF IInv
<1>3. WeightsOn(Content, Ids \X Ids) /\ IsFiniteSet(Ids \X Ids) /\ stats \in Stats
  BY ContentIsWeights, IdPairsFinite DEF IInv, TypeInv
<1>4. a \in Ids \X Ids /\ WeightsOn(only, Ids \X Ids) /\ DOMAIN only = {a}
  BY <1>2, OnlyIs
<1> HIDE DEF only
<1>5. DOMAIN Content' = DOMAIN Content \cup {a}
  <2>1. DOMAIN Plus(Content, only) = DOMAIN Content \cup DOMAIN only
    BY DEF Plus
  <2> HIDE DEF a
  <2> QED  BY <1>2, <1>4, <2>1
<1>6. WeightsOn(outWeights, Ids) /\ WeightsOn(Only(s, w), Ids) /\ DOMAIN Only(s, w) = {s} /\ Only(s, w)[s] = w
  BY <1>2, OnlyIs DEF IInv, TypeInv
<1>7. RowsInv'
  BY <1>1 DEF RowsInv
<1>8. SourcesInv'
  <2> SUFFICES ASSUME useMap' PROVE \A p \in DOMAIN Content' : p[1] \in DOMAIN outWeights'
    BY DEF SourcesInv
  <2>1. DOMAIN outWeights' = DOMAIN outWeights \cup {s}
    BY <1>1, <1>6, PlusIs
  <2>2. \A p \in DOMAIN Content : p[1] \in DOMAIN outWeights
    BY <1>1 DEF IInv, SourcesInv
  <2> QED  BY <1>5, <2>1, <2>2
<1>9. StatsInv'
  <2> SUFFICES ASSUME ~released
               PROVE  /\ stats'.sum = SumIn(Content', Ids \X Ids)
                      /\ stats'.selfSum = SumIn(Content', Loops)
                      /\ useMap' \/ finalized' => stats'.links = Cardinality(DOMAIN Content')
                      /\ useMap' => \A x \in Ids : ValueAt(outWeights', x) = SumIn(Content', From(x))
    BY <1>1 DEF StatsInv
  <2>1. \A T : SumIn(Content', T) = SumIn(Content, T) + (IF a \in T THEN w ELSE 0)
    <3> TAKE T
    <3>1. SumIn(Content', T) = SumIn(Content, T) + SumIn(only, T)
      BY <1>2, <1>3, <1>4, PlusSums
    <3>2. SumIn(only, T) = IF a \in T THEN w ELSE 0
      BY <1>2, OnlySums DEF only
    <3> QED  BY <3>1, <3>2
  <2>2. stats'.sum = SumIn(Content', Ids \X Ids)
    BY <1>1, <1>4, <2>1 DEF IInv, StatsInv
  <2>3. stats'.selfSum = SumIn(Content', Loops)
    <3>1. a \in Loops <=> s = t
      BY DEF Loops
    <3> QED  BY <1>1, <2>1, <3>1 DEF IInv, StatsInv
  <2>4. ASSUME useMap PROVE stats'.links = Cardinality(DOMAIN Content')
    <3>1. Content = linkMap /\ stats.links = Cardinality(DOMAIN Content) /\ stats.links \in Int
      BY <1>3, <2>4, ContentIs DEF IInv, StatsInv, Stats
    <3>2. IsFiniteSet(DOMAIN Content)
      BY <1>3, WeightsFinite
    <3>3. Cardinality(DOMAIN Content') = Cardinality(DOMAIN Content) + (IF a \notin DOMAIN Content THEN 1 ELSE 0)
      <4>1. CASE a \in DOMAIN Content
        <5>1. DOMAIN Content' = DOMAIN Content
          BY <1>5, <4>1
        <5> QED  BY <3>1, <4>1, <5>1
      <4>2. CASE a \notin DOMAIN Content
        BY <1>5, <3>2, <4>2, FS_AddElement
      <4> QED  BY <4>1, <4>2
    <3> QED  BY <1>1, <2>4, <3>1, <3>3
  <2>5. ASSUME useMap, NEW x \in Ids PROVE ValueAt(outWeights', x) = SumIn(Content', From(x))
    <3>1. ValueAt(outWeights', x) = ValueAt(outWeights, x) + ValueAt(Only(s, w), x)
      BY <1>1, <1>6, <2>5, PlusValue
    <3>2. ValueAt(Only(s, w), x) = IF x = s THEN w ELSE 0
      BY <1>6 DEF ValueAt
    <3>3. a \in From(x) <=> x = s
      BY DEF From
    <3>4. ValueAt(outWeights, x) = SumIn(Content, From(x))
      BY <2>5 DEF IInv, StatsInv
    <3> QED  BY <2>1, <3>1, <3>2, <3>3, <3>4
  <2> QED  BY <1>1, <2>2, <2>3, <2>4, <2>5
<1> QED  BY <1>2, <1>7, <1>8, <1>9 DEF IInv

LEMMA RemoveStep ==
  ASSUME IInv, NEW s \in Ids, NEW t \in Ids, RemoveLink(s, t)
  PROVE  IInv'
<1> DEFINE a == <<s, t>>
           found == a \in DOMAIN Content
           w == ValueAt(Content, a)
           out == OutWeightsWith(Content)
<1>1. AsMap = Content
  BY FinalRowsAre DEF IInv
<1>2. /\ stats' = (IF found THEN Without(s, t, w) ELSE AsStats)
      /\ rows' = (IF useMap THEN rows ELSE FinalRows)
      /\ finalized' = (useMap /\ finalized)
      /\ behind' = (finalized' /\ (behind \/ found))
      /\ UNCHANGED <<nodes, released>>
  BY <1>1 DEF RemoveLink, EnsureMapBuild
<1>3. /\ Content' = LinksWithout(s, t) /\ useMap' = TRUE /\ TypeInv'
      /\ found => outWeights' = [out EXCEPT ![s] = @ - Content[a]]
      /\ ~found => Content' = Content /\ outWeights' = out
  BY RemoveEffect
<1>4. WeightsOn(Content, Ids \X Ids) /\ IsFiniteSet(Ids \X Ids) /\ AsStats \in Stats
  BY ContentIsWeights, IdPairsFinite, AsStatsAre DEF IInv
<1>5. /\ WeightsOn(out, Ids) /\ \A p \in DOMAIN Content : p[1] \in DOMAIN out
      /\ ~released => \A x \in Ids : ValueAt(out, x) = SumIn(Content, From(x))
  BY OutWeightsAre
<1>6. found => w = Content[a] /\ w \in Int /\ s \in DOMAIN out
  <2> SUFFICES ASSUME found PROVE w = Content[a] /\ w \in Int /\ s \in DOMAIN out
    OBVIOUS
  <2>1. w = Content[a] /\ w \in Int
    BY <1>4 DEF ValueAt, WeightsOn
  <2>2. a[1] \in DOMAIN out
    BY <1>5
  <2> QED  BY <2>1, <2>2
<1>7. DOMAIN outWeights' = DOMAIN out /\ DOMAIN Content' \subseteq DOMAIN Content
  <2>1. DOMAIN Content' \subseteq DOMAIN Content
    BY <1>3 DEF LinksWithout, Restrict
  <2>2. DOMAIN outWeights' = DOMAIN out
    <3> HIDE DEF out, found
    <3> QED  BY <1>3
  <2> QED  BY <2>1, <2>2
<1> HIDE DEF out, w
<1>8. RowsInv'
  <2> SUFFICES ASSUME finalized', ~behind' PROVE rows' = RowsOf(Content', nodes')
    BY DEF RowsInv
  <2>1. useMap /\ finalized /\ ~behind /\ ~found
    BY <1>2
  <2> QED  BY <1>2, <1>3, <2>1 DEF IInv, RowsInv
<1>9. SourcesInv'
  BY <1>5, <1>7 DEF SourcesInv
<1>10. StatsInv'
  <2> SUFFICES ASSUME ~released
               PROVE  /\ stats'.sum = SumIn(Content', Ids \X Ids)
                      /\ stats'.selfSum = SumIn(Content', Loops)
                      /\ stats'.links = Cardinality(DOMAIN Content')
                      /\ \A x \in Ids : ValueAt(outWeights', x) = SumIn(Content', From(x))
    BY <1>2 DEF StatsInv
  <2>1. /\ AsStats.sum = SumIn(Content, Ids \X Ids) /\ AsStats.selfSum = SumIn(Content, Loops)
        /\ AsStats.links = Cardinality(DOMAIN Content)
    BY AsStatsAre DEF IInv, StatsInv
  <2>2. CASE ~found
    BY <1>2, <1>3, <1>5, <2>1, <2>2
  <2>3. CASE found
    <3>1. stats' = [links |-> AsStats.links - 1, sum |-> AsStats.sum - w,
                    selfSum |-> AsStats.selfSum - (IF s = t THEN w ELSE 0)]
      BY <1>2, <2>3 DEF Without
    <3>2. w = Content[a] /\ w \in Int /\ s \in DOMAIN out
      BY <1>6, <2>3
    <3>3. \A T : SumIn(Content', T) = SumIn(Content, T) - (IF a \in T THEN w ELSE 0)
      <4> TAKE T
      <4>1. SumIn(LinksWithout(s, t), T) = SumIn(Content, T) - (IF a \in T THEN Content[a] ELSE 0)
        BY <1>4, <2>3, WithoutSums DEF LinksWithout
      <4> QED  BY <1>3, <3>2, <4>1
    <3>4. a \in Ids \X Ids /\ (a \in Loops <=> s = t) /\ \A x \in Ids : a \in From(x) <=> x = s
      BY DEF Loops, From
    <3>5. stats'.links = Cardinality(DOMAIN Content')
      <4>1. IsFiniteSet(DOMAIN Content)
        BY <1>4, WeightsFinite
      <4>2. DOMAIN Content' = DOMAIN Content \ {a}
        BY <1>3, <1>4, <2>3, WithoutIs DEF LinksWithout
      <4>3. Cardinality(DOMAIN Content \ {a}) = Cardinality(DOMAIN Content) - 1
        BY <2>3, <4>1, FS_RemoveElement
      <4> QED  BY <2>1, <3>1, <4>2, <4>3
    <3>6. ASSUME NEW x \in Ids PROVE ValueAt(outWeights', x) = SumIn(Content', From(x))
      <4>1. outWeights' = [y \in DOMAIN out |-> IF y = s THEN out[s] - w ELSE out[y]]
        BY <1>3, <2>3, <3>2
      <4>2. ValueAt(outWeights', x) = ValueAt(out, x) - (IF x = s THEN w ELSE 0)
        BY <1>5, <3>2, <4>1 DEF ValueAt, WeightsOn
      <4>3. ValueAt(out, x) = SumIn(Content, From(x))
        BY <1>5
      <4> QED  BY <3>3, <3>4, <4>2, <4>3
    <3> QED  BY <2>1, <3>1, <3>3, <3>4, <3>5, <3>6
  <2> QED  BY <2>2, <2>3
<1> QED  BY <1>3, <1>8, <1>9, <1>10 DEF IInv

LEMMA ConvertStep ==
  ASSUME IInv, UndirectedToDirected
  PROVE  IInv'
<1> DEFINE opposites == Opposites(Content)
           answer == Answers(Content)
           out == OutWeightsWith(Content)
<1>1. AsMap = Content
  BY FinalRowsAre DEF IInv
<1>2. /\ stats' = [links   |-> AsStats.links + Cardinality(opposites \ DOMAIN Content),
                   sum     |-> AsStats.sum + Total(answer),
                   selfSum |-> AsStats.selfSum]
      /\ rows' = (IF useMap THEN rows ELSE FinalRows)
      /\ finalized' = (useMap /\ finalized /\ opposites = {})
      /\ behind' = (finalized' /\ behind)
      /\ UNCHANGED <<nodes, released>>
  BY <1>1 DEF UndirectedToDirected, EnsureMapBuild, Answers, Opposites
<1>3. /\ Content' = Plus(Content, answer) /\ useMap' = TRUE /\ TypeInv'
      /\ outWeights' = Plus(out, RowSums(answer))
  BY ConvertEffect
<1>4. WeightsOn(Content, Ids \X Ids) /\ IsFiniteSet(Ids \X Ids) /\ AsStats \in Stats
  BY ContentIsWeights, IdPairsFinite, AsStatsAre DEF IInv
<1>5. WeightsOn(answer, Ids \X Ids) /\ DOMAIN answer = opposites
  BY <1>4, AnswersAre
<1>6. /\ WeightsOn(out, Ids) /\ \A p \in DOMAIN Content : p[1] \in DOMAIN out
      /\ ~released => \A x \in Ids : ValueAt(out, x) = SumIn(Content, From(x))
  BY OutWeightsAre
<1>7. /\ WeightsOn(RowSums(answer), Ids) /\ DOMAIN RowSums(answer) = {p[1] : p \in DOMAIN answer}
      /\ \A x \in Ids : ValueAt(RowSums(answer), x) = SumIn(answer, From(x))
  BY <1>5, RowSumsAre
<1>8. opposites \cap Loops = {}
  <2> SUFFICES ASSUME NEW p \in opposites PROVE p \notin Loops
    OBVIOUS
  <2>1. PICK q \in DOMAIN Content : q[1] # q[2] /\ p = <<q[2], q[1]>>
    BY DEF Opposites
  <2> QED  BY <2>1 DEF Loops
<1> HIDE DEF opposites, answer, out
<1>9. DOMAIN Content' = DOMAIN Content \cup opposites
  BY <1>3, <1>4, <1>5, PlusIs
<1>10. RowsInv'
  <2> SUFFICES ASSUME finalized', ~behind' PROVE rows' = RowsOf(Content', nodes')
    BY DEF RowsInv
  <2>1. useMap /\ finalized /\ ~behind /\ opposites = {}
    BY <1>2
  <2>2. Content' = Content
    BY <1>3, <1>4, <1>5, <2>1, PlusNothing
  <2> QED  BY <1>2, <2>1, <2>2 DEF IInv, RowsInv
<1>11. SourcesInv'
  <2>1. DOMAIN outWeights' = DOMAIN out \cup {p[1] : p \in DOMAIN answer}
    <3>1. DOMAIN Plus(out, RowSums(answer)) = DOMAIN out \cup DOMAIN RowSums(answer)
      BY DEF Plus
    <3> QED  BY <1>3, <1>7, <3>1
  <2> QED  BY <1>5, <1>6, <1>9, <2>1 DEF SourcesInv
<1>12. StatsInv'
  <2> SUFFICES ASSUME ~released
               PROVE  /\ stats'.sum = SumIn(Content', Ids \X Ids)
                      /\ stats'.selfSum = SumIn(Content', Loops)
                      /\ stats'.links = Cardinality(DOMAIN Content')
                      /\ \A x \in Ids : ValueAt(outWeights', x) = SumIn(Content', From(x))
    BY <1>2 DEF StatsInv
  <2>1. /\ AsStats.sum = SumIn(Content, Ids \X Ids) /\ AsStats.selfSum = SumIn(Content, Loops)
        /\ AsStats.links = Cardinality(DOMAIN Content)
    BY AsStatsAre DEF IInv, StatsInv
  <2>2. \A T : SumIn(Content', T) = SumIn(Content, T) + SumIn(answer, T)
    BY <1>3, <1>4, <1>5, PlusSums
  <2>3. SumIn(answer, Ids \X Ids) = Total(answer)
    <3>1. DOMAIN answer \cap (Ids \X Ids) = DOMAIN answer
      BY <1>5 DEF WeightsOn
    <3> QED  BY <3>1 DEF SumIn, SumOver, Total, SumFunction
  <2>4. SumIn(answer, Loops) = 0
    BY <1>5, <1>8, SumEmpty DEF SumIn, SumOver
  <2>5. SumIn(Content, Loops) \in Int
    BY <1>4, SumInType
  <2>6. stats'.links = Cardinality(DOMAIN Content')
    <3>1. IsFiniteSet(DOMAIN Content) /\ IsFiniteSet(opposites)
      BY <1>4, <1>5, WeightsFinite
    <3>2. IsFiniteSet(opposites \ DOMAIN Content)
      BY <3>1, FS_Subset
    <3>3. /\ DOMAIN Content' = DOMAIN Content \cup (opposites \ DOMAIN Content)
          /\ DOMAIN Content \cap (opposites \ DOMAIN Content) = {}
      BY <1>9
    <3> DEFINE new == opposites \ DOMAIN Content
    <3> HIDE DEF new
    <3>4. Cardinality(DOMAIN Content \cup new)
            = Cardinality(DOMAIN Content) + Cardinality(new) - Cardinality(DOMAIN Content \cap new)
      BY <3>1, <3>2, FS_Union DEF new
    <3>5. /\ Cardinality(DOMAIN Content \cap new) = 0
          /\ Cardinality(DOMAIN Content) \in Int /\ Cardinality(new) \in Int
      <4>1. DOMAIN Content \cap new = {}
        BY DEF new
      <4>2. IsFiniteSet(new)
        BY <3>2 DEF new
      <4>3. Cardinality(DOMAIN Content) \in Nat
        BY <3>1, FS_CardinalityType
      <4>4. Cardinality(new) \in Nat
        BY <4>2, FS_CardinalityType
      <4> QED  BY <4>1, <4>3, <4>4, FS_EmptySet
    <3>6. Cardinality(DOMAIN Content') = Cardinality(DOMAIN Content) + Cardinality(new)
      BY <3>3, <3>4, <3>5 DEF new
    <3> QED  BY <1>2, <2>1, <3>6 DEF new
  <2>7. ASSUME NEW x \in Ids PROVE ValueAt(outWeights', x) = SumIn(Content', From(x))
    <3>1. ValueAt(outWeights', x) = ValueAt(out, x) + ValueAt(RowSums(answer), x)
      BY <1>3, <1>6, <1>7, PlusValue
    <3> QED  BY <1>6, <1>7, <2>2, <3>1
  <2> QED  BY <1>2, <2>1, <2>2, <2>3, <2>4, <2>5, <2>6, <2>7
<1> QED  BY <1>3, <1>10, <1>11, <1>12 DEF IInv

LEMMA ClearLinksStep ==
  ASSUME IInv, ClearLinks
  PROVE  IInv'
<1>1. released' = TRUE /\ behind' = TRUE
  BY DEF ClearLinks
<1>2. Content' = <<>> /\ TypeInv'
  BY ClearLinksEffect DEF IInv
<1> QED  BY <1>1, <1>2, NothingSums DEF IInv, RowsInv, SourcesInv, StatsInv

LEMMA ClearStep ==
  ASSUME Clear
  PROVE  IInv'
<1>1. finalized' = FALSE /\ useMap' = FALSE /\ stats' = NoStats
  BY DEF Clear
<1>2. Content' = <<>> /\ TypeInv'
  BY ClearEffect
<1>3. StatsInv'
  BY <1>1, <1>2, NothingSums DEF StatsInv, NoStats
<1> QED  BY <1>1, <1>2, <1>3 DEF IInv, RowsInv, SourcesInv

LEMMA InitStep ==
  ASSUME Init
  PROVE  IInv
<1>1. finalized = FALSE /\ outWeights = <<>> /\ stats = NoStats
  BY DEF Init
<1>2. Content = <<>> /\ TypeInv
  BY InitEffect
<1>3. StatsInv
  <2>1. \A s : ValueAt(<<>>, s) = 0
    BY NothingSums DEF ValueAt
  <2> QED  BY <1>1, <1>2, <2>1, NothingSums DEF StatsInv, NoStats
<1>4. RowsInv /\ SourcesInv
  BY <1>1, <1>2, NothingSums DEF RowsInv, SourcesInv
<1> QED  BY <1>2, <1>3, <1>4 DEF IInv

LEMMA StutterStep ==
  ASSUME UNCHANGED vars
  PROVE  Content' = Content /\ (IInv => IInv')
<1>1. UNCHANGED <<nodes, useMap, finalized, buffer, linkMap, outWeights, rows, stats, released, behind>>
  BY DEF vars, links, history
<1>2. Content' = Content
  BY <1>1 DEF Content
<1> QED  BY <1>1, <1>2 DEF IInv, TypeInv, RowsInv, SourcesInv, StatsInv

LEMMA Step ==
  ASSUME IInv, [Next]_vars
  PROVE  IInv'
<1>1. CASE \E id \in Ids : AddStateNode(id)
  BY <1>1, AddNodeStep
<1>2. CASE \E s, t \in Ids : RemoveLink(s, t)
  BY <1>2, RemoveStep
<1>3. CASE \E s, t \in Ids : \E w \in Weights : AddLink(s, t, w)
  BY <1>3, AddLinkStep
<1>4. CASE UndirectedToDirected
  BY <1>4, ConvertStep
<1>5. CASE ReadLinks
  BY <1>5, ReadStep
<1>6. CASE ClearLinks
  BY <1>6, ClearLinksStep
<1>7. CASE Clear
  BY <1>7, ClearStep
<1>8. CASE UNCHANGED vars
  BY <1>8, StutterStep
<1> QED  BY <1>1, <1>2, <1>3, <1>4, <1>5, <1>6, <1>7, <1>8 DEF Next

LEMMA Inductive == Spec => []IInv
<1>1. Init => IInv
  BY InitStep
<1>2. IInv /\ [Next]_vars => IInv'
  BY Step
<1> QED  BY <1>1, <1>2, PTL DEF Spec

(***************************************************************************)
(* Whatever sequence of additions, reads, removals, conversions and clears *)
(* the host makes, the four places that keep the statistics by hand --     *)
(* addLink in either mode, the merge of the buffer, ensureMapBuild,        *)
(* removeLink and undirectedToDirected -- agree with the links, until the  *)
(* links are released.                                                     *)
(***************************************************************************)
THEOREM StatisticsCorrect == Spec => []StatisticsExact
<1>1. IInv => StatisticsExact
  <2> SUFFICES ASSUME IInv, ~released
               PROVE  /\ stats.sum = Total(Content)
                      /\ stats.selfSum = SumOver({p \in DOMAIN Content : p[1] = p[2]}, Content)
                      /\ useMap \/ finalized => stats.links = Cardinality(DOMAIN Content)
                      /\ useMap => \A s \in nodes : ValueAt(outWeights, s) = ValueAt(RowSums(Content), s)
    BY DEF StatisticsExact
  <2>1. WeightsOn(Content, Ids \X Ids)
    BY ContentIsWeights DEF IInv
  <2>2. stats.sum = Total(Content)
    <3>1. DOMAIN Content \cap (Ids \X Ids) = DOMAIN Content
      BY <2>1 DEF WeightsOn
    <3> QED  BY <3>1 DEF IInv, StatsInv, SumIn, SumOver, Total, SumFunction
  <2>3. stats.selfSum = SumOver({p \in DOMAIN Content : p[1] = p[2]}, Content)
    <3>1. DOMAIN Content \cap Loops = {p \in DOMAIN Content : p[1] = p[2]}
      BY <2>1 DEF WeightsOn, Loops
    <3> QED  BY <3>1 DEF IInv, StatsInv, SumIn
  <2>4. ASSUME useMap, NEW s \in nodes PROVE ValueAt(outWeights, s) = ValueAt(RowSums(Content), s)
    <3>1. s \in Ids
      BY DEF IInv, TypeInv
    <3>2. ValueAt(RowSums(Content), s) = SumIn(Content, From(s))
      BY <2>1, <3>1, RowSumsAre
    <3> QED  BY <2>4, <3>1, <3>2 DEF IInv, StatsInv
  <2> QED  BY <2>2, <2>3, <2>4 DEF IInv, StatsInv
<1> QED  BY <1>1, Inductive, PTL

(***************************************************************************)
(* The rows that the flow is computed on name every node in order and hold *)
(* exactly the links, by whatever way the links came into them: merged     *)
(* from a buffer, re-opened and merged again, or copied from the map.      *)
(***************************************************************************)
THEOREM RowsCorrect == Spec => []RowsAreTheLinks
<1>1. IInv => RowsAreTheLinks
  <2> SUFFICES ASSUME IInv, finalized, ~behind
               PROVE  rows.ids = Sorted(nodes, IdOrder) /\ LinksOfRows(rows) = Content
    BY DEF RowsAreTheLinks
  <2>1. rows = RowsOf(Content, nodes)
    BY DEF IInv, RowsInv
  <2>2. nodes \in SUBSET Ids /\ WeightsOn(Content, nodes \X nodes)
    BY DEF IInv, TypeInv
  <2> QED  BY <2>1, <2>2, LinksReadBack
<1> QED  BY <1>1, Inductive, PTL

-----------------------------------------------------------------------------
(***************************************************************************)
(* The refinement.                                                         *)
(***************************************************************************)
LEMMA GraphPlus ==
  /\ \A f, g : Graph!Plus(f, g) = Plus(f, g)
  /\ \A x, w : Graph!Only(x, w) = Only(x, w)
<1>1. \A f, x : Graph!ValueAt(f, x) = ValueAt(f, x)
  BY DEF Graph!ValueAt, ValueAt
<1> QED  BY <1>1 DEF Graph!Plus, Plus, Graph!Only, Only

LEMMA GraphStep ==
  ASSUME IInv, [Next]_vars
  PROVE  [Graph!Next]_(Graph!graph)
<1>1. ASSUME NEW id \in Ids, AddStateNode(id) PROVE Graph!Next
  <2>1. nodes' = nodes \cup {id} /\ Content' = Content
    BY <1>1, AddNodeEffect DEF IInv, AddStateNode
  <2> QED  BY <2>1 DEF Graph!Next, Graph!AddNode
<1>2. ASSUME NEW s \in Ids, NEW t \in Ids, RemoveLink(s, t) PROVE Graph!Next \/ UNCHANGED Graph!graph
  <2>1. nodes' = nodes
    BY <1>2 DEF RemoveLink
  <2>2. Content' = LinksWithout(s, t) /\ (<<s, t>> \notin DOMAIN Content => Content' = Content)
    BY <1>2, RemoveEffect
  <2>3. CASE <<s, t>> \in DOMAIN Content
    <3>1. Graph!RemoveLink(s, t)
      BY <2>1, <2>2, <2>3 DEF Graph!RemoveLink, LinksWithout, Restrict, Graph!Restrict
    <3> QED  BY <3>1 DEF Graph!Next
  <2>4. CASE <<s, t>> \notin DOMAIN Content
    BY <2>1, <2>2, <2>4 DEF Graph!graph
  <2> QED  BY <2>3, <2>4
<1>3. ASSUME NEW s \in Ids, NEW t \in Ids, NEW w \in Weights, AddLink(s, t, w) PROVE Graph!Next
  <2>1. nodes' = nodes \cup {s, t}
    BY <1>3 DEF AddLink
  <2>2. Content' = Plus(Content, Only(<<s, t>>, w)) /\ w # 0
    BY <1>3, AddLinkEffect DEF IInv
  <2>3. Graph!AddLink(s, t, w)
    BY <2>1, <2>2, GraphPlus DEF Graph!AddLink
  <2> QED  BY <2>2, <2>3 DEF Graph!Next
<1>4. ASSUME UndirectedToDirected PROVE Graph!Next
  <2>1. nodes' = nodes
    BY <1>4 DEF UndirectedToDirected
  <2>2. Content' = Plus(Content, Answers(Content))
    BY <1>4, ConvertEffect
  <2>3. Graph!Symmetrise
    BY <2>1, <2>2, GraphPlus DEF Graph!Symmetrise, Answers, Opposites
  <2> QED  BY <2>3 DEF Graph!Next
<1>5. ASSUME ReadLinks PROVE UNCHANGED Graph!graph
  <2>1. nodes' = nodes
    BY <1>5 DEF ReadLinks
  <2>2. Content' = Content
    BY <1>5, ReadEffect DEF IInv
  <2> QED  BY <2>1, <2>2 DEF Graph!graph
<1>6. ASSUME ClearLinks PROVE Graph!Next
  <2>1. nodes' = nodes
    BY <1>6 DEF ClearLinks
  <2>2. Content' = <<>>
    BY <1>6, ClearLinksEffect DEF IInv
  <2> QED  BY <2>1, <2>2 DEF Graph!Next, Graph!ClearLinks
<1>7. ASSUME Clear PROVE Graph!Next
  <2>1. nodes' = {}
    BY <1>7 DEF Clear
  <2>2. Content' = <<>>
    BY <1>7, ClearEffect
  <2> QED  BY <2>1, <2>2 DEF Graph!Next, Graph!Clear
<1>8. ASSUME UNCHANGED vars PROVE UNCHANGED Graph!graph
  <2>1. nodes' = nodes
    BY <1>8 DEF vars
  <2>2. Content' = Content
    BY <1>8, StutterStep
  <2> QED  BY <2>1, <2>2 DEF Graph!graph
<1> QED  BY <1>1, <1>2, <1>3, <1>4, <1>5, <1>6, <1>7, <1>8 DEF Next

(***************************************************************************)
(* Through buffer, rows and map the network is a weighted graph: every     *)
(* accepted weight is added to its ordered pair once, reading and changing *)
(* mode lose and add nothing, a removal takes the whole weight of one      *)
(* pair, and undirectedToDirected answers each link once.                  *)
(***************************************************************************)
THEOREM NetworkIsAGraph == Spec => ImplementsWeightedGraph
<1>1. Init => Graph!Init
  <2> SUFFICES ASSUME Init PROVE nodes = {} /\ Content = <<>>
    BY DEF Graph!Init
  <2> QED  BY InitEffect DEF Init
<1>2. IInv /\ [Next]_vars => [Graph!Next]_(Graph!graph)
  BY GraphStep
<1> QED  BY <1>1, <1>2, Inductive, PTL DEF Spec, ImplementsWeightedGraph, Graph!Spec
=============================================================================
