---------------------------- MODULE Moves_proofs ----------------------------
(***************************************************************************)
(* Proofs about Partition, ModuleMoves and ParallelMoves, for every        *)
(* network, every set of predefined modules and every sequence of sweeps.  *)
(* First what a move does to the member counts, to the stack of empty      *)
(* modules and to the modules' flow, with the facts about sums over finite *)
(* sets that the flow rests on; then the theorems about the serial         *)
(* optimiser; last, on the same lemmas, those about the parallel sweep,    *)
(* for every order in which threads evaluate nodes and proposals are       *)
(* committed.                                                              *)
(***************************************************************************)
EXTENDS ParallelMoves, FiniteSetTheorems, TLAPS

(***************************************************************************)
(* Sums over finite sets. SumFunctionOnSet is defined by recursion over    *)
(* subsets, through a function chosen to satisfy its equation: that there  *)
(* is one, and only one, has to be shown before anything is said of a sum. *)
(***************************************************************************)
\* One step of SumFunctionOnSet, which is a recursive function on the subsets of a set.
SumStep(f, g, s) ==
  IF s = {} THEN 0 ELSE f[CHOOSE x \in s : TRUE] + g[s \ {CHOOSE x \in s : TRUE}]

\* g is that function, on a family of subsets.
Sums(f, F, g) == g = [s \in F |-> SumStep(f, g, s)]

\* A set of natural numbers has a least one.
LEMMA LeastNatural ==
  ASSUME NEW N \in SUBSET Nat, N # {}
  PROVE  \E n \in N : n = 0 \/ n - 1 \in Nat \ N
<1>1. PICK m \in N : TRUE
  OBVIOUS
<1>2. IsFiniteSet(0..m) /\ IsWellFoundedOn(StrictSubsetOrdering(0..m), SUBSET (0..m))
  <2>1. IsFiniteSet(0..m)
    BY FS_Interval
  <2>2. FiniteSubsetsOf(0..m) = SUBSET (0..m)
    BY <2>1, FS_FiniteSubsetsOfFinite
  <2> QED  BY <2>1, <2>2, FS_StrictSubsetOrderingWellFounded
<1> DEFINE T == {0..n : n \in {k \in N : k <= m}}
<1>3. T \subseteq SUBSET (0..m) /\ T # {}
  BY <1>1
<1>4. PICK x \in T : \A y \in T : ~(<<y, x>> \in StrictSubsetOrdering(0..m))
  BY <1>2, <1>3, WFMin
<1>5. PICK n \in N : n <= m /\ x = 0..n
  BY <1>4
<1>6. CASE n = 0
  BY <1>6
<1>7. CASE n # 0 /\ n - 1 \in N
  <2>1. 0..(n - 1) \in T
    BY <1>5, <1>7
  <2>2. 0..(n - 1) \subseteq 0..n /\ n \in 0..n /\ n \notin 0..(n - 1)
    BY <1>5
  <2>3. 0..(n - 1) # 0..n
    BY <2>2
  <2>4. <<0..(n - 1), 0..n>> \in StrictSubsetOrdering(0..m)
    BY <1>3, <1>5, <2>1, <2>2, <2>3 DEF StrictSubsetOrdering
  <2> QED  BY <1>4, <1>5, <2>1, <2>4
<1> QED  BY <1>5, <1>6, <1>7

\* The recursive function exists: by the size of the subsets it is defined on.
LEMMA SumsExist ==
  ASSUME NEW f, NEW S, IsFiniteSet(S)
  PROVE  \E g : Sums(f, SUBSET S, g)
<1> DEFINE Small(n) == {s \in SUBSET S : Cardinality(s) <= n}
           Bad == {n \in Nat : ~ \E g : Sums(f, Small(n), g)}
<1>1. \A s \in SUBSET S : IsFiniteSet(s) /\ Cardinality(s) \in Nat
  BY FS_Subset, FS_CardinalityType
<1>2. Bad = {}
  <2> SUFFICES ASSUME Bad # {} PROVE FALSE
    OBVIOUS
  <2>1. PICK n \in Bad : n = 0 \/ n - 1 \in Nat \ Bad
    BY LeastNatural
  <2>2. CASE n = 0
    <3>1. \A s \in Small(0) : s = {}
      <4> TAKE s \in Small(0)
      <4>1. IsFiniteSet(s) /\ Cardinality(s) = 0
        BY <1>1
      <4> QED  BY <4>1, FS_EmptySet
    <3>2. Sums(f, Small(0), [s \in Small(0) |-> 0])
      BY <3>1 DEF Sums, SumStep
    <3> QED  BY <2>1, <2>2, <3>2
  <2>3. CASE n # 0
    <3>1. n \in Nat /\ n - 1 \in Nat
      BY <2>1, <2>3
    <3>2. PICK g : Sums(f, Small(n - 1), g)
      BY <2>1, <2>3
    <3> DEFINE h == [s \in Small(n) |-> SumStep(f, g, s)]
    <3>3. ASSUME NEW s \in Small(n) PROVE h[s] = SumStep(f, h, s)
      <4>1. CASE s = {}
        BY <3>3, <4>1 DEF SumStep
      <4>2. CASE s # {}
        <5> DEFINE x == CHOOSE y \in s : TRUE
                   r == s \ {x}
        <5>1. x \in s
          BY <4>2
        <5>2. IsFiniteSet(s) /\ Cardinality(s) \in Nat /\ Cardinality(s) <= n
          BY <1>1
        <5> HIDE DEF x
        <5>3. Cardinality(r) = Cardinality(s) - 1
          BY <5>1, <5>2, FS_RemoveElement
        <5>4. r \in Small(n - 1) /\ r \in Small(n)
          BY <1>1, <3>1, <5>2, <5>3
        <5>5. g[r] = SumStep(f, g, r) /\ h[r] = SumStep(f, g, r)
          <6>1. g = [t \in Small(n - 1) |-> SumStep(f, g, t)]
            BY <3>2 DEF Sums
          <6> HIDE DEF r, Small
          <6> QED  BY <5>4, <6>1, Zenon
        <5>6. SumStep(f, h, s) = f[x] + h[r] /\ SumStep(f, g, s) = f[x] + g[r]
          BY <4>2 DEF SumStep, x
        <5> QED  BY <5>5, <5>6
      <4> QED  BY <4>1, <4>2
    <3>4. Sums(f, Small(n), h)
      <4>1. h = [s \in Small(n) |-> h[s]]
        OBVIOUS
      <4> HIDE DEF h, Small
      <4> QED  BY <3>3, <4>1, Zenon DEF Sums
    <3> QED  BY <2>1, <3>4
  <2> QED  BY <2>2, <2>3
<1>3. Cardinality(S) \in Nat
  BY <1>1
<1>4. Small(Cardinality(S)) = SUBSET S
  BY FS_Subset, <1>3
<1> QED  BY <1>2, <1>3, <1>4

\* Induction over the subsets of a finite set, for a set of subsets.
LEMMA SubsetInduction ==
  ASSUME NEW S, IsFiniteSet(S), NEW P,
         \A s \in SUBSET S : (\A x \in s : s \ {x} \in P) => s \in P
  PROVE  SUBSET S \subseteq P
<1> DEFINE Bad == (SUBSET S) \ P
<1> SUFFICES ASSUME Bad # {} PROVE FALSE
  OBVIOUS
<1>1. IsWellFoundedOn(StrictSubsetOrdering(S), SUBSET S)
  <2>1. FiniteSubsetsOf(S) = SUBSET S
    BY FS_FiniteSubsetsOfFinite
  <2>2. IsWellFoundedOn(StrictSubsetOrdering(S), FiniteSubsetsOf(S))
    BY FS_StrictSubsetOrderingWellFounded
  <2> QED  BY <2>1, <2>2
<1>2. PICK s \in Bad : \A y \in Bad : ~(<<y, s>> \in StrictSubsetOrdering(S))
  <2>1. Bad \subseteq SUBSET S
    OBVIOUS
  <2> HIDE DEF Bad
  <2> QED  BY <1>1, <2>1, WFMin
<1>3. \A x \in s : s \ {x} \in P
  <2> TAKE x \in s
  <2>1. <<s \ {x}, s>> \in StrictSubsetOrdering(S)
    BY <1>2 DEF StrictSubsetOrdering
  <2> QED  BY <1>2, <2>1
<1> QED  BY <1>2, <1>3

\* Two such functions agree on the subsets both are defined on.
LEMMA SumsAgree ==
  ASSUME NEW f, NEW S, IsFiniteSet(S), NEW T \in SUBSET S, NEW g, NEW h,
         Sums(f, SUBSET S, g), Sums(f, SUBSET T, h)
  PROVE  g[T] = h[T]
<1> DEFINE P == {s \in SUBSET T : g[s] = h[s]}
<1>1. ASSUME NEW s \in SUBSET T, \A x \in s : s \ {x} \in P PROVE s \in P
  <2>1. g[s] = SumStep(f, g, s) /\ h[s] = SumStep(f, h, s)
    <3>1. s \in SUBSET S
      OBVIOUS
    <3> QED  BY <3>1, Zenon DEF Sums
  <2>2. CASE s = {}
    BY <2>1, <2>2 DEF SumStep
  <2>3. CASE s # {}
    <3> DEFINE x == CHOOSE y \in s : TRUE
    <3>1. x \in s
      BY <2>3
    <3>2. SumStep(f, g, s) = f[x] + g[s \ {x}] /\ SumStep(f, h, s) = f[x] + h[s \ {x}]
      BY <2>3 DEF SumStep
    <3> HIDE DEF x
    <3> QED  BY <1>1, <2>1, <3>1, <3>2
  <2> QED  BY <2>2, <2>3
<1>2. IsFiniteSet(T)
  BY FS_Subset
<1>3. SUBSET T \subseteq P
  <2> HIDE DEF P
  <2> QED  BY <1>1, <1>2, SubsetInduction
<1> QED  BY <1>3

LEMMA SumIsRecursive ==
  ASSUME NEW f, NEW S, IsFiniteSet(S)
  PROVE  \E g : /\ Sums(f, SUBSET S, g)
                /\ \A T \in SUBSET S : SumFunctionOnSet(f, T) = g[T]
<1>1. ASSUME NEW T, IsFiniteSet(T)
      PROVE  \E h : Sums(f, SUBSET T, h) /\ SumFunctionOnSet(f, T) = h[T]
  <2> DEFINE h == CHOOSE h : h = [s \in SUBSET T |-> SumStep(f, h, s)]
  <2>1. SumFunctionOnSet(f, T) = h[T]
    BY DEF SumFunctionOnSet, FoldFunctionOnSet, MapThenFoldSet, SumStep
  <2>2. \E k : k = [s \in SUBSET T |-> SumStep(f, k, s)]
    BY <1>1, SumsExist DEF Sums
  <2>3. h = [s \in SUBSET T |-> SumStep(f, h, s)]
    BY <2>2, Zenon
  <2> HIDE DEF h
  <2> QED  BY <2>1, <2>3 DEF Sums
<1>2. PICK g : Sums(f, SUBSET S, g)
  BY SumsExist
<1>3. ASSUME NEW T \in SUBSET S PROVE SumFunctionOnSet(f, T) = g[T]
  <2>1. PICK h : Sums(f, SUBSET T, h) /\ SumFunctionOnSet(f, T) = h[T]
    BY <1>1, FS_Subset
  <2> QED  BY <1>2, <2>1, SumsAgree
<1> QED  BY <1>2, <1>3

-----------------------------------------------------------------------------
\* f is integer on S.
Integral(f, S) == \A x \in S : f[x] \in Int

LEMMA SumEmpty == \A f : SumFunctionOnSet(f, {}) = 0
<1> TAKE f
<1>1. PICK g : Sums(f, SUBSET {}, g) /\ \A T \in SUBSET {} : SumFunctionOnSet(f, T) = g[T]
  BY SumIsRecursive, FS_EmptySet
<1>2. g[{}] = SumStep(f, g, {})
  BY <1>1, Zenon DEF Sums
<1> QED  BY <1>1, <1>2 DEF SumStep

LEMMA SumIsInteger ==
  ASSUME NEW f, NEW S, IsFiniteSet(S), Integral(f, S)
  PROVE  SumFunctionOnSet(f, S) \in Int
<1>1. PICK g : Sums(f, SUBSET S, g) /\ \A T \in SUBSET S : SumFunctionOnSet(f, T) = g[T]
  BY SumIsRecursive
<1> DEFINE P == {s \in SUBSET S : g[s] \in Int}
<1>2. ASSUME NEW s \in SUBSET S, \A x \in s : s \ {x} \in P PROVE s \in P
  <2>1. g[s] = SumStep(f, g, s)
    BY <1>1, Zenon DEF Sums
  <2>2. CASE s = {}
    BY <2>1, <2>2 DEF SumStep
  <2>3. CASE s # {}
    <3> DEFINE x == CHOOSE y \in s : TRUE
    <3>1. x \in s
      BY <2>3
    <3>2. g[s] = f[x] + g[s \ {x}]
      BY <2>1, <2>3 DEF SumStep
    <3> HIDE DEF x
    <3> QED  BY <1>2, <3>1, <3>2 DEF Integral
  <2> QED  BY <2>2, <2>3
<1>3. SUBSET S \subseteq P
  <2> HIDE DEF P
  <2> QED  BY <1>2, SubsetInduction
<1> QED  BY <1>1, <1>3

\* Any element may be taken out first.
LEMMA SumWithout ==
  ASSUME NEW f, NEW S, IsFiniteSet(S), Integral(f, S), NEW a \in S
  PROVE  SumFunctionOnSet(f, S) = f[a] + SumFunctionOnSet(f, S \ {a})
<1>1. PICK g : Sums(f, SUBSET S, g) /\ \A T \in SUBSET S : SumFunctionOnSet(f, T) = g[T]
  BY SumIsRecursive
<1>2. \A s \in SUBSET S : g[s] \in Int
  <2> TAKE s \in SUBSET S
  <2>1. IsFiniteSet(s) /\ Integral(f, s)
    BY FS_Subset DEF Integral
  <2> QED  BY <1>1, <2>1, SumIsInteger
<1> DEFINE P == {s \in SUBSET S : \A x \in s : g[s] = f[x] + g[s \ {x}]}
<1>3. ASSUME NEW s \in SUBSET S, \A x \in s : s \ {x} \in P PROVE s \in P
  <2> SUFFICES ASSUME NEW x \in s PROVE g[s] = f[x] + g[s \ {x}]
    OBVIOUS
  <2> DEFINE c == CHOOSE y \in s : TRUE
  <2>1. c \in s
    OBVIOUS
  <2>2. g[s] = f[c] + g[s \ {c}]
    <3>1. g[s] = SumStep(f, g, s)
      BY <1>1, Zenon DEF Sums
    <3> QED  BY <3>1 DEF SumStep
  <2> HIDE DEF c
  <2>3. CASE x = c
    BY <2>2, <2>3
  <2>4. CASE x # c
    <3>1. g[s \ {c}] = f[x] + g[(s \ {c}) \ {x}]
      BY <1>3, <2>1, <2>4
    <3>2. g[s \ {x}] = f[c] + g[(s \ {x}) \ {c}]
      BY <1>3, <2>1, <2>4
    <3>3. (s \ {c}) \ {x} = (s \ {x}) \ {c}
      OBVIOUS
    <3> DEFINE r == (s \ {x}) \ {c}
    <3>4. f[x] \in Int /\ f[c] \in Int /\ g[r] \in Int
      BY <1>2, <2>1 DEF Integral
    <3> HIDE DEF r
    <3>5. g[s \ {c}] = f[x] + g[r] /\ g[s \ {x}] = f[c] + g[r]
      BY <3>1, <3>2, <3>3 DEF r
    <3> QED  BY <2>2, <3>4, <3>5
  <2> QED  BY <2>3, <2>4
<1>4. SUBSET S \subseteq P
  <2> HIDE DEF P
  <2> QED  BY <1>3, SubsetInduction
<1>5. g[S] = f[a] + g[S \ {a}]
  BY <1>4
<1> QED  BY <1>1, <1>5

LEMMA SumSingle ==
  ASSUME NEW f, NEW a, f[a] \in Int
  PROVE  SumFunctionOnSet(f, {a}) = f[a]
<1>1. IsFiniteSet({a}) /\ Integral(f, {a}) /\ {a} \ {a} = {}
  BY FS_Singleton DEF Integral
<1>2. SumFunctionOnSet(f, {a}) = f[a] + SumFunctionOnSet(f, {a} \ {a})
  BY <1>1, SumWithout
<1> QED  BY <1>1, <1>2, SumEmpty

\* Disjoint sets add up.
LEMMA SumUnion ==
  ASSUME NEW f, NEW S, NEW T, IsFiniteSet(S), IsFiniteSet(T), S \cap T = {},
         Integral(f, S), Integral(f, T)
  PROVE  SumFunctionOnSet(f, S \cup T) = SumFunctionOnSet(f, S) + SumFunctionOnSet(f, T)
<1> DEFINE Sum(U) == SumFunctionOnSet(f, U)
           P == {s \in SUBSET S : Sum(s \cup T) = Sum(s) + Sum(T)}
<1>1. \A s \in SUBSET S : /\ IsFiniteSet(s) /\ Integral(f, s) /\ Sum(s) \in Int
                          /\ IsFiniteSet(s \cup T) /\ Integral(f, s \cup T)
  <2> TAKE s \in SUBSET S
  <2>1. IsFiniteSet(s) /\ IsFiniteSet(s \cup T)
    BY FS_Subset, FS_Union
  <2>2. Integral(f, s) /\ Integral(f, s \cup T)
    BY DEF Integral
  <2> QED  BY <2>1, <2>2, SumIsInteger
<1>2. Sum(T) \in Int
  BY SumIsInteger
<1>3. ASSUME NEW s \in SUBSET S, \A x \in s : s \ {x} \in P PROVE s \in P
  <2>1. CASE s = {}
    <3>1. s \cup T = T
      BY <2>1
    <3>2. Sum(s) = 0
      BY <2>1, SumEmpty
    <3> QED  BY <1>2, <3>1, <3>2
  <2>2. CASE s # {}
    <3>1. PICK x \in s : TRUE
      BY <2>2
    <3>2. (s \cup T) \ {x} = (s \ {x}) \cup T
      OBVIOUS
    <3>3. Sum(s) = f[x] + Sum(s \ {x})
      <4>1. IsFiniteSet(s) /\ Integral(f, s)
        BY <1>1
      <4> QED  BY <4>1, SumWithout
    <3>4. Sum(s \cup T) = f[x] + Sum((s \ {x}) \cup T)
      <4>1. IsFiniteSet(s \cup T) /\ Integral(f, s \cup T)
        BY <1>1
      <4>2. Sum(s \cup T) = f[x] + Sum((s \cup T) \ {x})
        BY <4>1, SumWithout
      <4> QED  BY <3>2, <4>2
    <3>5. Sum((s \ {x}) \cup T) = Sum(s \ {x}) + Sum(T)
      BY <1>3
    <3>6. f[x] \in Int /\ Sum(s \ {x}) \in Int
      <4>1. s \ {x} \in SUBSET S
        OBVIOUS
      <4> QED  BY <1>1, <4>1 DEF Integral
    <3> HIDE DEF Sum
    <3>7. Sum(s \cup T) = Sum(s) + Sum(T)
      BY <1>2, <3>3, <3>4, <3>5, <3>6
    <3> QED  BY <3>7
  <2> QED  BY <2>1, <2>2
<1>4. SUBSET S \subseteq P
  <2> HIDE DEF P
  <2> QED  BY <1>3, SubsetInduction
<1> QED  BY <1>4

\* A sum of even numbers is even.
LEMMA SumIsEven ==
  ASSUME NEW f, NEW S, IsFiniteSet(S), Integral(f, S), \A x \in S : f[x] % 2 = 0
  PROVE  SumFunctionOnSet(f, S) % 2 = 0
<1> DEFINE Sum(U) == SumFunctionOnSet(f, U)
           P == {s \in SUBSET S : Sum(s) % 2 = 0}
<1>1. ASSUME NEW s \in SUBSET S, \A x \in s : s \ {x} \in P PROVE s \in P
  <2>1. CASE s = {}
    BY <2>1, SumEmpty
  <2>2. CASE s # {}
    <3>1. PICK x \in s : TRUE
      BY <2>2
    <3>2. /\ IsFiniteSet(s) /\ Integral(f, s)
          /\ IsFiniteSet(s \ {x}) /\ Integral(f, s \ {x})
      BY FS_Subset DEF Integral
    <3>3. Sum(s) = f[x] + Sum(s \ {x}) /\ Sum(s \ {x}) \in Int /\ f[x] \in Int
      BY <3>2, SumWithout, SumIsInteger DEF Integral
    <3>4. Sum(s \ {x}) % 2 = 0 /\ f[x] % 2 = 0
      BY <1>1
    <3> HIDE DEF Sum
    <3>5. Sum(s) % 2 = 0
      BY <3>3, <3>4
    <3> QED  BY <3>5
  <2> QED  BY <2>1, <2>2
<1>2. SUBSET S \subseteq P
  <2> HIDE DEF P
  <2> QED  BY <1>1, SubsetInduction
<1> QED  BY <1>2

-----------------------------------------------------------------------------
(***************************************************************************)
(* Member counts and the stack of empty modules.                           *)
(***************************************************************************)
\* The counts are those of the modules.
MembersExact(p) == \A m \in Modules : p.members[m] = Cardinality(Members(p, m))

LEMMA NodesFinite ==
  /\ IsFiniteSet(Nodes)
  /\ \A S \in SUBSET Nodes : IsFiniteSet(S) /\ Cardinality(S) \in Nat
<1>1. IsFiniteSet(Nodes)
  BY SizeAssumption, FS_Interval DEF Nodes
<1> QED  BY <1>1, FS_Subset, FS_CardinalityType

\* A node that moves leaves one set of members and joins another.
LEMMA MembersAfter ==
  ASSUME NEW p, NEW q, p.index \in [Nodes -> Modules],
         NEW n \in Nodes, NEW newM \in Modules, newM # p.index[n],
         q.index = [p.index EXCEPT ![n] = newM]
  PROVE  /\ Members(q, p.index[n]) = Members(p, p.index[n]) \ {n}
         /\ Members(q, newM) = Members(p, newM) \cup {n}
         /\ \A m \in Modules \ {p.index[n], newM} : Members(q, m) = Members(p, m)
         /\ n \in Members(p, p.index[n]) /\ n \notin Members(p, newM)
  BY DEF Members

\* q is p after node n has moved, and what is then said of the counts.
Moves(p, q, n, newM) ==
  /\ q.index = [p.index EXCEPT ![n] = newM]
  /\ q.members = MoveMembers(p.members, p.index[n], newM)

MovedCounts(p, q, oldM, newM) ==
  /\ q.index \in [Nodes -> Modules] /\ q.members \in [Modules -> Nat]
  /\ MembersExact(q)
  /\ p.members[oldM] >= 1
  /\ q.members[oldM] = p.members[oldM] - 1
  /\ q.members[newM] = p.members[newM] + 1
  /\ \A m \in Modules \ {oldM, newM} : q.members[m] = p.members[m]

\* What one move does to the number of nodes of two modules.
LEMMA MembersMove ==
  ASSUME NEW p, NEW q, p.index \in [Nodes -> Modules], p.members \in [Modules -> Nat],
         MembersExact(p), NEW n \in Nodes, NEW newM \in Modules, newM # p.index[n],
         Moves(p, q, n, newM)
  PROVE  MovedCounts(p, q, p.index[n], newM)
<1> USE DEF Moves
<1> DEFINE oldM == p.index[n]
<1>1. oldM \in Modules /\ \A m \in Modules : p.members[m] \in Nat
  OBVIOUS
<1>2. \A m \in Modules : Members(p, m) \in SUBSET Nodes /\ Members(q, m) \in SUBSET Nodes
  BY DEF Members
<1>a. /\ Members(q, oldM) = Members(p, oldM) \ {n}
      /\ Members(q, newM) = Members(p, newM) \cup {n}
      /\ \A m \in Modules \ {oldM, newM} : Members(q, m) = Members(p, m)
      /\ n \in Members(p, oldM) /\ n \notin Members(p, newM)
  BY MembersAfter
<1>b. \A m \in Modules : IsFiniteSet(Members(p, m))
  BY <1>2, NodesFinite
<1> HIDE DEF oldM
<1>3. Cardinality(Members(p, oldM) \ {n}) = Cardinality(Members(p, oldM)) - 1
  BY <1>1, <1>a, <1>b, FS_RemoveElement
<1>4. Cardinality(Members(p, newM) \cup {n}) = Cardinality(Members(p, newM)) + 1
  BY <1>a, <1>b, FS_AddElement
<1>5. Cardinality(Members(p, oldM) \ {n}) \in Nat
  BY <1>1, <1>2, NodesFinite
<1>6. /\ q.members[oldM] = p.members[oldM] - 1
      /\ q.members[newM] = p.members[newM] + 1
      /\ \A m \in Modules \ {oldM, newM} : q.members[m] = p.members[m]
      /\ DOMAIN q.members = Modules
      /\ q.members = [m \in Modules |-> q.members[m]]
  BY <1>1 DEF MoveMembers, oldM
<1>7. p.members[oldM] >= 1
  BY <1>1, <1>3, <1>5 DEF MembersExact
<1>8. \A m \in Modules : q.members[m] \in Nat
  BY <1>1, <1>6, <1>7
<1>9. MembersExact(q)
  <2> SUFFICES ASSUME NEW m \in Modules PROVE q.members[m] = Cardinality(Members(q, m))
    BY DEF MembersExact
  <2>0. \A k \in Modules : p.members[k] = Cardinality(Members(p, k))
    BY DEF MembersExact
  <2>1. CASE m = oldM
    BY <1>1, <1>3, <1>6, <1>a, <2>0, <2>1
  <2>2. CASE m = newM
    BY <1>4, <1>6, <1>a, <2>0, <2>2
  <2>3. CASE m \notin {oldM, newM}
    BY <1>6, <1>a, <2>0, <2>3
  <2> QED  BY <2>1, <2>2, <2>3
<1>10. q.index \in [Nodes -> Modules]
  OBVIOUS
<1> QED  BY <1>6, <1>7, <1>8, <1>9, <1>10 DEF oldM, MovedCounts

\* A move pops the module it joins and pushes the one it empties.
LEMMA MoveCounts ==
  ASSUME NEW p, CountTypes(p), Counted(p),
         NEW n \in Nodes, NEW newM \in Modules, newM # p.index[n]
  PROVE  CountTypes(Move(p, n, newM)) /\ Counted(Move(p, n, newM))
<1> DEFINE q == Move(p, n, newM)
           oldM == p.index[n]
           E == EmptyModules(p)
           joined == IF p.members[newM] = 0 THEN E \ {newM} ELSE E
           popped == IF p.members[newM] = 0 THEN Pop(p.empty) ELSE p.empty
<1>1. /\ q.index = [p.index EXCEPT ![n] = newM]
      /\ q.members = MoveMembers(p.members, oldM, newM)
      /\ q.empty = MoveEmpty(p, oldM, newM)
  BY DEF Move
<1>2. p.index \in [Nodes -> Modules] /\ p.members \in [Modules -> Nat] /\ p.empty \in Seq(Modules)
  BY DEF CountTypes
<1>3. MembersExact(p)
  BY DEF Counted, MembersExact
<1>4. /\ q.index \in [Nodes -> Modules] /\ q.members \in [Modules -> Nat] /\ MembersExact(q)
      /\ p.members[oldM] >= 1
      /\ q.members[oldM] = p.members[oldM] - 1
      /\ q.members[newM] = p.members[newM] + 1
      /\ \A m \in Modules \ {oldM, newM} : q.members[m] = p.members[m]
  <2>1. Moves(p, q, n, newM)
    BY <1>1 DEF Moves
  <2>2. MovedCounts(p, q, oldM, newM)
    <3> HIDE DEF q
    <3> QED  BY <1>2, <1>3, <2>1, MembersMove
  <2> QED  BY <2>2 DEF MovedCounts
<1>5. oldM \in Modules /\ E \in SUBSET Nodes /\ IsFiniteSet(E) /\ Len(p.empty) = Cardinality(E)
  BY <1>2, NodesFinite DEF EmptyModules, Modules, Counted
<1>6. EmptyModules(q) = IF p.members[oldM] = 1 THEN joined \cup {oldM} ELSE joined
  <2>1. \A m \in Modules : q.members[m] = 0 <=>
           \/ m = oldM /\ p.members[oldM] = 1
           \/ m \notin {oldM, newM} /\ p.members[m] = 0
    BY <1>2, <1>4, <1>5
  <2>2. \A m \in Modules : m \in E <=> p.members[m] = 0
    BY DEF EmptyModules
  <2>3. oldM \notin E
    BY <1>2, <1>4, <2>2
  <2>4. \A m \in Modules : m \in EmptyModules(q) <=> q.members[m] = 0
    BY DEF EmptyModules
  <2>5. EmptyModules(q) \subseteq Modules /\ E \subseteq Modules
    BY DEF EmptyModules
  <2> HIDE DEF q, E
  <2> QED  BY <1>5, <2>1, <2>2, <2>3, <2>4, <2>5
<1>7. IsFiniteSet(joined) /\ popped \in Seq(Modules) /\ Len(popped) = Cardinality(joined)
  <2>1. CASE p.members[newM] = 0
    <3>1. newM \in E
      BY <2>1 DEF EmptyModules
    <3>2. IsFiniteSet(E \ {newM}) /\ Cardinality(E \ {newM}) = Cardinality(E) - 1
      BY <1>5, <3>1, FS_RemoveElement
    <3>3. Cardinality(E \ {newM}) \in Nat
      BY <3>2, FS_CardinalityType
    <3>4. Len(p.empty) \in Nat /\ Len(p.empty) >= 1
      BY <1>2, <1>5, <3>2, <3>3
    <3>5. Pop(p.empty) \in Seq(Modules) /\ Len(Pop(p.empty)) = Len(p.empty) - 1
      BY <1>2, <3>4 DEF Pop
    <3> QED  BY <1>5, <2>1, <3>2, <3>5
  <2>2. CASE p.members[newM] # 0
    BY <1>2, <1>5, <2>2
  <2> QED  BY <2>1, <2>2
<1>8. oldM \notin joined
  BY <1>2, <1>4, <1>5 DEF EmptyModules
<1>9. q.empty \in Seq(Modules) /\ Len(q.empty) = Cardinality(EmptyModules(q))
  <2>1. q.empty = IF p.members[oldM] = 1 THEN Append(popped, oldM) ELSE popped
    BY <1>1 DEF MoveEmpty
  <2>2. Cardinality(joined \cup {oldM}) = Cardinality(joined) + 1
    BY <1>7, <1>8, FS_AddElement
  <2> HIDE DEF q, joined, popped, E
  <2> QED  BY <1>5, <1>6, <1>7, <2>1, <2>2
<1> SUFFICES CountTypes(q) /\ Counted(q)
  OBVIOUS
<1> HIDE DEF q
<1> QED  BY <1>4, <1>9 DEF CountTypes, Counted, MembersExact

LEMMA SingletonsCounted == CountTypes(Singletons) /\ Counted(Singletons)
<1>1. CountTypes(Singletons)
  BY DEF CountTypes, Singletons, Modules
<1>2. \A m \in Modules : Members(Singletons, m) = {m}
  BY DEF Members, Singletons, Modules
<1>3. \A m \in Modules : Singletons.members[m] = 1
  BY DEF Singletons
<1>4. EmptyModules(Singletons) = {}
  BY <1>3 DEF EmptyModules
<1>5. Len(Singletons.empty) = 0
  BY DEF Singletons
<1> QED  BY <1>1, <1>2, <1>3, <1>4, <1>5, FS_EmptySet, FS_Singleton DEF Counted

-----------------------------------------------------------------------------
(***************************************************************************)
(* The flow of a module, and what a node takes along when it moves.        *)
(***************************************************************************)
\* A record of flow data.
IsFlowData(d) ==
  d = [flow |-> d.flow, enter |-> d.enter, exit |-> d.exit, tele |-> d.tele, weight |-> d.weight]

\* Adding and subtracting flow data, field by field.
LEMMA FlowArithmetic ==
  ASSUME NEW a, NEW b, IsFlowData(a)
  PROVE  /\ FlowAdd(a, b) = [flow |-> a.flow + b.flow, enter |-> a.enter + b.enter,
                             exit |-> a.exit + b.exit, tele |-> a.tele + b.tele,
                             weight |-> a.weight + b.weight]
         /\ FlowSub(a, b) = [flow |-> a.flow - b.flow, enter |-> a.enter - b.enter,
                             exit |-> a.exit - b.exit, tele |-> a.tele - b.tele,
                             weight |-> a.weight - b.weight]
<1>1. DOMAIN a = {"flow", "enter", "exit", "tele", "weight"}
  BY DEF IsFlowData
<1>2. FlowAdd(a, b) = [flow |-> a.flow + b.flow, enter |-> a.enter + b.enter,
                       exit |-> a.exit + b.exit, tele |-> a.tele + b.tele,
                       weight |-> a.weight + b.weight]
  BY <1>1 DEF FlowAdd
<1>3. FlowSub(a, b) = [flow |-> a.flow - b.flow, enter |-> a.enter - b.enter,
                       exit |-> a.exit - b.exit, tele |-> a.tele - b.tele,
                       weight |-> a.weight - b.weight]
  BY <1>1 DEF FlowSub
<1> QED BY <1>2, <1>3

\* The enter and exit flow of a record take a delta.
LEMMA FlowShift ==
  ASSUME NEW d, IsFlowData(d), NEW x
  PROVE  /\ [d EXCEPT !.enter = @ + x, !.exit = @ + x]
              = [flow |-> d.flow, enter |-> d.enter + x, exit |-> d.exit + x,
                 tele |-> d.tele, weight |-> d.weight]
         /\ [d EXCEPT !.enter = @ - x, !.exit = @ - x]
              = [flow |-> d.flow, enter |-> d.enter - x, exit |-> d.exit - x,
                 tele |-> d.tele, weight |-> d.weight]
<1>1. DOMAIN d = {"flow", "enter", "exit", "tele", "weight"}
  BY DEF IsFlowData
<1>2. [d EXCEPT !.enter = @ + x, !.exit = @ + x]
              = [flow |-> d.flow, enter |-> d.enter + x, exit |-> d.exit + x,
                 tele |-> d.tele, weight |-> d.weight]
  <2>1. [d EXCEPT !.enter = @ + x, !.exit = @ + x]
          = [k \in {"flow", "enter", "exit", "tele", "weight"} |->
               IF k \in {"enter", "exit"} THEN d[k] + x ELSE d[k]]
    BY <1>1
  <2> QED  BY <2>1
<1>3. [d EXCEPT !.enter = @ - x, !.exit = @ - x]
              = [flow |-> d.flow, enter |-> d.enter - x, exit |-> d.exit - x,
                 tele |-> d.tele, weight |-> d.weight]
  <2>1. [d EXCEPT !.enter = @ - x, !.exit = @ - x]
          = [k \in {"flow", "enter", "exit", "tele", "weight"} |->
               IF k \in {"enter", "exit"} THEN d[k] - x ELSE d[k]]
    BY <1>1
  <2> QED  BY <2>1
<1> QED  BY <1>2, <1>3

LEMMA FlowIsInteger ==
  ASSUME NEW S \in SUBSET Nodes, NEW T \in SUBSET Nodes
  PROVE  FlowFrom(S, T) \in Int /\ IsFiniteSet(S \X T) /\ Integral(LinkFlow, S \X T)
<1>1. IsFiniteSet(S \X T)
  BY NodesFinite, FS_Product
<1>2. Integral(LinkFlow, S \X T)
  BY NetworkAssumption DEF Integral
<1> QED  BY <1>1, <1>2, SumIsInteger DEF FlowFrom

\* The flow from and to the parts of a set.
LEMMA FlowOfParts ==
  ASSUME NEW S \in SUBSET Nodes, NEW U \in SUBSET Nodes, NEW T \in SUBSET Nodes, S \cap U = {}
  PROVE  /\ FlowFrom(S \cup U, T) = FlowFrom(S, T) + FlowFrom(U, T)
         /\ FlowFrom(T, S \cup U) = FlowFrom(T, S) + FlowFrom(T, U)
<1>1. /\ (S \cup U) \X T = (S \X T) \cup (U \X T) /\ (S \X T) \cap (U \X T) = {}
      /\ T \X (S \cup U) = (T \X S) \cup (T \X U) /\ (T \X S) \cap (T \X U) = {}
  OBVIOUS
<1>2. /\ IsFiniteSet(S \X T) /\ Integral(LinkFlow, S \X T)
      /\ IsFiniteSet(U \X T) /\ Integral(LinkFlow, U \X T)
      /\ IsFiniteSet(T \X S) /\ Integral(LinkFlow, T \X S)
      /\ IsFiniteSet(T \X U) /\ Integral(LinkFlow, T \X U)
  BY FlowIsInteger
<1>3. FlowFrom(S \cup U, T) = FlowFrom(S, T) + FlowFrom(U, T)
  BY <1>1, <1>2, SumUnion DEF FlowFrom
<1>4. FlowFrom(T, S \cup U) = FlowFrom(T, S) + FlowFrom(T, U)
  BY <1>1, <1>2, SumUnion DEF FlowFrom
<1> QED  BY <1>3, <1>4

LEMMA NoFlowToItself == \A n \in Nodes : FlowFrom({n}, {n}) = 0
<1> TAKE n \in Nodes
<1>1. {n} \X {n} = {<<n, n>>} /\ LinkFlow[<<n, n>>] = 0
  BY NetworkAssumption
<1>2. LinkFlow[<<n, n>>] \in Int
  BY <1>1
<1>3. SumFunctionOnSet(LinkFlow, {<<n, n>>}) = LinkFlow[<<n, n>>]
  BY <1>2, SumSingle
<1> QED  BY <1>1, <1>3 DEF FlowFrom

\* What is summed node by node.
LEMMA NodeSums ==
  ASSUME NEW f \in [Nodes -> Nat], NEW S \in SUBSET Nodes, NEW n \in Nodes \ S
  PROVE  /\ SumFunctionOnSet(f, S) \in Int /\ f[n] \in Int
         /\ SumFunctionOnSet(f, {n}) = f[n]
         /\ SumFunctionOnSet(f, S \cup {n}) = SumFunctionOnSet(f, S) + f[n]
<1>1. f[n] \in Int /\ IsFiniteSet(S) /\ IsFiniteSet({n}) /\ Integral(f, S) /\ Integral(f, {n})
  BY NodesFinite DEF Integral
<1>2. SumFunctionOnSet(f, {n}) = f[n] /\ SumFunctionOnSet(f, S) \in Int
  BY <1>1, SumSingle, SumIsInteger
<1>3. SumFunctionOnSet(f, S \cup {n}) = SumFunctionOnSet(f, S) + SumFunctionOnSet(f, {n})
  <2>1. S \cap {n} = {}
    OBVIOUS
  <2> QED  BY <1>1, <2>1, SumUnion
<1> QED  BY <1>1, <1>2, <1>3

\* The flow between a node and a set it is not in.
Between(n, S) ==
  FlowFrom({n}, S) + FlowFrom(S, {n})
    + IF Recorded THEN TeleFlowOf(S) * TeleportWeight[n] + TeleportFlow[n] * TeleWeightOf(S)
                  ELSE 0

\* d is the flow data of a set that node n has joined, e those of the set before.
Joined(d, e, n, between) ==
  d = [flow   |-> e.flow + NodeData[n].flow,
       enter  |-> e.enter + NodeData[n].enter - between,
       exit   |-> e.exit + NodeData[n].exit - between,
       tele   |-> e.tele + NodeData[n].tele,
       weight |-> e.weight + NodeData[n].weight]

LinksAdd(S, n, R) ==
         /\ FlowFrom(S, Nodes \ S) = FlowFrom(S, R) + FlowFrom(S, {n})
         /\ FlowFrom(Nodes \ S, S) = FlowFrom(R, S) + FlowFrom({n}, S)
         /\ FlowFrom({n}, Nodes \ {n}) = FlowFrom({n}, R) + FlowFrom({n}, S)
         /\ FlowFrom(Nodes \ {n}, {n}) = FlowFrom(R, {n}) + FlowFrom(S, {n})
         /\ FlowFrom(S \cup {n}, R) = FlowFrom(S, R) + FlowFrom({n}, R)
         /\ FlowFrom(R, S \cup {n}) = FlowFrom(R, S) + FlowFrom(R, {n})

\* The flow across the boundary of a set that a node joins.
LEMMA LinksAcross ==
  ASSUME NEW S \in SUBSET Nodes, NEW n \in Nodes \ S
  PROVE  LinksAdd(S, n, Nodes \ (S \cup {n}))
<1> DEFINE R == Nodes \ (S \cup {n})
<1>1. R \in SUBSET Nodes /\ {n} \in SUBSET Nodes
  OBVIOUS
<1>2. Nodes \ S = R \cup {n} /\ R \cap {n} = {}
  OBVIOUS
<1>3. Nodes \ {n} = R \cup S /\ R \cap S = {} /\ S \cap {n} = {}
  OBVIOUS
<1>4. /\ FlowFrom(S, R \cup {n}) = FlowFrom(S, R) + FlowFrom(S, {n})
      /\ FlowFrom(R \cup {n}, S) = FlowFrom(R, S) + FlowFrom({n}, S)
  BY <1>1, <1>2, FlowOfParts
<1>5. /\ FlowFrom({n}, R \cup S) = FlowFrom({n}, R) + FlowFrom({n}, S)
      /\ FlowFrom(R \cup S, {n}) = FlowFrom(R, {n}) + FlowFrom(S, {n})
  BY <1>1, <1>3, FlowOfParts
<1>6. /\ FlowFrom(S \cup {n}, R) = FlowFrom(S, R) + FlowFrom({n}, R)
      /\ FlowFrom(R, S \cup {n}) = FlowFrom(R, S) + FlowFrom(R, {n})
  BY <1>1, <1>3, FlowOfParts
<1> HIDE DEF R
<1> QED  BY <1>2, <1>3, <1>4, <1>5, <1>6 DEF LinksAdd, R

\* The links across a boundary, halved, are whole.
LEMMA EvenFlow ==
  ASSUME Undirected, NEW S \in SUBSET Nodes, NEW T \in SUBSET Nodes
  PROVE  FlowFrom(S, T) % 2 = 0
<1>1. \A l \in S \X T : LinkFlow[l] % 2 = 0
  BY NetworkAssumption
<1>2. IsFiniteSet(S \X T) /\ Integral(LinkFlow, S \X T)
  BY FlowIsInteger
<1> QED  BY <1>1, <1>2, SumIsEven DEF FlowFrom

\* Half the flow, if links are undirected, and products of sums.
LEMMA BoundaryArithmetic ==
  ASSUME NEW a \in Int, NEW b \in Int, NEW c \in Int, NEW d \in Int, NEW x \in Int, NEW y \in Int
  PROVE  /\ (a + b) % 2 = 0 /\ (c + d) % 2 = 0 /\ x % 2 = 0 /\ y % 2 = 0 =>
              (a + b + c + d) \div 2
                = ((a + x) + (b + y)) \div 2 + ((c + y) + (d + x)) \div 2 - (x + y)
         /\ c * (b + d) = (c + x) * b + (c + a) * d - (a * d + x * b)
         /\ (a + x) * c = a * (c + d) + x * (c + b) - (a * d + x * b)
<1>1. ASSUME (a + b) % 2 = 0, (c + d) % 2 = 0, x % 2 = 0, y % 2 = 0
      PROVE  (a + b + c + d) \div 2
                = ((a + x) + (b + y)) \div 2 + ((c + y) + (d + x)) \div 2 - (x + y)
  BY <1>1
<1>2. c * (b + d) = (c + x) * b + (c + a) * d - (a * d + x * b)
  OBVIOUS
<1>3. (a + x) * c = a * (c + d) + x * (c + b) - (a * d + x * b)
  OBVIOUS
<1> QED  BY <1>1, <1>2, <1>3

\* The flow data of a set that a node joins, from those of both and the flow between them.
LEMMA Joining ==
  ASSUME NEW S \in SUBSET Nodes, NEW n \in Nodes \ S
  PROVE  /\ Joined(FlowData(S \cup {n}), FlowData(S), n, Between(n, S))
         /\ Between(n, S) \in Int
<1> DEFINE R == Nodes \ (S \cup {n})
           o1 == FlowFrom(S, R)    i1 == FlowFrom(R, S)
           o2 == FlowFrom({n}, R)  i2 == FlowFrom(R, {n})
           x == FlowFrom(S, {n})   y == FlowFrom({n}, S)
           A == TeleFlowOf(S)    W == TeleWeightOf(S)
           a == TeleportFlow[n]  w == TeleportWeight[n]
           RA == TeleFlowOf(R)   RW == TeleWeightOf(R)
           tele == A * w + a * W
           between == x + y + IF Recorded THEN tele ELSE 0
<1>1. R \in SUBSET Nodes /\ n \in Nodes \ R /\ {n} \in SUBSET Nodes
  OBVIOUS
<1>2. o1 \in Int /\ i1 \in Int /\ o2 \in Int /\ i2 \in Int /\ x \in Int /\ y \in Int
  BY <1>1, FlowIsInteger
<1>3. Undirected => /\ o1 % 2 = 0 /\ i1 % 2 = 0 /\ o2 % 2 = 0 /\ i2 % 2 = 0
                    /\ x % 2 = 0 /\ y % 2 = 0
  BY <1>1, EvenFlow
<1>4. /\ A \in Int /\ W \in Int /\ a \in Int /\ w \in Int /\ RA \in Int /\ RW \in Int
      /\ TeleFlowOf({n}) = a /\ TeleWeightOf({n}) = w
      /\ TeleFlowOf(S \cup {n}) = A + a /\ TeleWeightOf(S \cup {n}) = W + w
      /\ TeleFlowOf(R \cup {n}) = RA + a /\ TeleWeightOf(R \cup {n}) = RW + w
  <2>1. TeleportFlow \in [Nodes -> Nat] /\ TeleportWeight \in [Nodes -> Nat]
    BY NetworkAssumption
  <2> QED  BY <1>1, <2>1, NodeSums DEF TeleFlowOf, TeleWeightOf
<1>5. TeleFlowOf(R \cup S) = RA + A /\ TeleWeightOf(R \cup S) = RW + W
  <2>1. IsFiniteSet(R) /\ IsFiniteSet(S) /\ R \cap S = {}
    BY <1>1, NodesFinite
  <2>2. /\ Integral(TeleportFlow, R) /\ Integral(TeleportFlow, S)
        /\ Integral(TeleportWeight, R) /\ Integral(TeleportWeight, S)
    BY NetworkAssumption DEF Integral
  <2> HIDE DEF R
  <2> QED  BY <2>1, <2>2, SumUnion DEF TeleFlowOf, TeleWeightOf
<1>6. /\ Nodes \ S = R \cup {n} /\ Nodes \ {n} = R \cup S /\ Nodes \ (S \cup {n}) = R
  OBVIOUS
<1>7. /\ FlowFrom(S, Nodes \ S) = o1 + x /\ FlowFrom(Nodes \ S, S) = i1 + y
      /\ FlowFrom({n}, Nodes \ {n}) = o2 + y /\ FlowFrom(Nodes \ {n}, {n}) = i2 + x
      /\ FlowFrom(S \cup {n}, R) = o1 + o2 /\ FlowFrom(R, S \cup {n}) = i1 + i2
  <2>1. LinksAdd(S, n, R)
    BY LinksAcross
  <2> HIDE DEF R
  <2> QED  BY <2>1 DEF LinksAdd
<1>8. Between(n, S) = between /\ between \in Int
  <2>1. Between(n, S) = between
    BY <1>2, <1>4 DEF Between
  <2>2. tele \in Int
    BY <1>4
  <2> HIDE DEF tele, x, y
  <2> QED  BY <1>2, <2>1, <2>2
<1> DEFINE Half(p, q) == (p + q) \div 2
<1>9. /\ FlowData(S).enter = (IF Undirected THEN Half(o1 + x, i1 + y) ELSE i1 + y)
                               + IF Recorded THEN (RA + a) * W ELSE 0
      /\ FlowData(S).exit = (IF Undirected THEN Half(o1 + x, i1 + y) ELSE o1 + x)
                               + IF Recorded THEN A * (RW + w) ELSE 0
  <2> HIDE DEF R, o1, i1, x, y, A, W, a, w, RA, RW
  <2> QED  BY <1>4, <1>6, <1>7 DEF FlowData, EnterExit, A, W
<1>10. /\ FlowData({n}).enter = (IF Undirected THEN Half(o2 + y, i2 + x) ELSE i2 + x)
                                  + IF Recorded THEN (RA + A) * w ELSE 0
       /\ FlowData({n}).exit = (IF Undirected THEN Half(o2 + y, i2 + x) ELSE o2 + y)
                                  + IF Recorded THEN a * (RW + W) ELSE 0
  <2> HIDE DEF R, o2, i2, x, y, A, W, a, w, RA, RW
  <2> QED  BY <1>4, <1>5, <1>6, <1>7 DEF FlowData, EnterExit
<1>11. /\ FlowData(S \cup {n}).enter = (IF Undirected THEN Half(o1 + o2, i1 + i2) ELSE i1 + i2)
                                         + IF Recorded THEN RA * (W + w) ELSE 0
       /\ FlowData(S \cup {n}).exit = (IF Undirected THEN Half(o1 + o2, i1 + i2) ELSE o1 + o2)
                                         + IF Recorded THEN (A + a) * RW ELSE 0
  <2> HIDE DEF R, o1, i1, o2, i2, A, W, a, w, RA, RW
  <2> QED  BY <1>4, <1>6, <1>7 DEF FlowData, EnterExit, RA, RW
<1>12. NodeData[n] = FlowData({n})
  BY DEF NodeData
<1>13. /\ FlowData(S \cup {n}).tele = FlowData(S).tele + NodeData[n].tele
       /\ FlowData(S \cup {n}).weight = FlowData(S).weight + NodeData[n].weight
  BY <1>4, <1>12 DEF FlowData
<1>14. FlowData(S \cup {n}).flow = FlowData(S).flow + NodeData[n].flow
  <2>1. NodeFlow \in [Nodes -> Nat]
    BY NetworkAssumption
  <2> QED  BY <1>12, <2>1, NodeSums DEF FlowData
<1> SUFFICES /\ FlowData(S \cup {n}).enter = FlowData(S).enter + FlowData({n}).enter - between
             /\ FlowData(S \cup {n}).exit = FlowData(S).exit + FlowData({n}).exit - between
  <2>1. FlowData(S \cup {n}) =
          [flow |-> FlowData(S \cup {n}).flow, enter |-> FlowData(S \cup {n}).enter,
           exit |-> FlowData(S \cup {n}).exit, tele |-> FlowData(S \cup {n}).tele,
           weight |-> FlowData(S \cup {n}).weight]
    BY DEF FlowData
  <2> HIDE DEF between
  <2> QED  BY <1>8, <1>12, <1>13, <1>14, <2>1 DEF Joined
<1> HIDE DEF R, o1, i1, o2, i2, x, y, A, W, a, w, RA, RW
<1>15. /\ Undirected => Half(o1 + o2, i1 + i2) = Half(o1 + x, i1 + y) + Half(o2 + y, i2 + x) - (x + y)
       /\ i1 + i2 = (i1 + y) + (i2 + x) - (x + y)
       /\ o1 + o2 = (o1 + x) + (o2 + y) - (x + y)
  BY <1>2, <1>3
<1>16. /\ RA * (W + w) = (RA + a) * W + (RA + A) * w - (A * w + a * W)
       /\ (A + a) * RW = A * (RW + w) + a * (RW + W) - (A * w + a * W)
  BY <1>4
<1> DEFINE e1 == (RA + a) * W  e2 == (RA + A) * w  e3 == RA * (W + w)
           f1 == A * (RW + w)  f2 == a * (RW + W)  f3 == (A + a) * RW
<1>17. e1 \in Int /\ e2 \in Int /\ f1 \in Int /\ f2 \in Int /\ tele \in Int
  BY <1>4
<1>18. e3 = e1 + e2 - tele /\ f3 = f1 + f2 - tele
  BY <1>16
<1>19. \A p, q \in Int : Half(p, q) \in Int
  OBVIOUS
<1>20. Half(o1 + x, i1 + y) \in Int /\ Half(o2 + y, i2 + x) \in Int
  BY <1>2
<1> HIDE DEF e1, e2, e3, f1, f2, f3, tele, Half
<1>21. FlowData(S \cup {n}).enter = FlowData(S).enter + FlowData({n}).enter - between
  BY <1>2, <1>9, <1>10, <1>11, <1>15, <1>17, <1>18, <1>20 DEF e1, e2, e3
<1>22. FlowData(S \cup {n}).exit = FlowData(S).exit + FlowData({n}).exit - between
  BY <1>2, <1>9, <1>10, <1>11, <1>15, <1>17, <1>18, <1>20 DEF f1, f2, f3
<1> QED  BY <1>21, <1>22

-----------------------------------------------------------------------------
LEMMA FlowDataIs ==
  \A S : IsFlowData(FlowData(S)) /\ \A d, e, n, b : Joined(d, e, n, b) => IsFlowData(d)
  BY DEF FlowData, IsFlowData, Joined

LEMMA JoinedIs ==
  ASSUME NEW d, NEW e, NEW n, NEW b, Joined(d, e, n, b)
  PROVE  /\ d.flow = e.flow + NodeData[n].flow
         /\ d.enter = e.enter + NodeData[n].enter - b
         /\ d.exit = e.exit + NodeData[n].exit - b
         /\ d.tele = e.tele + NodeData[n].tele
         /\ d.weight = e.weight + NodeData[n].weight
  BY DEF Joined

LEMMA FlowDataIsInteger ==
  ASSUME NEW S \in SUBSET Nodes
  PROVE  /\ FlowData(S).flow \in Int /\ FlowData(S).tele \in Int /\ FlowData(S).weight \in Int
         /\ FlowData(S).enter \in Int /\ FlowData(S).exit \in Int
<1> DEFINE R == Nodes \ S
           out == FlowFrom(S, R)
           in == FlowFrom(R, S)
<1>1. out \in Int /\ in \in Int
  BY FlowIsInteger
<1>2. ASSUME NEW T \in SUBSET Nodes
      PROVE  /\ SumFunctionOnSet(NodeFlow, T) \in Int
             /\ TeleFlowOf(T) \in Int /\ TeleWeightOf(T) \in Int
  <2>1. /\ IsFiniteSet(T) /\ Integral(NodeFlow, T)
        /\ Integral(TeleportFlow, T) /\ Integral(TeleportWeight, T)
    BY NodesFinite, NetworkAssumption DEF Integral
  <2> QED  BY <2>1, SumIsInteger DEF TeleFlowOf, TeleWeightOf
<1>3. /\ TeleFlowOf(S) \in Int /\ TeleWeightOf(S) \in Int
      /\ TeleFlowOf(R) \in Int /\ TeleWeightOf(R) \in Int
      /\ SumFunctionOnSet(NodeFlow, S) \in Int
  BY <1>2
<1>4. /\ FlowData(S).flow = SumFunctionOnSet(NodeFlow, S)
      /\ FlowData(S).tele = TeleFlowOf(S) /\ FlowData(S).weight = TeleWeightOf(S)
      /\ FlowData(S).enter = (IF Undirected THEN (out + in) \div 2 ELSE in)
                               + IF Recorded THEN TeleFlowOf(R) * TeleWeightOf(S) ELSE 0
      /\ FlowData(S).exit = (IF Undirected THEN (out + in) \div 2 ELSE out)
                               + IF Recorded THEN TeleFlowOf(S) * TeleWeightOf(R) ELSE 0
  BY DEF FlowData, EnterExit
<1>5. /\ (out + in) \div 2 \in Int
      /\ TeleFlowOf(R) * TeleWeightOf(S) \in Int /\ TeleFlowOf(S) * TeleWeightOf(R) \in Int
  BY <1>1, <1>3
<1> HIDE DEF out, in, R
<1>6. FlowData(S).enter \in Int
  BY <1>1, <1>4, <1>5
<1>7. FlowData(S).exit \in Int
  BY <1>1, <1>4, <1>5
<1> QED  BY <1>3, <1>4, <1>6, <1>7

\* What addTeleportationFlow and the links of a node amount to, when the flow data
\* of the module are right.
LEMMA DeltaIsBetween ==
  ASSUME NEW p, p.index \in [Nodes -> Modules], NEW n \in Nodes, NEW m \in Modules,
         p.flows[m] = FlowData(Members(p, m))
  PROVE  Delta(p, n, m) = Between(n, Members(p, m) \ {n})
<1> DEFINE S == Members(p, m) \ {n}
           f == IF p.index[n] = m THEN FlowSub(p.flows[m], NodeData[n]) ELSE p.flows[m]
<1>1. S \in SUBSET Nodes /\ n \in Nodes \ S
  BY DEF Members
<1>2. {k \in Nodes \ {n} : p.index[k] = m} = S
  BY DEF Members
<1>3. f.tele = TeleFlowOf(S) /\ f.weight = TeleWeightOf(S)
  <2>1. CASE p.index[n] # m
    <3>1. Members(p, m) = S
      BY <2>1 DEF Members
    <3> QED  BY <2>1, <3>1 DEF FlowData
  <2>2. CASE p.index[n] = m
    <3>1. Members(p, m) = S \cup {n}
      BY <2>2 DEF Members
    <3>2. /\ TeleFlowOf(S) \in Int /\ TeleFlowOf({n}) \in Int
          /\ TeleWeightOf(S) \in Int /\ TeleWeightOf({n}) \in Int
          /\ TeleFlowOf(S \cup {n}) = TeleFlowOf(S) + TeleFlowOf({n})
          /\ TeleWeightOf(S \cup {n}) = TeleWeightOf(S) + TeleWeightOf({n})
      <4> HIDE DEF S
      <4>1. TeleportFlow \in [Nodes -> Nat] /\ TeleportWeight \in [Nodes -> Nat]
        BY NetworkAssumption
      <4>2. /\ TeleFlowOf(S) \in Int /\ TeleFlowOf({n}) \in Int
            /\ TeleFlowOf(S \cup {n}) = TeleFlowOf(S) + TeleFlowOf({n})
        BY <1>1, <4>1, NodeSums DEF TeleFlowOf
      <4>3. /\ TeleWeightOf(S) \in Int /\ TeleWeightOf({n}) \in Int
            /\ TeleWeightOf(S \cup {n}) = TeleWeightOf(S) + TeleWeightOf({n})
        BY <1>1, <4>1, NodeSums DEF TeleWeightOf
      <4> QED  BY <4>2, <4>3
    <3>3. f = FlowSub(FlowData(S \cup {n}), FlowData({n}))
      BY <2>2, <3>1 DEF NodeData
    <3> HIDE DEF f, S
    <3>4. /\ f.tele = FlowData(S \cup {n}).tele - FlowData({n}).tele
          /\ f.weight = FlowData(S \cup {n}).weight - FlowData({n}).weight
      BY <3>3, FlowDataIs, FlowArithmetic
    <3>5. /\ f.tele = TeleFlowOf(S \cup {n}) - TeleFlowOf({n})
          /\ f.weight = TeleWeightOf(S \cup {n}) - TeleWeightOf({n})
      BY <3>4 DEF FlowData
    <3> QED  BY <3>2, <3>5
  <2> QED  BY <2>1, <2>2
<1>4. Delta(p, n, m) = FlowFrom({n}, S) + FlowFrom(S, {n})
         + IF Recorded THEN f.tele * TeleportWeight[n] + TeleportFlow[n] * f.weight ELSE 0
  BY <1>2 DEF Delta
<1> HIDE DEF f, S
<1> QED  BY <1>3, <1>4 DEF Between, S

\* Before a node moves: S is what it leaves behind, T the module it joins.
ReadyToMove(flows, n, oldM, newM, S, T) ==
  /\ n \in Nodes /\ oldM \in Modules /\ newM \in Modules /\ oldM # newM
  /\ DOMAIN flows = Modules
  /\ S \in SUBSET Nodes /\ T \in SUBSET Nodes /\ n \notin S /\ n \notin T
  /\ flows[oldM] = FlowData(S \cup {n}) /\ flows[newM] = FlowData(T)

FlowsMoved(flows, n, oldM, newM, S, T) ==
  [flows EXCEPT ![oldM] = FlowData(S), ![newM] = FlowData(T \cup {n})]

\* The modules' flow after the update, in terms of the two modules' members.
LEMMA FlowsMove ==
  ASSUME NEW flows, NEW n, NEW oldM, NEW newM, NEW S, NEW T,
         ReadyToMove(flows, n, oldM, newM, S, T)
  PROVE  MoveFlows(flows, n, oldM, newM, Between(n, S), Between(n, T))
           = FlowsMoved(flows, n, oldM, newM, S, T)
<1> USE DEF ReadyToMove
<1> DEFINE left == FlowSub(flows[oldM], NodeData[n])
           into == FlowAdd(flows[newM], NodeData[n])
           a == Between(n, S)
           b == Between(n, T)
           left2 == [left EXCEPT !.enter = @ + a, !.exit = @ + a]
           into2 == [into EXCEPT !.enter = @ - b, !.exit = @ - b]
<1>1. NodeData[n] = FlowData({n})
  BY DEF NodeData
<1>2. Joined(FlowData(S \cup {n}), FlowData(S), n, a) /\ a \in Int
  BY Joining
<1>3. Joined(FlowData(T \cup {n}), FlowData(T), n, b) /\ b \in Int
  BY Joining
<1> HIDE DEF a, b
<1>4. /\ left = [flow |-> flows[oldM].flow - NodeData[n].flow,
                 enter |-> flows[oldM].enter - NodeData[n].enter,
                 exit |-> flows[oldM].exit - NodeData[n].exit,
                 tele |-> flows[oldM].tele - NodeData[n].tele,
                 weight |-> flows[oldM].weight - NodeData[n].weight]
      /\ into = [flow |-> flows[newM].flow + NodeData[n].flow,
                 enter |-> flows[newM].enter + NodeData[n].enter,
                 exit |-> flows[newM].exit + NodeData[n].exit,
                 tele |-> flows[newM].tele + NodeData[n].tele,
                 weight |-> flows[newM].weight + NodeData[n].weight]
  BY FlowDataIs, FlowArithmetic
<1> HIDE DEF left, into
<1>11. IsFlowData(left) /\ IsFlowData(into)
  BY <1>4 DEF IsFlowData
<1>5. left2 = [flow |-> left.flow, enter |-> left.enter + a, exit |-> left.exit + a,
               tele |-> left.tele, weight |-> left.weight]
  BY <1>11, FlowShift
<1>6. into2 = [flow |-> into.flow, enter |-> into.enter - b, exit |-> into.exit - b,
               tele |-> into.tele, weight |-> into.weight]
  BY <1>11, FlowShift
<1> DEFINE F(U) == FlowData(U)
<1>7. ASSUME NEW U \in SUBSET Nodes
      PROVE  /\ F(U) = [flow |-> F(U).flow, enter |-> F(U).enter, exit |-> F(U).exit,
                        tele |-> F(U).tele, weight |-> F(U).weight]
             /\ F(U).flow \in Int /\ F(U).tele \in Int /\ F(U).weight \in Int
             /\ F(U).enter \in Int /\ F(U).exit \in Int
  BY FlowDataIsInteger, FlowDataIs DEF IsFlowData
<1> HIDE DEF F
<1>8. left2 = F(S)
  <2>1. /\ F(S \cup {n}).flow = F(S).flow + F({n}).flow
        /\ F(S \cup {n}).enter = F(S).enter + F({n}).enter - a
        /\ F(S \cup {n}).exit = F(S).exit + F({n}).exit - a
        /\ F(S \cup {n}).tele = F(S).tele + F({n}).tele
        /\ F(S \cup {n}).weight = F(S).weight + F({n}).weight
    BY <1>1, <1>2, JoinedIs DEF F
  <2>2. /\ left.flow = F(S \cup {n}).flow - F({n}).flow
        /\ left.enter = F(S \cup {n}).enter - F({n}).enter
        /\ left.exit = F(S \cup {n}).exit - F({n}).exit
        /\ left.tele = F(S \cup {n}).tele - F({n}).tele
        /\ left.weight = F(S \cup {n}).weight - F({n}).weight
    BY <1>1, <1>4 DEF F
  <2>3. {n} \in SUBSET Nodes
    OBVIOUS
  <2>4. /\ F({n}).flow \in Int /\ F({n}).tele \in Int /\ F({n}).weight \in Int
        /\ F({n}).enter \in Int /\ F({n}).exit \in Int
        /\ F(S).flow \in Int /\ F(S).tele \in Int /\ F(S).weight \in Int
        /\ F(S).enter \in Int /\ F(S).exit \in Int
    BY <1>7, <2>3
  <2>5. /\ left.flow = F(S).flow /\ left.tele = F(S).tele /\ left.weight = F(S).weight
        /\ left.enter + a = F(S).enter /\ left.exit + a = F(S).exit
    BY <1>2, <2>1, <2>2, <2>4
  <2> HIDE DEF left2
  <2> QED  BY <1>5, <1>7, <2>5
<1>9. into2 = F(T \cup {n})
  <2>1. /\ F(T \cup {n}).flow = F(T).flow + F({n}).flow
        /\ F(T \cup {n}).enter = F(T).enter + F({n}).enter - b
        /\ F(T \cup {n}).exit = F(T).exit + F({n}).exit - b
        /\ F(T \cup {n}).tele = F(T).tele + F({n}).tele
        /\ F(T \cup {n}).weight = F(T).weight + F({n}).weight
    BY <1>1, <1>3, JoinedIs DEF F
  <2>2. /\ into.flow = F(T).flow + F({n}).flow
        /\ into.enter = F(T).enter + F({n}).enter
        /\ into.exit = F(T).exit + F({n}).exit
        /\ into.tele = F(T).tele + F({n}).tele
        /\ into.weight = F(T).weight + F({n}).weight
    BY <1>1, <1>4 DEF F
  <2>3. T \cup {n} \in SUBSET Nodes
    OBVIOUS
  <2>4. /\ F({n}).enter \in Int /\ F({n}).exit \in Int
        /\ F(T).enter \in Int /\ F(T).exit \in Int
    <3>1. {n} \in SUBSET Nodes
      OBVIOUS
    <3> QED  BY <1>7, <3>1
  <2>5. /\ into.flow = F(T \cup {n}).flow /\ into.tele = F(T \cup {n}).tele
        /\ into.weight = F(T \cup {n}).weight
        /\ into.enter - b = F(T \cup {n}).enter /\ into.exit - b = F(T \cup {n}).exit
    BY <1>3, <2>1, <2>2, <2>4
  <2> HIDE DEF into2
  <2> QED  BY <1>6, <1>7, <2>3, <2>5
<1>10. MoveFlows(flows, n, oldM, newM, a, b) = [flows EXCEPT ![oldM] = left2, ![newM] = into2]
  BY DEF MoveFlows, left, into
<1> HIDE DEF left2, into2
<1> QED  BY <1>8, <1>9, <1>10 DEF a, b, F, FlowsMoved

\* The flows cover the modules, and no more.
FlowsExact(p) == DOMAIN p.flows = Modules /\ Balanced(p)

\* A node that moves takes its flow along: q is p after it, with the deltas of p.
LEMMA FlowsOfMove ==
  ASSUME NEW p, NEW q, p.index \in [Nodes -> Modules], FlowsExact(p),
         NEW n \in Nodes, NEW newM \in Modules, newM # p.index[n],
         q.index = [p.index EXCEPT ![n] = newM],
         q.flows = MoveFlows(p.flows, n, p.index[n], newM,
                             Delta(p, n, p.index[n]), Delta(p, n, newM))
  PROVE  FlowsExact(q)
<1> DEFINE oldM == p.index[n]
           S == Members(p, oldM) \ {n}
           T == Members(p, newM)
<1>1. oldM \in Modules /\ oldM # newM
  OBVIOUS
<1>2. /\ Members(p, oldM) = S \cup {n} /\ Members(q, oldM) = S
      /\ Members(q, newM) = T \cup {n} /\ T \ {n} = T
      /\ \A m \in Modules \ {oldM, newM} : Members(q, m) = Members(p, m)
      /\ n \notin S /\ n \notin T /\ S \in SUBSET Nodes /\ T \in SUBSET Nodes
  BY MembersAfter DEF Members
<1>3. \A m \in Modules : p.flows[m] = FlowData(Members(p, m))
  BY DEF FlowsExact, Balanced
<1>4. Delta(p, n, oldM) = Between(n, S) /\ Delta(p, n, newM) = Between(n, T)
  <2> HIDE DEF oldM
  <2>1. Delta(p, n, oldM) = Between(n, Members(p, oldM) \ {n})
    BY <1>1, <1>3, DeltaIsBetween
  <2>2. Delta(p, n, newM) = Between(n, Members(p, newM) \ {n})
    BY <1>1, <1>3, DeltaIsBetween
  <2> QED  BY <1>2, <2>1, <2>2
<1> HIDE DEF oldM, S, T
<1>5. q.flows = MoveFlows(p.flows, n, oldM, newM, Between(n, S), Between(n, T))
  BY <1>4 DEF oldM
<1>6. p.flows[oldM] = FlowData(S \cup {n}) /\ p.flows[newM] = FlowData(T) /\ DOMAIN p.flows = Modules
  BY <1>1, <1>2, <1>3 DEF FlowsExact, T
<1>7. q.flows = [p.flows EXCEPT ![oldM] = FlowData(S), ![newM] = FlowData(T \cup {n})]
  <2>1. ReadyToMove(p.flows, n, oldM, newM, S, T)
    BY <1>1, <1>2, <1>6 DEF ReadyToMove
  <2>2. MoveFlows(p.flows, n, oldM, newM, Between(n, S), Between(n, T))
          = FlowsMoved(p.flows, n, oldM, newM, S, T)
    BY <2>1, FlowsMove
  <2> QED  BY <1>5, <2>2 DEF FlowsMoved
<1>8. DOMAIN q.flows = Modules
  BY <1>6, <1>7
<1>9. ASSUME NEW m \in Modules PROVE q.flows[m] = FlowData(Members(q, m))
  <2>1. CASE m = oldM
    BY <1>1, <1>2, <1>6, <1>7, <2>1
  <2>2. CASE m = newM
    BY <1>1, <1>2, <1>6, <1>7, <2>2
  <2>3. CASE m \notin {oldM, newM}
    BY <1>2, <1>3, <1>6, <1>7, <2>3
  <2> QED  BY <2>1, <2>2, <2>3
<1> QED  BY <1>8, <1>9 DEF FlowsExact, Balanced
\* One move with its own deltas keeps the flow data those of the nodes.
LEMMA MoveKeepsFlows ==
  ASSUME NEW p, p.index \in [Nodes -> Modules], FlowsExact(p),
         NEW n \in Nodes, NEW newM \in Modules, newM # p.index[n]
  PROVE  FlowsExact(Move(p, n, newM))
<1> DEFINE q == Move(p, n, newM)
<1>1. /\ q.index = [p.index EXCEPT ![n] = newM]
      /\ q.flows = MoveFlows(p.flows, n, p.index[n], newM,
                             Delta(p, n, p.index[n]), Delta(p, n, newM))
  BY DEF Move
<1> HIDE DEF q
<1>2. FlowsExact(q)
  BY <1>1, FlowsOfMove
<1> QED  BY <1>2 DEF q

\* The first partition, every node a module, has exact flow.
LEMMA SingletonsBalanced == FlowsExact(Singletons)
<1>1. \A m \in Modules : Members(Singletons, m) = {m}
  BY DEF Members, Singletons, Modules
<1>2. Singletons.flows = [m \in Modules |-> FlowData({m})]
  BY DEF Singletons, NodeData, Modules
<1> QED  BY <1>1, <1>2 DEF FlowsExact, Balanced
\* The deltas of a node with a module depend on who is in the module.
LEMMA DeltaStays ==
  ASSUME NEW p, NEW q, p.index \in [Nodes -> Modules], q.index \in [Nodes -> Modules],
         FlowsExact(p), FlowsExact(q), NEW n \in Nodes, NEW m \in Modules,
         Members(q, m) = Members(p, m)
  PROVE  Delta(q, n, m) = Delta(p, n, m) /\ Delta(p, n, m) \in Int
<1>1. p.flows[m] = FlowData(Members(p, m)) /\ q.flows[m] = FlowData(Members(q, m))
  BY DEF FlowsExact, Balanced
<1>2. Delta(p, n, m) = Between(n, Members(p, m) \ {n})
  BY <1>1, DeltaIsBetween
<1>3. Delta(q, n, m) = Between(n, Members(q, m) \ {n})
  BY <1>1, DeltaIsBetween
<1>4. Between(n, Members(p, m) \ {n}) \in Int
  <2>1. Members(p, m) \ {n} \in SUBSET Nodes /\ n \in Nodes \ (Members(p, m) \ {n})
    BY DEF Members
  <2> QED  BY <2>1, Joining
<1> QED  BY <1>2, <1>3, <1>4

-----------------------------------------------------------------------------
(***************************************************************************)
(* The optimiser: predefined moves and serial sweeps.                      *)
(***************************************************************************)
LEMMA LinksOf ==
  \A n \in Nodes : /\ OutLinks(n) \in SUBSET Nodes /\ InLinks(n) \in SUBSET Nodes
                   /\ Neighbours(n) = DirtiedBy(n)
                   /\ \A k \in Nodes : k \in OutLinks(n) <=> n \in InLinks(k)
  BY DEF OutLinks, InLinks, Neighbours, DirtiedBy

\* A node of degree one has no neighbour but the one it is linked to.
LEMMA LoneNeighbour ==
  ASSUME NEW n \in Nodes, NEW d \in Neighbours(n), ~(Degree(d) > 1)
  PROVE  Neighbours(d) \subseteq {n}
<1>1. d \in Nodes
  BY LinksOf DEF Neighbours
<1>2. /\ IsFiniteSet(OutLinks(d)) /\ IsFiniteSet(InLinks(d))
      /\ Cardinality(OutLinks(d)) \in Nat /\ Cardinality(InLinks(d)) \in Nat
  BY <1>1, LinksOf, NodesFinite
<1>3. Cardinality(OutLinks(d)) + Cardinality(InLinks(d)) <= 1
  BY <1>2 DEF Degree
<1>4. n \in OutLinks(d) \/ n \in InLinks(d)
  BY <1>1, LinksOf DEF Neighbours
<1>5. ASSUME NEW k \in Neighbours(d) PROVE k = n
  <2>1. ASSUME NEW S, NEW x \in S, IsFiniteSet(S), Cardinality(S) \in Nat
        PROVE  Cardinality(S) >= 1
    <3>1. Cardinality(S) # 0
      BY <2>1, FS_EmptySet
    <3> QED  BY <2>1, <3>1
  <2>2. ASSUME NEW S, NEW x \in S, NEW y \in S, IsFiniteSet(S), Cardinality(S) = 1
        PROVE  x = y
    <3>1. PICK z : S = {z}
      BY <2>2, FS_Singleton
    <3> QED  BY <3>1
  <2>3. k \in OutLinks(d) \/ k \in InLinks(d)
    BY <1>5 DEF Neighbours
  <2>4. n \in OutLinks(d) => Cardinality(OutLinks(d)) >= 1
    BY <1>2, <2>1
  <2>5. k \in OutLinks(d) => Cardinality(OutLinks(d)) >= 1
    BY <1>2, <2>1
  <2>6. n \in InLinks(d) => Cardinality(InLinks(d)) >= 1
    BY <1>2, <2>1
  <2>7. k \in InLinks(d) => Cardinality(InLinks(d)) >= 1
    BY <1>2, <2>1
  <2>8. CASE n \in OutLinks(d)
    <3>1. Cardinality(OutLinks(d)) = 1 /\ Cardinality(InLinks(d)) = 0
      BY <1>2, <1>3, <2>4, <2>8
    <3>2. k \in OutLinks(d)
      BY <2>3, <2>7, <3>1
    <3> QED  BY <1>2, <2>2, <2>8, <3>1, <3>2
  <2>9. CASE n \in InLinks(d)
    <3>1. Cardinality(InLinks(d)) = 1 /\ Cardinality(OutLinks(d)) = 0
      BY <1>2, <1>3, <2>6, <2>9
    <3>2. k \in InLinks(d)
      BY <2>3, <2>5, <3>1
    <3> QED  BY <1>2, <2>2, <2>9, <3>1, <3>2
  <2> QED  BY <1>4, <2>8, <2>9
<1> QED  BY <1>5

\* Who is dragged along is a neighbour that was left alone in the old module.
LEMMA DraggedIs ==
  ASSUME NEW p, NEW n \in Nodes, NEW m, NEW d \in Dragged(p, n, m)
  PROVE  d \in Nodes /\ d \in Neighbours(n) /\ p.index[d] = m
<1>1. d \in LinksInto(p, n, m) \cup LinksFrom(p, n, m)
  BY DEF Dragged
<1> QED  BY <1>1, LinksOf DEF LinksInto, LinksFrom, Neighbours

-----------------------------------------------------------------------------
\* What the counts need of a step: the partition stays, starts over, or one or
\* two nodes move to a module they are not in.
LEMMA PartitionStep ==
  ASSUME CountsExact, [Next]_vars
  PROVE  CountTypes(part') /\ Counted(part')
<1>a. CountTypes(part) /\ Counted(part)
  BY DEF CountsExact, TypeOK, DataTypes
<1>1. CASE part' = part
  BY <1>a, <1>1
<1>2. CASE InitPartition
  BY <1>2, SingletonsCounted DEF InitPartition
<1>3. CASE PredefinedMove
  <2>1. cursor \in Nodes /\ given[cursor] \in Modules
    BY DEF CountsExact, TypeOK, DataTypes
  <2>2. CASE part.index[cursor] = given[cursor]
    BY <1>a, <1>3, <2>2 DEF PredefinedMove
  <2>3. CASE part.index[cursor] # given[cursor]
    <3>1. part' = Move(part, cursor, given[cursor])
      BY <1>3, <2>3 DEF PredefinedMove
    <3> QED  BY <1>a, <2>1, <2>3, <3>1, MoveCounts
  <2> QED  BY <2>2, <2>3
<1>4. ASSUME NEW n \in Nodes, NEW newM \in Modules, MoveBest(n, newM)
      PROVE  CountTypes(part') /\ Counted(part')
  <2> DEFINE oldM == part.index[n]
             after == Move(part, n, newM)
  <2>1. newM # oldM
    BY <1>4 DEF MoveBest
  <2>2. CountTypes(after) /\ Counted(after)
    BY <1>a, <2>1, MoveCounts
  <2>3. CASE part' = after
    BY <2>2, <2>3
  <2>4. ASSUME NEW d \in Dragged(after, n, oldM), part' = Move(after, d, newM)
        PROVE  CountTypes(part') /\ Counted(part')
    <3>1. d \in Nodes /\ after.index[d] = oldM
      BY <2>4, DraggedIs
    <3> HIDE DEF after, oldM
    <3> QED  BY <2>1, <2>2, <2>4, <3>1, MoveCounts
  <2>5. part' = after \/ \E d \in Dragged(after, n, oldM) : part' = Move(after, d, newM)
    BY <1>4 DEF MoveBest
  <2> QED  BY <2>3, <2>4, <2>5
<1> QED
  BY <1>1, <1>2, <1>3, <1>4
  DEF Next, Sweep, StartSweep, Pass, Stay, EndSweep, RequestInterrupt, vars

LEMMA AppliedTerms ==
  /\ \A carried, flag : MemoryApplied(carried, flag) \in 0..2
  /\ \A carried, flag : (carried <=> flag) => MemoryApplied(carried, flag) = 1
<1>1. ASSUME NEW carried, NEW flag PROVE MemoryApplied(carried, flag) \in 0..2
  BY DEF MemoryApplied
<1>2. ASSUME NEW carried, NEW flag, carried <=> flag PROVE MemoryApplied(carried, flag) = 1
  BY <1>2 DEF MemoryApplied
<1> QED  BY <1>1, <1>2

LEMMA FirstOfAll ==
  /\ 0 \in Nodes /\ [n \in Nodes |-> n] \in [Nodes -> Modules]
  /\ MaxCodelength \in 0..MaxCodelength
<1>1. 0 \in Nodes
  BY SizeAssumption DEF Nodes
<1> QED  BY <1>1, OptimizerAssumption DEF Modules

\* Each step keeps the types.
LEMMA TypeStep ==
  ASSUME CountsExact, [Next]_vars
  PROVE  TypeOK'
<1>a. CountTypes(part)'
  BY PartitionStep DEF CountTypes
<1>b. TypeOK
  BY DEF CountsExact
<1>c. Memory \in BOOLEAN /\ MaxCodelength \in Nat /\ GivenModules \subseteq [Nodes -> Modules]
  BY OptimizerAssumption
<1>d. NumNodes \in Nat \ {0}
  BY SizeAssumption
<1>e. cursor \in Nodes
  BY <1>b DEF TypeOK, DataTypes
<1>f. moved \in BOOLEAN
  BY <1>b DEF TypeOK, DataTypes
<1>g. cursor \in Nodes /\ cursor + 1 # NumNodes => cursor + 1 \in Nodes
  BY <1>d DEF Nodes
<1> USE <1>a, <1>b, <1>c, <1>d DEF TypeOK, DataTypes, loopVars, Modules
<1>1. CASE InitPartition
  <2>1. /\ cursor' \in Nodes /\ given' \in [Nodes -> Modules]
        /\ codelength' \in 0..MaxCodelength
    BY <1>1, FirstOfAll DEF InitPartition
  <2>2. dirty' \in [Nodes -> BOOLEAN] /\ firstLoop' \in BOOLEAN
    BY <1>1 DEF InitPartition
  <2> QED  BY <1>1, <2>1, <2>2 DEF InitPartition
<1>2. CASE PredefinedMove
  <2>1. cursor' \in Nodes
    <3>1. cursor' = 0 \/ (cursor + 1 # NumNodes /\ cursor' = cursor + 1)
      BY <1>2 DEF PredefinedMove
    <3> QED  BY <1>e, <1>g, <3>1, FirstOfAll, Zenon
  <2>2. given' \in [Nodes -> Modules] /\ phase' \in {"start", "predefined", "poll", "sweep", "done"}
    BY <1>2 DEF PredefinedMove
  <2>3. Neighbours(cursor) \subseteq Nodes
    BY LinksOf DEF Neighbours
  <2>4. applied' \in 0..2
    <3>1. applied' = applied \/ \E a, b : applied' = MemoryApplied(a, b)
      BY <1>2 DEF PredefinedMove
    <3> QED  BY <3>1, AppliedTerms
  <2>5. memAdded' \in BOOLEAN /\ unsettled' \subseteq Nodes
    BY <1>2, <2>3 DEF PredefinedMove
  <2> QED  BY <1>2, <2>1, <2>2, <2>4, <2>5 DEF PredefinedMove
<1>3. CASE StartSweep
  <2>1. moved' \in BOOLEAN
    BY <1>3, Zenon DEF StartSweep
  <2>2. loops' \in Nat
    BY <1>3 DEF StartSweep
  <2>3. todo' \subseteq Nodes /\ phase' \in {"start", "predefined", "poll", "sweep", "done"}
    BY <1>3, Zenon DEF StartSweep
  <2> QED  BY <1>3, <2>1, <2>2, <2>3, Zenon DEF StartSweep
<1>4. ASSUME NEW n \in Nodes, Pass(n) PROVE TypeOK'
  BY <1>4 DEF Pass
<1>5. ASSUME NEW n \in Nodes, Stay(n) PROVE TypeOK'
  BY <1>5 DEF Stay
<1>6. ASSUME NEW n \in Nodes, NEW newM \in Modules, MoveBest(n, newM) PROVE TypeOK'
  <2>1. \A k \in Nodes : Neighbours(k) \subseteq Nodes
    BY LinksOf DEF Neighbours
  <2>2. \A d \in Dragged(Move(part, n, newM), n, part.index[n]) : d \in Nodes
    BY DraggedIs
  <2>3. moved' \in BOOLEAN /\ memAdded' \in BOOLEAN
    <3>1. moved' = TRUE
      BY <1>6 DEF MoveBest
    <3>2. memAdded' = FALSE
      BY <1>6 DEF MoveBest, MemAddedAfterMove
    <3> QED  BY <3>1, <3>2
  <2>6. applied' \in 0..2
    <3>1. \E a, b : applied' = MemoryApplied(a, b)
      BY <1>6 DEF MoveBest
    <3> QED  BY <3>1, AppliedTerms
  <2>4. dirty' \in [Nodes -> BOOLEAN]
    <3>1. \E S : dirty' = MarkDirty(dirty, S)
      BY <1>6 DEF MoveBest
    <3> QED  BY <3>1 DEF MarkDirty
  <2>5. unsettled' \subseteq Nodes
    BY <1>6, <2>1, <2>2 DEF MoveBest
  <2> QED  BY <1>6, <2>3, <2>4, <2>5, <2>6 DEF MoveBest
<1>7. CASE EndSweep
  <2>1. moved' \in BOOLEAN
    BY <1>7, Zenon DEF EndSweep
  <2>2. codelength' \in 0..MaxCodelength
    BY <1>7 DEF EndSweep, LoopEnds
  <2>3. phase' \in {"start", "predefined", "poll", "sweep", "done"}
    BY <1>7, Zenon DEF EndSweep, LoopEnds
  <2> QED  BY <1>7, <2>1, <2>2, <2>3, Zenon DEF EndSweep
<1>8. CASE RequestInterrupt
  BY <1>8 DEF RequestInterrupt
<1>9. CASE UNCHANGED vars
  BY <1>9 DEF vars, CountTypes
<1> QED  BY <1>1, <1>2, <1>3, <1>4, <1>5, <1>6, <1>7, <1>8, <1>9 DEF Next, Sweep

LEMMA InitCounted == Init => CountsExact
<1> SUFFICES ASSUME Init PROVE CountsExact
  OBVIOUS
<1>1. CountTypes(part) /\ Counted(part)
  BY SingletonsCounted DEF Init
<1>2. TypeOK
  <2>1. /\ cursor \in Nodes /\ given \in [Nodes -> Modules]
        /\ codelength \in 0..MaxCodelength
    BY FirstOfAll DEF Init
  <2>2. dirty \in [Nodes -> BOOLEAN]
    BY DEF Init
  <2>3. /\ memAdded \in BOOLEAN /\ firstLoop \in BOOLEAN /\ cancel \in BOOLEAN
        /\ moved \in BOOLEAN /\ phase = "start" /\ todo \subseteq Nodes
        /\ unsettled \subseteq Nodes
    BY Zenon DEF Init
  <2>4. loops \in Nat /\ applied \in 0..2
    BY DEF Init
  <2> QED  BY <1>1, <2>1, <2>2, <2>3, <2>4, Zenon DEF TypeOK, DataTypes
<1> QED  BY <1>1, <1>2 DEF CountsExact

(***************************************************************************)
(* After any sequence of moves, predefined or found, with or without a     *)
(* node dragged along, the member counts are those of the modules and the  *)
(* stack of empty modules has one entry for each of them (initPartition,   *)
(* moveNodeToPredefinedModule, tryMoveEachNodeIntoBestModule).             *)
(***************************************************************************)
THEOREM CountsCorrect == Spec => []CountsExact
<1>1. CountsExact /\ [Next]_vars => CountsExact'
  <2> SUFFICES ASSUME CountsExact, [Next]_vars PROVE CountsExact'
    OBVIOUS
  <2>1. Counted(part)'
    BY PartitionStep DEF Counted, Members, EmptyModules
  <2> QED  BY <2>1, TypeStep DEF CountsExact
<1> QED  BY <1>1, InitCounted, PTL DEF Spec

-----------------------------------------------------------------------------
\* No evaluation has raised the flag before the predefined moves.
MemoryInv == MemoryTermsOnce /\ (phase = "predefined" => ~memAdded)

(***************************************************************************)
(* The physical-node terms of every move enter the codelength exactly      *)
(* once: for a predefined move through updateCodelengthOnMovingNode, for a *)
(* move found by a sweep through its deltas, for a dragged node again      *)
(* through the update (MemMapEquation::m_memoryContributionsAdded).        *)
(***************************************************************************)
THEOREM MemoryCorrect == Spec => []MemoryTermsOnce
<1>1. Init => MemoryInv
  BY DEF Init, MemoryInv, MemoryTermsOnce
<1>2. MemoryInv /\ [Next]_vars => MemoryInv'
  <2> SUFFICES ASSUME MemoryInv, [Next]_vars PROVE MemoryInv'
    OBVIOUS
  <2> USE DEF MemoryInv, MemoryTermsOnce
  <2>1. CASE InitPartition
    BY <2>1 DEF InitPartition
  <2>2. CASE PredefinedMove
    BY <2>2, AppliedTerms DEF PredefinedMove
  <2>3. CASE StartSweep
    BY <2>3 DEF StartSweep
  <2>4. ASSUME NEW n \in Nodes, Pass(n) \/ Stay(n) PROVE MemoryInv'
    BY <2>4 DEF Pass, Stay
  <2>5. ASSUME NEW n \in Nodes, NEW newM \in Modules, MoveBest(n, newM) PROVE MemoryInv'
    <3>1. phase' = "sweep"
      BY <2>5 DEF MoveBest
    <3>2. Memory => applied' = 1
      BY <2>5, AppliedTerms DEF MoveBest, MemAddedAfterMove
    <3> QED  BY <3>1, <3>2
  <2>6. CASE EndSweep
    BY <2>6 DEF EndSweep, LoopEnds
  <2>7. CASE RequestInterrupt
    BY <2>7 DEF RequestInterrupt
  <2>8. CASE UNCHANGED vars
    BY <2>8 DEF vars
  <2> QED  BY <2>1, <2>2, <2>3, <2>4, <2>5, <2>6, <2>7, <2>8 DEF Next, Sweep
<1>3. MemoryInv => MemoryTermsOnce
  BY DEF MemoryInv
<1> QED  BY <1>1, <1>2, <1>3, PTL DEF Spec

-----------------------------------------------------------------------------
\* The predefined moves mark nobody dirty, but everybody is.
DirtyInv ==
  /\ CleanIsSettled
  /\ phase = "predefined" => \A n \in Nodes : dirty[n]

\* Each step keeps what a clean node is.
LEMMA DirtyStep ==
  ASSUME TypeOK, DirtyInv, [Next]_vars
  PROVE  DirtyInv'
<1>a. /\ cursor \in Nodes /\ unsettled \subseteq Nodes /\ dirty \in [Nodes -> BOOLEAN]
      /\ \A n \in Nodes : Neighbours(n) \subseteq Nodes
  BY LinksOf DEF TypeOK, DataTypes, Neighbours
<1> USE <1>a DEF DirtyInv, CleanIsSettled, loopVars
<1>1. CASE InitPartition
  BY <1>1 DEF InitPartition
<1>2. CASE PredefinedMove
  <2>1. unsettled' \subseteq Nodes /\ dirty' = dirty /\ \A n \in Nodes : dirty[n]
    BY <1>2 DEF PredefinedMove
  <2> QED  BY <2>1
<1>3. CASE StartSweep
  BY <1>3 DEF StartSweep
<1>4. ASSUME NEW n \in Nodes, Pass(n) PROVE DirtyInv'
  BY <1>4 DEF Pass
<1>5. ASSUME NEW n \in Nodes, Stay(n) PROVE DirtyInv'
  BY <1>5 DEF Stay
<1>6. ASSUME NEW n \in Nodes, NEW newM \in Modules, MoveBest(n, newM) PROVE DirtyInv'
  <2> DEFINE dragged == Dragged(Move(part, n, newM), n, part.index[n])
  <2>1. dirty[n] /\ phase' = "sweep"
    BY <1>6 DEF MoveBest, PassedOver
  <2>2. ASSUME NEW S, dirty' = MarkDirty(dirty, S),
               \A k \in unsettled' : k \in unsettled \/ k \in S \/ k = n,
               unsettled' \subseteq Nodes
        PROVE  DirtyInv'
    BY <2>1, <2>2 DEF MarkDirty
  <2>3. CASE dragged = {}
    <3>1. /\ dirty' = MarkDirty(dirty, DirtiedBy(n))
          /\ unsettled' = (unsettled \ {n}) \cup Neighbours(n)
      BY <1>6, <2>3 DEF MoveBest
    <3>2. Neighbours(n) = DirtiedBy(n)
      BY LinksOf
    <3> QED  BY <2>2, <3>1, <3>2
  <2>4. CASE dragged # {}
    <3>1. PICK d \in dragged :
            /\ dirty' = MarkDirty(dirty, DirtiedBy(n) \cup
                                         (IF Degree(d) > 1 THEN DirtiedBy(d) ELSE {}))
            /\ unsettled' = (unsettled \ {n}) \cup Neighbours(n) \cup Neighbours(d)
      BY <1>6, <2>4 DEF MoveBest
    <3>2. d \in Nodes /\ d \in Neighbours(n)
      BY <3>1, DraggedIs
    <3>3. Neighbours(n) = DirtiedBy(n) /\ Neighbours(d) = DirtiedBy(d)
      BY <3>2, LinksOf
    <3>4. ~(Degree(d) > 1) => Neighbours(d) \subseteq {n}
      BY <3>2, LoneNeighbour
    <3> HIDE DEF dragged
    <3> DEFINE S == DirtiedBy(n) \cup (IF Degree(d) > 1 THEN DirtiedBy(d) ELSE {})
    <3>5. \A k \in unsettled' : k \in unsettled \/ k \in S \/ k = n
      <4>1. CASE Degree(d) > 1
        BY <3>1, <3>3, <4>1
      <4>2. CASE ~(Degree(d) > 1)
        BY <3>1, <3>3, <3>4, <4>2
      <4> QED  BY <4>1, <4>2
    <3>6. unsettled' \subseteq Nodes
      BY <3>1, <3>2
    <3>7. dirty' = MarkDirty(dirty, S)
      BY <3>1
    <3> HIDE DEF S
    <3> QED  BY <2>2, <3>5, <3>6, <3>7
  <2> QED  BY <2>3, <2>4
<1>7. CASE EndSweep
  <2>1. phase' # "predefined"
    BY <1>7 DEF EndSweep, LoopEnds
  <2>2. dirty' = dirty /\ unsettled' = unsettled
    BY <1>7 DEF EndSweep
  <2> QED  BY <2>1, <2>2
<1>8. CASE RequestInterrupt
  BY <1>8 DEF RequestInterrupt
<1>9. CASE UNCHANGED vars
  BY <1>9 DEF vars
<1> QED  BY <1>1, <1>2, <1>3, <1>4, <1>5, <1>6, <1>7, <1>8, <1>9 DEF Next, Sweep

(***************************************************************************)
(* A clean node has been evaluated since any node it is linked to moved,   *)
(* in either direction.  A dragged node of degree one marks nobody,        *)
(* which is right because its only neighbour is the node that dragged it,  *)
(* and that one is still dirty (tryMoveEachNodeIntoBestModule).            *)
(***************************************************************************)
THEOREM CleanCorrect == Spec => []CleanIsSettled
<1>1. Init => DirtyInv
  BY DEF Init, DirtyInv, CleanIsSettled
<1>2. TypeOK /\ DirtyInv /\ [Next]_vars => DirtyInv'
  BY DirtyStep
<1>3. CountsExact => TypeOK
  BY DEF CountsExact
<1>4. DirtyInv => CleanIsSettled
  BY DEF DirtyInv
<1> QED  BY <1>1, <1>2, <1>3, <1>4, CountsCorrect, PTL DEF Spec
-----------------------------------------------------------------------------
\* What a step does to the flow of the modules: it stays, starts over, or one or
\* two nodes take theirs along.
LEMMA FlowStep ==
  ASSUME CountsExact, FlowsExact(part), [Next]_vars
  PROVE  FlowsExact(part')
<1>a. part.index \in [Nodes -> Modules] /\ CountTypes(part) /\ Counted(part)
  BY DEF CountsExact, TypeOK, DataTypes, CountTypes
<1>1. CASE part' = part
  BY <1>1
<1>2. CASE InitPartition
  BY <1>2, SingletonsBalanced DEF InitPartition
<1>3. CASE PredefinedMove
  <2>1. cursor \in Nodes /\ given[cursor] \in Modules
    BY DEF CountsExact, TypeOK, DataTypes
  <2>2. CASE part.index[cursor] = given[cursor]
    BY <1>3, <2>2 DEF PredefinedMove
  <2>3. CASE part.index[cursor] # given[cursor]
    <3>1. part' = Move(part, cursor, given[cursor])
      BY <1>3, <2>3 DEF PredefinedMove
    <3> QED  BY <1>a, <2>1, <2>3, <3>1, MoveKeepsFlows
  <2> QED  BY <2>2, <2>3
<1>4. ASSUME NEW n \in Nodes, NEW newM \in Modules, MoveBest(n, newM)
      PROVE  FlowsExact(part')
  <2> DEFINE oldM == part.index[n]
             after == Move(part, n, newM)
  <2>1. newM # oldM
    BY <1>4 DEF MoveBest
  <2>2. after.index \in [Nodes -> Modules] /\ FlowsExact(after)
    BY <1>a, <2>1, MoveCounts, MoveKeepsFlows DEF CountTypes
  <2>3. ASSUME NEW d \in Dragged(after, n, oldM), part' = Move(after, d, newM)
        PROVE  FlowsExact(part')
    <3>1. d \in Nodes /\ after.index[d] = oldM
      BY <2>3, DraggedIs
    <3> HIDE DEF after, oldM
    <3> QED  BY <2>1, <2>2, <2>3, <3>1, MoveKeepsFlows
  <2>4. part' = after \/ \E d \in Dragged(after, n, oldM) : part' = Move(after, d, newM)
    BY <1>4 DEF MoveBest
  <2> QED  BY <2>2, <2>3, <2>4
<1> QED
  BY <1>1, <1>2, <1>3, <1>4
  DEF Next, Sweep, StartSweep, Pass, Stay, EndSweep, RequestInterrupt, vars

(***************************************************************************)
(* The flow data that the moves add and subtract, with the enter and exit  *)
(* flow corrected by the deltas of the two modules, are at every moment    *)
(* what the modules' nodes and the links and the teleportation across      *)
(* their boundaries amount to (MapEquation::updateCodelengthOnMovingNode), *)
(* for directed, undirected and recorded flow.                             *)
(***************************************************************************)
THEOREM FlowCorrect == Spec => []FlowExact
<1>1. Init => FlowsExact(part)
  BY SingletonsBalanced DEF Init
<1>2. CountsExact /\ FlowsExact(part) /\ [Next]_vars => FlowsExact(part)'
  <2> SUFFICES ASSUME CountsExact, FlowsExact(part), [Next]_vars PROVE FlowsExact(part)'
    OBVIOUS
  <2>1. FlowsExact(part')
    BY FlowStep
  <2> QED  BY <2>1 DEF FlowsExact, Balanced, Members
<1>3. FlowsExact(part) => FlowExact
  BY DEF FlowsExact, FlowExact
<1> QED  BY <1>1, <1>2, <1>3, CountsCorrect, PTL DEF Spec

-----------------------------------------------------------------------------
(***************************************************************************)
(* The parallel sweep.                                                     *)
(***************************************************************************)
\* A finite set of numbers can be listed in ascending order: by their ranks.
LEMMA AscendingLists ==
  ASSUME NEW S \in SUBSET Int, IsFiniteSet(S)
  PROVE  /\ Ascending(S) \in Seq(S)
         /\ Len(Ascending(S)) = Cardinality(S)
         /\ {Ascending(S)[k] : k \in 1..Len(Ascending(S))} = S
<1> DEFINE N == Cardinality(S)
           Upto(x) == {y \in S : y <= x}
           rank == [x \in S |-> Cardinality(Upto(x))]
<1>0. \A x \in S : x \in Int
  OBVIOUS
<1>1. N \in Nat /\ IsFiniteSet(1..N) /\ Cardinality(1..N) = N
  BY FS_CardinalityType, FS_Interval
<1>2. \A x \in S : /\ IsFiniteSet(Upto(x)) /\ Cardinality(Upto(x)) \in Nat
                   /\ Cardinality(Upto(x)) <= N
  <2> TAKE x \in S
  <2>1. Upto(x) \in SUBSET S
    OBVIOUS
  <2> QED  BY <2>1, FS_Subset, FS_CardinalityType
<1>3. \A x \in S : Cardinality(Upto(x)) # 0
  <2> TAKE x \in S
  <2>1. x \in Upto(x)
    OBVIOUS
  <2> QED  BY <1>2, <2>1, FS_EmptySet
<1>4. \A x, y \in S : x < y => rank[x] < rank[y]
  <2> SUFFICES ASSUME NEW x \in S, NEW y \in S, x < y PROVE rank[x] < rank[y]
    OBVIOUS
  <2>0. x \in Int /\ y \in Int
    BY <1>0
  <2>1. Upto(x) \in SUBSET Upto(y) /\ y \in Upto(y) /\ y \notin Upto(x)
    <3>1. ASSUME NEW z \in S, z <= x PROVE z <= y
      BY <1>0, <2>0, <3>1
    <3>2. y <= y /\ ~(y <= x)
      BY <2>0
    <3> QED  BY <3>1, <3>2
  <2>2. Cardinality(Upto(x)) <= Cardinality(Upto(y)) /\ Cardinality(Upto(x)) # Cardinality(Upto(y))
    <3>1. IsFiniteSet(Upto(y))
      BY <1>2
    <3> HIDE DEF Upto
    <3> QED  BY <2>1, <3>1, FS_Subset
  <2> QED  BY <1>2, <2>2
<1>5. rank \in [S -> 1..N]
  BY <1>1, <1>2, <1>3
<1>6. rank \in Injection(S, 1..N)
  <2>1. \A x, y \in S : rank[x] = rank[y] => x = y
    <3> SUFFICES ASSUME NEW x \in S, NEW y \in S, rank[x] = rank[y] PROVE x = y
      OBVIOUS
    <3>1. rank[x] \in Int /\ rank[y] \in Int
      BY <1>1, <1>5
    <3> HIDE DEF rank
    <3> QED  BY <1>4, <3>1
  <2> HIDE DEF rank
  <2> QED  BY <1>5, <2>1 DEF Injection, IsInjective
<1>7. rank \in Surjection(S, 1..N)
  <2> HIDE DEF rank
  <2> QED  BY <1>1, <1>6, FS_Injection
<1>8. \A i \in 1..N : \E x \in S : rank[x] = i
  <2> HIDE DEF rank
  <2> QED  BY <1>7 DEF Surjection
<1> DEFINE list == [i \in 1..N |-> CHOOSE x \in S : rank[x] = i]
           Listed(s) == \A i, j \in 1..N : i < j => s[i] < s[j]
<1>9. list \in [1..N -> S] /\ \A i \in 1..N : rank[list[i]] = i
  <2> HIDE DEF rank
  <2> QED  BY <1>8
<1>10. Listed(list)
  <2> SUFFICES ASSUME NEW i \in 1..N, NEW j \in 1..N, i < j PROVE list[i] < list[j]
    OBVIOUS
  <2>1. list[i] \in S /\ list[j] \in S /\ rank[list[i]] = i /\ rank[list[j]] = j
    BY <1>9
  <2> HIDE DEF rank, list
  <2>2. list[i] \in Int /\ list[j] \in Int /\ i \in Int /\ j \in Int
    <3>1. list[i] \in Int /\ list[j] \in Int
      BY <1>0, <2>1
    <3>2. i \in Int /\ j \in Int
      BY <1>1
    <3> QED  BY <3>1, <3>2
  <2>3. list[j] < list[i] => rank[list[j]] < rank[list[i]]
    BY <1>4, <2>1
  <2>4. ~(list[j] < list[i]) /\ list[j] # list[i]
    BY <2>1, <2>2, <2>3
  <2> QED  BY <2>2, <2>4
<1>11. Ascending(S) \in [1..N -> S] /\ Listed(Ascending(S))
  <2> HIDE DEF rank, list
  <2> QED  BY <1>9, <1>10 DEF Ascending
<1> HIDE DEF rank, list
<1> DEFINE s == Ascending(S)
<1>12. s \in Injection(1..N, S)
  <2>1. \A i, j \in 1..N : s[i] = s[j] => i = j
    <3> SUFFICES ASSUME NEW i \in 1..N, NEW j \in 1..N, s[i] = s[j] PROVE i = j
      OBVIOUS
    <3>1. s[i] \in Int /\ i \in Int /\ j \in Int
      <4>1. s[i] \in S
        BY <1>11
      <4>2. s[i] \in Int
        BY <1>0, <4>1
      <4>3. i \in Int /\ j \in Int
        BY <1>1
      <4> QED  BY <4>2, <4>3
    <3>2. ~(i < j) /\ ~(j < i)
      BY <1>11, <3>1
    <3> HIDE DEF s
    <3> QED  BY <3>1, <3>2
  <2> HIDE DEF s
  <2> QED  BY <1>11, <2>1 DEF Injection, IsInjective, s
<1>13. s \in Surjection(1..N, S)
  BY <1>1, <1>12, FS_Injection
<1>14. s \in Seq(S) /\ Len(s) = N
  BY <1>1, <1>11
<1>15. {s[k] : k \in 1..N} = S
  <2>1. \A x \in S : \E k \in 1..N : s[k] = x
    BY <1>13 DEF Surjection
  <2> HIDE DEF s
  <2> QED  BY <1>11, <2>1 DEF s
<1> QED  BY <1>14, <1>15

-----------------------------------------------------------------------------
(***************************************************************************)
(* The inductive invariant.  BaseInv: types and member counts.  The counts *)
(* follow every commit, the stack of empty modules only the end of a       *)
(* sweep.  While the partition is set up all is as in ModuleMoves, and its *)
(* lemmas on a step apply.                                                 *)
(***************************************************************************)
IsMove(n) == proposals[n].kind = "move"

BaseInv ==
  /\ part = [index |-> part.index, members |-> part.members,
             empty |-> part.empty, flows |-> part.flows]
  /\ DataTypes
  /\ MembersExact(part)
  /\ phase # "commit" => Counted(part)
  /\ phase \in {"start", "predefined", "poll", "propose", "commit", "done"}
  /\ accepted \subseteq Nodes
  /\ proposals = [n \in Nodes |-> proposals[n]]
  /\ \A n \in Nodes : IsMove(n) =>
       proposals[n].oldM \in Modules /\ proposals[n].newM \in Modules \ {proposals[n].oldM}

\* A proposal still to be committed is for the module its node is in; and while
\* its two modules are untouched, it does not carry a lone node to an empty one.
Fits(n) ==
  LET oldM == proposals[n].oldM
      newM == proposals[n].newM
  IN  /\ part.index[n] = oldM
      /\ oldM \notin touched /\ newM \notin touched =>
           part.members[oldM] # 1 \/ part.members[newM] > 0

FitInv ==
  /\ phase = "propose" => touched = {} /\ accepted = {} /\ \A n \in Nodes : IsMove(n) => Fits(n)
  /\ phase = "commit" => \A n \in todo : IsMove(n) /\ Fits(n)

\* What the module says of candidates: a module is offered that has a node, or
\* the last empty one to a node that is not alone.
LEMMA CandidateIs ==
  ASSUME BaseInv, NEW n \in Nodes, NEW m \in Candidates(part, n, RandomMoves)
  PROVE  m \in Modules /\ (part.members[part.index[n]] # 1 \/ part.members[m] > 0)
<1>1. /\ part.index \in [Nodes -> Modules] /\ part.members \in [Modules -> Nat]
      /\ part.empty \in Seq(Modules)
  BY DEF BaseInv, DataTypes, CountTypes
<1>2. \A k \in Nodes : part.index[k] \in Modules /\ part.members[part.index[k]] > 0
  <2> TAKE k \in Nodes
  <2>1. part.index[k] \in Modules /\ k \in Members(part, part.index[k])
    BY <1>1 DEF Members
  <2>2. Members(part, part.index[k]) \in SUBSET Nodes
    BY DEF Members
  <2>3. part.members[part.index[k]] = Cardinality(Members(part, part.index[k]))
    BY <2>1 DEF BaseInv, MembersExact
  <2>4. part.members[part.index[k]] # 0
    BY <2>1, <2>2, <2>3, NodesFinite, FS_EmptySet
  <2> QED  BY <1>1, <2>1, <2>4
<1>3. \/ \E k \in Nodes : m = part.index[k]
      \/ /\ part.members[part.index[n]] > 1 /\ part.empty # <<>>
         /\ m = part.empty[Len(part.empty)]
  <2>1. Neighbours(n) \subseteq Nodes /\ PhysicallyTied(n) \subseteq Nodes
    BY DEF Neighbours, OutLinks, InLinks, PhysicallyTied
  <2> QED  BY <2>1 DEF Candidates
<1>4. part.empty # <<>> => part.empty[Len(part.empty)] \in Modules
  BY <1>1
<1>5. part.members[part.index[n]] \in Nat
  BY <1>1, <1>2
<1> QED  BY <1>2, <1>3, <1>4, <1>5

\* What a commit does, when it moves its node at all.
LEMMA AcceptIs ==
  ASSUME BaseInv, NEW n \in Nodes, NEW newM \in Modules, NEW a, NEW b,
         newM # part.index[n], Accept(n, part.index[n], newM, a, b)
  PROVE  /\ part' = [index |-> part'.index, members |-> part'.members,
                     empty |-> part'.empty, flows |-> part'.flows]
         /\ part'.empty = part.empty
         /\ part'.index = [part.index EXCEPT ![n] = newM]
         /\ part'.flows = MoveFlows(part.flows, n, part.index[n], newM, a, b)
         /\ MovedCounts(part, part', part.index[n], newM)
         /\ touched' = touched \cup {part.index[n], newM}
         /\ accepted' = accepted \cup {n}
         /\ unsettled' = (unsettled \ {n}) \cup Neighbours(n)
<1>1. part.index \in [Nodes -> Modules] /\ part.members \in [Modules -> Nat] /\ MembersExact(part)
  BY DEF BaseInv, DataTypes, CountTypes
<1>2. part' = [index |-> [part.index EXCEPT ![n] = newM],
               members |-> MoveMembers(part.members, part.index[n], newM),
               empty |-> part.empty,
               flows |-> MoveFlows(part.flows, n, part.index[n], newM, a, b)]
  <2> DEFINE fl == MoveFlows(part.flows, n, part.index[n], newM, a, b)
             me == MoveMembers(part.members, part.index[n], newM)
             ix == [part.index EXCEPT ![n] = newM]
  <2>1. part' = [part EXCEPT !.index[n] = newM, !.members = me, !.flows = fl]
    BY DEF Accept
  <2>2. part = [index |-> part.index, members |-> part.members,
                empty |-> part.empty, flows |-> part.flows]
    BY DEF BaseInv
  <2> HIDE DEF fl, me
  <2>3. part' = [part EXCEPT !.index = ix, !.members = me, !.flows = fl]
    BY <2>1
  <2> HIDE DEF ix
  <2>4. part' = [index |-> ix, members |-> me, empty |-> part.empty, flows |-> fl]
    BY <2>2, <2>3
  <2> QED  BY <2>4 DEF ix, me, fl
<1>3. Moves(part, part', n, newM)
  BY <1>2 DEF Moves
<1>4. MovedCounts(part, part', part.index[n], newM)
  BY <1>1, <1>3, MembersMove
<1> QED  BY <1>2, <1>4 DEF Accept

\* Which commits move a node, and where.
LEMMA CommitIs ==
  ASSUME BaseInv, FitInv, NEW n \in Nodes, Commit(n)
  PROVE  /\ phase = "commit" /\ n \in todo /\ IsMove(n) /\ Fits(n)
         /\ proposals[n].newM \in Modules /\ proposals[n].newM # part.index[n]
         /\ \/ UNCHANGED <<part, touched, accepted, unsettled>>
            \/ /\ part.members[part.index[n]] # 1 \/ part.members[proposals[n].newM] > 0
               /\ \E a, b : Accept(n, part.index[n], proposals[n].newM, a, b)
<1>1. phase = "commit" /\ n \in todo
  BY DEF Commit
<1>2. IsMove(n) /\ Fits(n)
  BY <1>1 DEF FitInv
<1>3. /\ part.index[n] = proposals[n].oldM
      /\ proposals[n].oldM \in Modules /\ proposals[n].newM \in Modules \ {proposals[n].oldM}
  BY <1>2 DEF Fits, BaseInv
<1>4. part.members[proposals[n].oldM] \in Nat
  BY <1>3 DEF BaseInv, DataTypes, CountTypes
<1>5. CASE UNCHANGED <<part, touched, accepted, unsettled>>
  BY <1>1, <1>2, <1>3, <1>5
<1>6. CASE /\ Untouched(proposals[n])
           /\ \E a, b : Accept(n, proposals[n].oldM, proposals[n].newM, a, b)
  BY <1>1, <1>2, <1>3, <1>6 DEF Fits, Untouched
<1>7. CASE /\ ValidMove(proposals[n])
           /\ \E a, b : Accept(n, proposals[n].oldM, proposals[n].newM, a, b)
  <2>1. part.members[proposals[n].oldM] > 1 \/ part.members[proposals[n].newM] > 0
    BY <1>7 DEF ValidMove
  <2>2. part.members[proposals[n].oldM] # 1 \/ part.members[proposals[n].newM] > 0
    BY <1>4, <2>1
  <2> QED  BY <1>1, <1>2, <1>3, <1>7, <2>2
<1> QED  BY <1>5, <1>6, <1>7 DEF Commit

\* The list rebuilt after the commits is one of the ascending lists.
LEMMA RebuiltIs ==
  ASSUME CountTypes(part)
  PROVE  /\ Rebuilt(part) \in Seq(Modules)
         /\ Len(Rebuilt(part)) = Cardinality(EmptyModules(part))
         /\ {Rebuilt(part)[k] : k \in 1..Len(Rebuilt(part))} = EmptyModules(part)
<1> DEFINE E == EmptyModules(part)
<1>1. E \in SUBSET Nodes /\ Nodes \subseteq Int /\ IsFiniteSet(E)
  BY NodesFinite, SizeAssumption DEF EmptyModules, Modules, Nodes
<1>2. /\ Ascending(E) \in Seq(E) /\ Len(Ascending(E)) = Cardinality(E)
      /\ {Ascending(E)[k] : k \in 1..Len(Ascending(E))} = E
  <2> HIDE DEF E
  <2> QED  BY <1>1, AscendingLists
<1>3. Ascending(E) \in Seq(Modules)
  <2> DEFINE s == Ascending(E)
  <2>1. E \subseteq Modules
    BY DEF EmptyModules
  <2>2. s \in Seq(E)
    BY <1>2
  <2> HIDE DEF E, s
  <2>3. Len(s) \in Nat /\ s = [k \in 1..Len(s) |-> s[k]] /\ \A k \in 1..Len(s) : s[k] \in E
    BY <2>2
  <2>4. \A k \in 1..Len(s) : s[k] \in Modules
    BY <2>1, <2>3
  <2>5. s \in Seq(Modules)
    BY <2>3, <2>4
  <2> QED  BY <2>5 DEF s
<1> QED  BY <1>2, <1>3 DEF Rebuilt

\* A step that sets up the partition is one of ModuleMoves.
LEMMA SetUpStep ==
  ASSUME BaseInv, InitPartition \/ PredefinedMove
  PROVE  CountsExact /\ [Next]_vars /\ phase' \in {"poll", "predefined"} /\ phase # "commit"
<1>1. phase \in {"start", "predefined", "done"}
  BY DEF InitPartition, PredefinedMove
<1>2. phase' \in {"poll", "predefined"}
  BY DEF InitPartition, PredefinedMove
<1>3. CountsExact
  BY <1>1 DEF BaseInv, CountsExact, TypeOK
<1> QED  BY <1>1, <1>2, <1>3 DEF Next

\* What the loop's bottom leaves.
LEMMA LoopEndsIs ==
  ASSUME codelength \in 0..MaxCodelength, NEW k \in BOOLEAN, LoopEnds(k)
  PROVE  codelength' \in 0..MaxCodelength /\ phase' \in {"poll", "done"}
<1>1. MaxCodelength \in Nat
  BY OptimizerAssumption
<1> QED  BY <1>1 DEF LoopEnds

\* The flag may be raised or lowered at any time.
LEMMA CancelStep ==
  ASSUME RequestInterrupt
  PROVE  /\ UNCHANGED <<part, dirty, memAdded, phase, loopVars, todo, moved, loops,
                        codelength, applied, unsettled>>
         /\ cancel' \in BOOLEAN
  BY DEF RequestInterrupt

\* Each step keeps types, counts and flags.
LEMMA BaseStep ==
  ASSUME BaseInv, FitInv, [ParallelNext]_parallelVars
  PROVE  BaseInv'
<1> USE DEF DataTypes, CountTypes, MembersExact, Counted, Members, EmptyModules, IsMove, loopVars
<1>1. CASE StartParallelSweep
  <2>1. /\ proposals' = NoProposals /\ accepted' = {} /\ phase' \in {"done", "propose"}
        /\ todo' \subseteq Nodes /\ loops' \in Nat
        /\ UNCHANGED <<part, dirty, memAdded, loopVars, moved, codelength, cancel, applied,
                       unsettled>>
    BY <1>1 DEF StartParallelSweep, BaseInv
  <2>2. proposals' = [n \in Nodes |-> proposals'[n]] /\ \A n \in Nodes : ~IsMove(n)'
    BY <2>1 DEF NoProposals, NoProposal
  <2>3. phase # "commit"
    BY <1>1 DEF StartParallelSweep
  <2> QED  BY <2>1, <2>2, <2>3 DEF BaseInv
<1>2. ASSUME NEW n \in Nodes, Drain(n) PROVE BaseInv'
  BY <1>2 DEF Drain, Evaluate, BaseInv
<1>3. ASSUME NEW n \in Nodes, Propose(n) PROVE BaseInv'
  <2>1. PICK m \in Candidates(part, n, RandomMoves) :
          /\ proposals' = [proposals EXCEPT
                             ![n] = IF m = part.index[n] THEN Settled ELSE Proposal(n, m)]
          /\ unsettled' = IF m = part.index[n] THEN unsettled \ {n} ELSE unsettled
    BY <1>3 DEF Propose
  <2>2. m \in Modules /\ part.index[n] \in Modules
    BY CandidateIs DEF BaseInv
  <2>3. proposals' = [k \in Nodes |-> proposals'[k]]
    BY <2>1 DEF BaseInv
  <2>4. ASSUME NEW k \in Nodes, proposals'[k].kind = "move"
        PROVE  proposals'[k].oldM \in Modules /\ proposals'[k].newM \in Modules \ {proposals'[k].oldM}
    <3>1. CASE k # n
      BY <2>1, <2>4, <3>1 DEF BaseInv
    <3>2. CASE k = n
      <4>1. proposals'[n] = IF m = part.index[n] THEN Settled ELSE Proposal(n, m)
        BY <2>1 DEF BaseInv
      <4>2. m # part.index[n] /\ proposals'[n] = Proposal(n, m)
        BY <2>4, <3>2, <4>1 DEF Settled
      <4>3. proposals'[n].oldM = part.index[n] /\ proposals'[n].newM = m
        BY <4>2 DEF Proposal
      <4> QED  BY <2>2, <3>2, <4>2, <4>3
    <3> QED  BY <3>1, <3>2
  <2>5. /\ UNCHANGED <<part, dirty, memAdded, phase, loopVars, moved, loops, codelength,
                       cancel, applied, accepted>>
        /\ todo' \subseteq todo /\ unsettled' \subseteq unsettled
    BY <1>3, <2>1 DEF Propose, Evaluate
  <2> QED  BY <2>3, <2>4, <2>5 DEF BaseInv
<1>4. ASSUME NEW n \in Nodes, Commit(n) PROVE BaseInv'
  <2>1. /\ UNCHANGED <<dirty, memAdded, phase, loopVars, moved, loops, codelength, cancel,
                       applied, proposals>>
        /\ todo' \subseteq todo /\ phase = "commit"
    BY <1>4 DEF Commit
  <2>2. CASE UNCHANGED <<part, touched, accepted, unsettled>>
    BY <2>1, <2>2 DEF BaseInv
  <2>3. CASE \E a, b : Accept(n, part.index[n], proposals[n].newM, a, b)
    <3> DEFINE newM == proposals[n].newM
    <3>1. newM \in Modules /\ newM # part.index[n]
      BY <1>4, CommitIs
    <3>2. PICK a, b : Accept(n, part.index[n], newM, a, b)
      BY <2>3
    <3>3. /\ part' = [index |-> part'.index, members |-> part'.members,
                      empty |-> part'.empty, flows |-> part'.flows]
          /\ part'.empty = part.empty
          /\ MovedCounts(part, part', part.index[n], newM)
          /\ accepted' = accepted \cup {n}
          /\ unsettled' = (unsettled \ {n}) \cup Neighbours(n)
      BY <3>1, <3>2, AcceptIs
    <3>4. Neighbours(n) \subseteq Nodes
      BY DEF Neighbours, OutLinks, InLinks
    <3>5. MembersExact(part)' /\ CountTypes(part)'
      BY <3>3 DEF MovedCounts, BaseInv
    <3>6. todo' \subseteq Nodes /\ unsettled' \subseteq Nodes /\ accepted' \subseteq Nodes
      BY <2>1, <3>3, <3>4 DEF BaseInv
    <3> QED  BY <2>1, <3>3, <3>5, <3>6 DEF BaseInv
  <2> QED  BY <1>4, <2>2, <2>3, CommitIs
<1>5. CASE Barrier
  BY <1>5 DEF Barrier, BaseInv, sweepVars
<1>6. CASE FinishSweep
  <2> DEFINE stack == Rebuilt(part)
  <2>1. part' = [index |-> part.index, members |-> part.members,
                 empty |-> stack, flows |-> part.flows]
    <3>1. part' = [part EXCEPT !.empty = stack]
      BY <1>6 DEF FinishSweep
    <3>2. part = [index |-> part.index, members |-> part.members,
                  empty |-> part.empty, flows |-> part.flows]
      BY DEF BaseInv
    <3> HIDE DEF stack
    <3> QED  BY <3>1, <3>2
  <2>2. stack \in Seq(Modules) /\ Len(stack) = Cardinality(EmptyModules(part))
    BY RebuiltIs DEF BaseInv
  <2>3. EmptyModules(part') = EmptyModules(part)
    BY <2>1
  <2> HIDE DEF stack
  <2>4. dirty' \in [Nodes -> BOOLEAN]
    BY <1>6 DEF FinishSweep, DirtyAfter, MarkDirty
  <2>5. codelength' \in 0..MaxCodelength /\ phase' \in {"poll", "done"}
    <3>1. LoopEnds(accepted # {}) /\ codelength \in 0..MaxCodelength
      BY <1>6 DEF FinishSweep, BaseInv
    <3> QED  BY <3>1, LoopEndsIs
  <2>6. /\ proposals' = NoProposals /\ accepted' = {}
        /\ UNCHANGED <<memAdded, loopVars, todo, moved, loops, cancel, applied, unsettled>>
    BY <1>6 DEF FinishSweep
  <2>7. proposals' = [n \in Nodes |-> proposals'[n]] /\ \A n \in Nodes : ~IsMove(n)'
    BY <2>6 DEF NoProposals, NoProposal
  <2>8. MembersExact(part)' /\ CountTypes(part)'
    BY <2>1, <2>2 DEF BaseInv
  <2>9. Counted(part)'
    BY <2>1, <2>2, <2>3, <2>8
  <2>10. DataTypes'
    BY <2>4, <2>5, <2>6, <2>8 DEF BaseInv
  <2>11. part' = [index |-> part'.index, members |-> part'.members,
                  empty |-> part'.empty, flows |-> part'.flows]
    BY <2>1
  <2> QED  BY <2>5, <2>6, <2>7, <2>8, <2>9, <2>10, <2>11 DEF BaseInv
<1>7. CASE RequestInterrupt /\ UNCHANGED sweepVars
  <2>1. /\ UNCHANGED <<part, dirty, memAdded, phase, loopVars, todo, moved, loops,
                       codelength, applied, unsettled, proposals, accepted>>
        /\ cancel' \in BOOLEAN
    BY <1>7, CancelStep DEF sweepVars
  <2> QED  BY <2>1 DEF BaseInv
<1>8. CASE (InitPartition \/ PredefinedMove) /\ UNCHANGED sweepVars
  <2>1. CountsExact /\ [Next]_vars /\ phase' \in {"poll", "predefined"}
    BY <1>8, SetUpStep
  <2>2. TypeOK'
    BY <2>1, TypeStep
  <2>3. CountTypes(part') /\ Counted(part')
    BY <2>1, PartitionStep
  <2>4. part' = [index |-> part'.index, members |-> part'.members,
                 empty |-> part'.empty, flows |-> part'.flows]
    <3>1. CASE InitPartition
      BY <3>1 DEF InitPartition, Singletons
    <3>2. CASE PredefinedMove
      <4>1. part' = part \/ \E m : part' = Move(part, cursor, m)
        BY <3>2 DEF PredefinedMove
      <4>2. ASSUME NEW m, part' = Move(part, cursor, m)
            PROVE  part' = [index |-> part'.index, members |-> part'.members,
                            empty |-> part'.empty, flows |-> part'.flows]
        BY <4>2 DEF Move
      <4> QED  BY <4>1, <4>2 DEF BaseInv
    <3> QED  BY <1>8, <3>1, <3>2
  <2>5. UNCHANGED <<accepted, proposals>>
    BY <1>8 DEF sweepVars
  <2> QED  BY <2>1, <2>2, <2>3, <2>4, <2>5 DEF BaseInv, TypeOK
<1>9. CASE UNCHANGED parallelVars
  BY <1>9 DEF parallelVars, vars, sweepVars, BaseInv
<1> QED
  BY <1>1, <1>2, <1>3, <1>4, <1>5, <1>6, <1>7, <1>8, <1>9
  DEF ParallelNext, ParallelSweep, SharedStep

\* Each step keeps what is known of the proposals still to be committed.
LEMMA FitStep ==
  ASSUME BaseInv, FitInv, [ParallelNext]_parallelVars
  PROVE  FitInv'
<1> USE DEF IsMove
<1>1. CASE StartParallelSweep
  <2>1. CASE cancel
    BY <1>1, <2>1 DEF StartParallelSweep, FitInv
  <2>2. CASE ~cancel
    <3>1. phase' = "propose" /\ touched' = {} /\ accepted' = {}
          /\ proposals' = NoProposals
      BY <1>1, <2>2 DEF StartParallelSweep
    <3>2. \A n \in Nodes : proposals'[n].kind = "none"
      BY <3>1 DEF NoProposals, NoProposal
    <3> QED  BY <3>1, <3>2 DEF FitInv
  <2> QED  BY <2>1, <2>2
<1>2. ASSUME NEW n \in Nodes, Drain(n) PROVE FitInv'
  BY <1>2 DEF Drain, Evaluate, FitInv, Fits
<1>3. ASSUME NEW n \in Nodes, Propose(n) PROVE FitInv'
  <2>1. PICK m \in Candidates(part, n, RandomMoves) :
          proposals' = [proposals EXCEPT
                          ![n] = IF m = part.index[n] THEN Settled ELSE Proposal(n, m)]
    BY <1>3 DEF Propose
  <2>2. UNCHANGED <<part, phase, touched, accepted>> /\ phase = "propose"
    BY <1>3 DEF Propose, Evaluate
  <2>3. touched = {} /\ accepted = {} /\ \A k \in Nodes : IsMove(k) => Fits(k)
    BY <2>2 DEF FitInv
  <2>4. ASSUME NEW k \in Nodes, IsMove(k)' PROVE Fits(k)'
    <3>1. CASE k # n
      <4>1. proposals'[k] = proposals[k]
        BY <2>1, <3>1 DEF BaseInv
      <4> QED  BY <2>2, <2>3, <2>4, <4>1 DEF Fits
    <3>2. CASE k = n
      <4>1. proposals'[n] = IF m = part.index[n] THEN Settled ELSE Proposal(n, m)
        BY <2>1 DEF BaseInv
      <4>2. m # part.index[n] /\ proposals'[n] = Proposal(n, m)
        BY <2>4, <3>2, <4>1 DEF Settled
      <4>3. proposals'[n].oldM = part.index[n] /\ proposals'[n].newM = m
        BY <4>2 DEF Proposal
      <4>4. part.members[part.index[n]] # 1 \/ part.members[m] > 0
        BY CandidateIs
      <4> QED  BY <2>2, <3>2, <4>3, <4>4 DEF Fits
    <3> QED  BY <3>1, <3>2
  <2> QED  BY <2>2, <2>3, <2>4 DEF FitInv
<1>4. ASSUME NEW n \in Nodes, Commit(n) PROVE FitInv'
  <2>1. UNCHANGED <<phase, proposals>> /\ todo' = todo \ {n} /\ phase = "commit"
    BY <1>4 DEF Commit
  <2>2. CASE UNCHANGED <<part, touched, accepted, unsettled>>
    BY <2>1, <2>2 DEF FitInv, Fits
  <2>3. CASE \E a, b : Accept(n, part.index[n], proposals[n].newM, a, b)
    <3> DEFINE oldM == part.index[n]
               newM == proposals[n].newM
    <3>1. newM \in Modules /\ newM # oldM
      BY <1>4, CommitIs
    <3>2. PICK a, b : Accept(n, oldM, newM, a, b)
      BY <2>3
    <3>3. /\ part'.index = [part.index EXCEPT ![n] = newM]
          /\ MovedCounts(part, part', oldM, newM)
          /\ touched' = touched \cup {oldM, newM}
      BY <3>1, <3>2, AcceptIs
    <3>4. ASSUME NEW k \in todo' PROVE IsMove(k)' /\ Fits(k)'
      <4>1. k \in Nodes /\ k # n /\ IsMove(k) /\ Fits(k)
        BY <2>1, <3>4 DEF FitInv, BaseInv, DataTypes
      <4>2. part'.index[k] = part.index[k]
        BY <3>3, <4>1 DEF BaseInv, CountTypes
      <4>3. proposals[k].oldM \in Modules /\ proposals[k].newM \in Modules
        BY <4>1 DEF BaseInv
      <4>4. \A m \in Modules : m \notin touched' => m \notin touched /\ part'.members[m] = part.members[m]
        BY <3>3 DEF MovedCounts
      <4> QED  BY <2>1, <4>1, <4>2, <4>3, <4>4 DEF Fits
    <3> QED  BY <2>1, <3>4 DEF FitInv
  <2> QED  BY <1>4, <2>2, <2>3, CommitIs
<1>5. CASE Barrier
  <2>1. /\ phase = "propose" /\ phase' = "commit" /\ todo' = {n \in Nodes : IsMove(n)}
        /\ UNCHANGED <<part, proposals, touched>>
    BY <1>5 DEF Barrier, sweepVars
  <2> QED  BY <2>1 DEF FitInv, Fits
<1>6. CASE FinishSweep
  <2>1. phase' \in {"poll", "done"}
    BY <1>6 DEF FinishSweep, LoopEnds
  <2> QED  BY <2>1 DEF FitInv
<1>7. CASE RequestInterrupt /\ UNCHANGED sweepVars
  BY <1>7, CancelStep DEF sweepVars, FitInv, Fits
<1>8. CASE (InitPartition \/ PredefinedMove) /\ UNCHANGED sweepVars
  <2>1. phase' \in {"poll", "predefined"}
    BY <1>8, SetUpStep
  <2> QED  BY <2>1 DEF FitInv
<1>9. CASE UNCHANGED parallelVars
  BY <1>9 DEF parallelVars, vars, sweepVars, FitInv, Fits
<1> QED
  BY <1>1, <1>2, <1>3, <1>4, <1>5, <1>6, <1>7, <1>8, <1>9
  DEF ParallelNext, ParallelSweep, SharedStep

LEMMA InitInv == ParallelInit => BaseInv /\ FitInv
<1> SUFFICES ASSUME ParallelInit PROVE BaseInv /\ FitInv
  OBVIOUS
<1>1. Init /\ CountsExact
  BY InitCounted DEF ParallelInit
<1>2. part = [index |-> part.index, members |-> part.members,
              empty |-> part.empty, flows |-> part.flows]
  BY <1>1 DEF Init, Singletons
<1>3. /\ proposals = [n \in Nodes |-> proposals[n]]
      /\ \A n \in Nodes : ~IsMove(n)
  BY DEF ParallelInit, NoProposals, NoProposal, IsMove
<1>4. phase = "start" /\ accepted = {}
  BY DEF Init, ParallelInit
<1>5. MembersExact(part)
  BY <1>1 DEF CountsExact, Counted, MembersExact
<1> QED  BY <1>1, <1>2, <1>3, <1>4, <1>5 DEF BaseInv, FitInv, CountsExact, TypeOK

LEMMA SweepInvariant == ParallelSpec => [](BaseInv /\ FitInv)
<1>1. BaseInv /\ FitInv /\ [ParallelNext]_parallelVars => (BaseInv /\ FitInv)'
  BY BaseStep, FitStep
<1> QED  BY <1>1, InitInv, PTL DEF ParallelSpec

-----------------------------------------------------------------------------
(***************************************************************************)
(* Two nodes that each proposed to join the other do not swap modules: no  *)
(* commit carries a node that is alone into an empty module.  The fast     *)
(* path rests on the proposal being made when its two modules were as they *)
(* still are, the slow one on validMove (commit loop of                    *)
(* tryMoveEachNodeIntoBestModuleInParallel).                               *)
(***************************************************************************)
THEOREM LoneNodeCorrect == ParallelSpec => NoLoneNodeRenamed
<1> DEFINE Kept(n) == part'.index[n] # part.index[n] /\ part.members[part.index[n]] = 1
                        => part.members[part'.index[n]] > 0
<1>1. ASSUME BaseInv, FitInv, [ParallelNext]_parallelVars, phase = "commit", NEW n \in Nodes
      PROVE  Kept(n)
  <2>1. CASE part'.index = part.index
    BY <2>1
  <2>2. ASSUME NEW k \in Nodes, Commit(k), part' # part PROVE Kept(n)
    <3>1. /\ proposals[k].newM \in Modules /\ proposals[k].newM # part.index[k]
          /\ part.members[part.index[k]] # 1 \/ part.members[proposals[k].newM] > 0
          /\ \E a, b : Accept(k, part.index[k], proposals[k].newM, a, b)
      BY <1>1, <2>2, CommitIs
    <3>2. part'.index = [part.index EXCEPT ![k] = proposals[k].newM]
      BY <1>1, <3>1, AcceptIs
    <3>3. part.index \in [Nodes -> Modules]
      BY <1>1 DEF BaseInv, DataTypes, CountTypes
    <3>4. part'.index[k] = proposals[k].newM /\ (n # k => part'.index[n] = part.index[n])
      BY <3>2, <3>3
    <3> QED  BY <3>1, <3>4
  <2>3. CASE FinishSweep
    <3>1. part = [index |-> part.index, members |-> part.members,
                  empty |-> part.empty, flows |-> part.flows]
      BY <1>1 DEF BaseInv
    <3>2. part'.index = part.index
      BY <2>3, <3>1 DEF FinishSweep
    <3> QED  BY <3>2
  <2>4. CASE UNCHANGED part
    BY <2>4
  <2> QED
    BY <1>1, <2>2, <2>3, <2>4
    DEF ParallelNext, ParallelSweep, SharedStep, StartParallelSweep, InitPartition,
        PredefinedMove, RequestInterrupt, Drain, Propose, Evaluate, Barrier, parallelVars, vars
<1>2. BaseInv /\ FitInv /\ [ParallelNext]_parallelVars
        => [phase = "commit" => \A n \in Nodes : Kept(n)]_parallelVars
  BY <1>1
<1> QED  BY <1>2, SweepInvariant, PTL DEF ParallelSpec, NoLoneNodeRenamed

-----------------------------------------------------------------------------
StackIs(p) == {p.empty[k] : k \in 1..Len(p.empty)} = EmptyModules(p)

\* What the predefined moves leave on the stack is gone after the first sweep.
StackInv ==
  /\ phase = "predefined" => loops = 0
  /\ phase \in {"poll", "done"} /\ loops > 0 => StackIs(part)

(***************************************************************************)
(* Outside the commit loop the member counts are those of the modules and  *)
(* m_emptyModules has one entry for each empty one, whatever was committed *)
(* in between; after a sweep the entries are the empty modules themselves: *)
(* the counts follow each commit, the list is rebuilt at the end           *)
(* (tryMoveEachNodeIntoBestModuleInParallel).                              *)
(***************************************************************************)
THEOREM EmptyModulesCorrect == ParallelSpec => []EmptyModulesExact
<1>1. ParallelInit => StackInv
  BY DEF ParallelInit, Init, StackInv
<1>2. BaseInv /\ StackInv /\ [ParallelNext]_parallelVars => StackInv'
  <2> SUFFICES ASSUME BaseInv, StackInv, [ParallelNext]_parallelVars PROVE StackInv'
    OBVIOUS
  <2>1. CASE UNCHANGED <<part, loops>> /\ (phase' = phase \/ phase' \notin {"predefined", "poll", "done"})
    BY <2>1 DEF StackInv, StackIs, EmptyModules
  <2>2. CASE StartParallelSweep
    <3>1. \/ phase' = "propose"
          \/ phase = "poll" /\ phase' = "done" /\ UNCHANGED <<part, loops>>
      BY <2>2 DEF StartParallelSweep
    <3> QED  BY <3>1 DEF StackInv, StackIs, EmptyModules
  <2>3. CASE FinishSweep
    <3> DEFINE stack == Rebuilt(part)
    <3>1. part' = [part EXCEPT !.empty = stack]
      BY <2>3 DEF FinishSweep
    <3>2. part = [index |-> part.index, members |-> part.members,
                  empty |-> part.empty, flows |-> part.flows]
      BY DEF BaseInv
    <3>3. part'.empty = stack /\ part'.members = part.members
      <4> HIDE DEF stack
      <4> QED  BY <3>1, <3>2
    <3>4. EmptyModules(part') = EmptyModules(part)
      BY <3>3 DEF EmptyModules
    <3>5. {stack[k] : k \in 1..Len(stack)} = EmptyModules(part)
      BY RebuiltIs DEF BaseInv, DataTypes
    <3>6. StackIs(part')
      <4> HIDE DEF stack
      <4> QED  BY <3>3, <3>4, <3>5 DEF StackIs
    <3>7. phase' \in {"poll", "done"}
      BY <2>3 DEF FinishSweep, LoopEnds
    <3> QED  BY <3>6, <3>7 DEF StackInv, StackIs, EmptyModules
  <2>4. CASE InitPartition
    <3>1. loops' = 0
      BY <2>4 DEF InitPartition
    <3> QED  BY <3>1 DEF StackInv
  <2>5. CASE PredefinedMove
    <3>1. loops' = 0
      BY <2>5 DEF PredefinedMove, StackInv
    <3> QED  BY <3>1 DEF StackInv
  <2>6. ASSUME NEW n \in Nodes, Commit(n) PROVE StackInv'
    BY <2>6 DEF Commit, StackInv
  <2> QED
    BY <2>1, <2>2, <2>3, <2>4, <2>5, <2>6
    DEF ParallelNext, ParallelSweep, SharedStep, Drain, Propose, Evaluate, Barrier,
        RequestInterrupt, parallelVars, vars
<1>3. BaseInv /\ StackInv => EmptyModulesExact
  BY DEF BaseInv, StackInv, StackIs, EmptyModulesExact
<1> QED  BY <1>1, <1>2, <1>3, SweepInvariant, PTL DEF ParallelSpec

-----------------------------------------------------------------------------
\* During a sweep a node that must be dirty afterwards is dirty and will not be
\* cleared, or will be marked because of a commit.
WillBeDirty(n) ==
  \/ dirty[n] /\ proposals[n].kind # "clearDirty"
  \/ \E m \in accepted : n \in DirtiedBy(m)

CleanInv ==
  /\ phase \in {"propose", "commit"} => \A n \in unsettled : WillBeDirty(n)
  /\ phase \notin {"propose", "commit"} => \A n \in unsettled : dirty[n]
  /\ phase = "predefined" => \A n \in Nodes : dirty[n]

(***************************************************************************)
(* Between sweeps a clean node has been evaluated since any node it is     *)
(* linked to moved.  In particular a node that was found settled and has a *)
(* neighbour committed later in the same sweep is dirty after it, also if  *)
(* a cancel drained the sweep half way.                                    *)
(***************************************************************************)
THEOREM ParallelCleanCorrect == ParallelSpec => []SettledBetweenSweeps
<1>1. ParallelInit => CleanInv
  BY DEF ParallelInit, Init, CleanInv
<1>2. BaseInv /\ FitInv /\ CleanInv /\ [ParallelNext]_parallelVars => CleanInv'
  <2> SUFFICES ASSUME BaseInv, FitInv, CleanInv, [ParallelNext]_parallelVars PROVE CleanInv'
    OBVIOUS
  <2> USE DEF CleanInv, WillBeDirty
  <2>a. unsettled \subseteq Nodes /\ accepted \subseteq Nodes
    BY DEF BaseInv, DataTypes
  <2>1. CASE StartParallelSweep
    <3>1. phase = "poll" /\ UNCHANGED <<dirty, unsettled>>
      BY <2>1 DEF StartParallelSweep
    <3>2. \/ phase' = "done"
          \/ phase' = "propose" /\ proposals' = NoProposals
      BY <2>1 DEF StartParallelSweep
    <3> QED  BY <2>a, <3>1, <3>2 DEF NoProposals, NoProposal
  <2>2. ASSUME NEW n \in Nodes, Drain(n) PROVE CleanInv'
    BY <2>2 DEF Drain, Evaluate
  <2>3. ASSUME NEW n \in Nodes, Propose(n) PROVE CleanInv'
    <3>1. PICK m \in Candidates(part, n, RandomMoves) :
            /\ proposals' = [proposals EXCEPT
                               ![n] = IF m = part.index[n] THEN Settled ELSE Proposal(n, m)]
            /\ unsettled' = IF m = part.index[n] THEN unsettled \ {n} ELSE unsettled
      BY <2>3 DEF Propose
    <3>2. UNCHANGED <<dirty, phase, accepted>> /\ phase = "propose"
      BY <2>3 DEF Propose, Evaluate
    <3>3. dirty[n]
      BY <2>3 DEF Propose, PassedOver
    <3>4. ASSUME NEW k \in unsettled' PROVE WillBeDirty(k)'
      <4>1. k \in unsettled /\ k \in Nodes /\ WillBeDirty(k)
        BY <2>a, <3>1, <3>2, <3>4
      <4>2. CASE k # n
        <5>1. proposals'[k] = proposals[k]
          BY <3>1, <4>2
        <5> QED  BY <3>2, <4>1, <5>1
      <4>3. CASE k = n
        <5>1. m # part.index[n]
          BY <3>1, <3>4, <4>3
        <5>2. proposals'[n] = Proposal(n, m)
          BY <3>1, <5>1 DEF BaseInv
        <5>3. proposals'[n].kind # "clearDirty"
          BY <5>2 DEF Proposal
        <5> QED  BY <3>2, <3>3, <4>3, <5>3
      <4> QED  BY <4>2, <4>3
    <3> QED  BY <3>2, <3>4
  <2>4. ASSUME NEW n \in Nodes, Commit(n) PROVE CleanInv'
    <3>1. UNCHANGED <<dirty, phase, proposals>> /\ phase = "commit"
      BY <2>4 DEF Commit
    <3>2. CASE UNCHANGED <<part, touched, accepted, unsettled>>
      BY <3>1, <3>2
    <3>3. CASE \E a, b : Accept(n, part.index[n], proposals[n].newM, a, b)
      <4>1. accepted' = accepted \cup {n} /\ unsettled' = (unsettled \ {n}) \cup Neighbours(n)
        BY <3>3 DEF Accept
      <4>2. Neighbours(n) = DirtiedBy(n)
        BY DEF Neighbours, DirtiedBy
      <4> QED  BY <3>1, <4>1, <4>2
    <3> QED  BY <2>4, <3>2, <3>3, CommitIs
  <2>5. CASE Barrier
    BY <2>5 DEF Barrier, sweepVars
  <2>6. CASE FinishSweep
    <3>1. phase = "commit" /\ unsettled' = unsettled /\ phase' \in {"poll", "done"}
          /\ dirty' = DirtyAfter
      BY <2>6 DEF FinishSweep, LoopEnds
    <3>2. ASSUME NEW k \in unsettled PROVE dirty'[k]
      <4>1. k \in Nodes /\ WillBeDirty(k)
        BY <2>a, <3>1
      <4>2. dirty'[k] = (k \in UNION {DirtiedBy(n) : n \in accepted} \/ (dirty[k] /\ k \notin Cleared))
        BY <3>1, <4>1 DEF DirtyAfter, MarkDirty
      <4>3. k \notin Cleared <=> proposals[k].kind # "clearDirty"
        BY <4>1 DEF Cleared
      <4> QED  BY <4>1, <4>2, <4>3
    <3> QED  BY <3>1, <3>2
  <2>7. CASE RequestInterrupt /\ UNCHANGED sweepVars
    BY <2>7, CancelStep DEF sweepVars
  <2>8. CASE UNCHANGED parallelVars
    BY <2>8 DEF parallelVars, vars, sweepVars
  <2>9. CASE InitPartition
    BY <2>9 DEF InitPartition
  <2>10. CASE PredefinedMove
    <3>1. /\ dirty' = dirty /\ (\A n \in Nodes : dirty[n])
          /\ phase' \in {"predefined", "poll"}
      BY <2>10 DEF PredefinedMove
    <3>2. unsettled' \subseteq Nodes
      BY <2>a, <2>10, LinksOf DEF PredefinedMove, BaseInv, DataTypes, Neighbours
    <3> QED  BY <3>1, <3>2
  <2> QED
    BY <2>1, <2>2, <2>3, <2>4, <2>5, <2>6, <2>7, <2>8, <2>9, <2>10
    DEF ParallelNext, ParallelSweep, SharedStep
<1>3. BaseInv /\ FitInv /\ CleanInv => SettledBetweenSweeps
  <2> SUFFICES ASSUME BaseInv, FitInv, CleanInv, phase # "commit", NEW n \in unsettled
               PROVE  dirty[n]
    BY DEF SettledBetweenSweeps, CleanIsSettled
  <2>1. CASE phase # "propose"
    BY <2>1 DEF CleanInv
  <2>2. CASE phase = "propose"
    BY <2>2 DEF CleanInv, WillBeDirty, FitInv
  <2> QED  BY <2>1, <2>2
<1> QED  BY <1>1, <1>2, <1>3, SweepInvariant, PTL DEF ParallelSpec
-----------------------------------------------------------------------------
(***************************************************************************)
(* The flow.  A proposal's deltas are those of the partition for as long   *)
(* as neither of its modules is touched: nobody else moves while nodes are *)
(* evaluated, and a commit changes the members of two modules only, both   *)
(* of which it touches.                                                    *)
(***************************************************************************)
TrueDeltas(n) ==
  /\ proposals[n].oldDelta = Delta(part, n, proposals[n].oldM)
  /\ proposals[n].newDelta = Delta(part, n, proposals[n].newM)

DeltaInv ==
  /\ phase = "propose" => \A n \in Nodes : IsMove(n) => TrueDeltas(n)
  /\ phase = "commit" => \A n \in todo : Untouched(proposals[n]) => TrueDeltas(n)

FlowInv ==
  /\ FlowsExact(part)
  /\ \A n \in Nodes : proposals[n] \in Proposals
  /\ touched \subseteq Modules
  /\ DeltaInv

\* A commit moves its node with the deltas of the partition it finds, whether they
\* are the proposal's or taken again.
LEMMA CommitDeltas ==
  ASSUME BaseInv, FitInv, FlowInv, NEW n \in Nodes, Commit(n)
  PROVE  \/ UNCHANGED <<part, touched, accepted, unsettled>>
         \/ Accept(n, part.index[n], proposals[n].newM, Delta(part, n, part.index[n]),
                   Delta(part, n, proposals[n].newM))
<1>1. phase = "commit" /\ n \in todo /\ part.index[n] = proposals[n].oldM
  BY CommitIs DEF Fits
<1>2. Untouched(proposals[n]) => TrueDeltas(n)
  BY <1>1 DEF FlowInv, DeltaInv
<1>3. CASE UNCHANGED <<part, touched, accepted, unsettled>>
  BY <1>3
<1>4. CASE /\ Untouched(proposals[n])
           /\ Accept(n, proposals[n].oldM, proposals[n].newM, proposals[n].oldDelta,
                     proposals[n].newDelta)
  BY <1>1, <1>2, <1>4 DEF TrueDeltas
<1>5. CASE Accept(n, proposals[n].oldM, proposals[n].newM, Delta(part, n, proposals[n].oldM),
                  Delta(part, n, proposals[n].newM))
  BY <1>1, <1>5
<1> QED  BY <1>3, <1>4, <1>5 DEF Commit

LEMMA ProposalIs ==
  ASSUME BaseInv, FlowsExact(part), NEW n \in Nodes, NEW m \in Modules
  PROVE  Proposal(n, m) \in Proposals
<1>1. part.index \in [Nodes -> Modules] /\ part.index[n] \in Modules
  BY DEF BaseInv, DataTypes, CountTypes
<1>2. Delta(part, n, part.index[n]) \in Int /\ Delta(part, n, m) \in Int
  BY <1>1, DeltaStays
<1>3. (part.members[m] = 0) \in BOOLEAN
  OBVIOUS
<1> DEFINE a == Delta(part, n, part.index[n])
           b == Delta(part, n, m)
           w == part.members[m] = 0
<1>4. Proposal(n, m) = [kind |-> "move", oldM |-> part.index[n], newM |-> m, wasEmpty |-> w,
                        oldDelta |-> a, newDelta |-> b]
  BY DEF Proposal
<1> HIDE DEF a, b, w
<1>5. a \in Int /\ b \in Int /\ w \in BOOLEAN
  BY <1>2, <1>3 DEF a, b, w
<1> QED  BY <1>1, <1>4, <1>5 DEF Proposals

\* A commit applies the deltas of the partition it is applied to.
LEMMA ParallelFlowStep ==
  ASSUME BaseInv, FitInv, FlowInv, [ParallelNext]_parallelVars
  PROVE  FlowInv'
<1>a. FlowsExact(part) /\ part.index \in [Nodes -> Modules]
  BY DEF FlowInv, BaseInv, DataTypes, CountTypes
<1>b. ASSUME part' = part PROVE FlowsExact(part)'
  BY <1>a, <1>b DEF FlowsExact, Balanced, Members
<1>c. FlowsExact(part') => FlowsExact(part)'
  BY DEF FlowsExact, Balanced, Members
<1>d. ASSUME UNCHANGED <<part, proposals>>, NEW n, TrueDeltas(n) PROVE TrueDeltas(n)'
  BY <1>d DEF TrueDeltas, Delta
<1>1. CASE StartParallelSweep
  <2>1. /\ part' = part /\ touched' = {} /\ proposals' = NoProposals
        /\ phase' \in {"done", "propose"}
    BY <1>1 DEF StartParallelSweep
  <2>2. \A n \in Nodes : proposals'[n] \in Proposals /\ ~(proposals'[n].kind = "move")
    BY <2>1 DEF Proposals, NoProposals, NoProposal
  <2>3. DeltaInv'
    BY <2>1, <2>2 DEF DeltaInv, IsMove
  <2> QED  BY <1>b, <2>1, <2>2, <2>3 DEF FlowInv
<1>2. ASSUME NEW n \in Nodes, Drain(n) PROVE FlowInv'
  <2>1. UNCHANGED <<part, phase, touched, proposals>> /\ phase = "propose"
    BY <1>2 DEF Drain, Evaluate
  <2>2. DeltaInv'
    BY <1>d, <2>1 DEF FlowInv, DeltaInv, IsMove
  <2> QED  BY <1>b, <2>1, <2>2 DEF FlowInv
<1>3. ASSUME NEW n \in Nodes, Propose(n) PROVE FlowInv'
  <2>1. PICK m \in Candidates(part, n, RandomMoves) :
          proposals' = [proposals EXCEPT
                          ![n] = IF m = part.index[n] THEN Settled ELSE Proposal(n, m)]
    BY <1>3 DEF Propose
  <2>2. UNCHANGED <<part, phase, touched>> /\ phase = "propose"
    BY <1>3 DEF Propose, Evaluate
  <2>3. m \in Modules
    BY CandidateIs
  <2>4. proposals'[n] = IF m = part.index[n] THEN Settled ELSE Proposal(n, m)
    BY <2>1 DEF BaseInv
  <2>5. \A k \in Nodes \ {n} : proposals'[k] = proposals[k]
    BY <2>1 DEF BaseInv
  <2>6. proposals'[n] \in Proposals
    <3>1. Settled \in Proposals
      BY DEF Proposals
    <3> QED  BY <1>a, <2>3, <2>4, <3>1, ProposalIs
  <2>7. \A k \in Nodes : proposals'[k] \in Proposals
    BY <2>5, <2>6 DEF FlowInv
  <2>8. ASSUME NEW k \in Nodes, IsMove(k)' PROVE TrueDeltas(k)'
    <3>1. CASE k # n
      <4>1. proposals'[k] = proposals[k] /\ IsMove(k)
        BY <2>5, <2>8, <3>1 DEF IsMove
      <4>2. TrueDeltas(k)
        BY <2>2, <4>1 DEF FlowInv, DeltaInv
      <4> QED  BY <2>2, <4>1, <4>2 DEF TrueDeltas, Delta
    <3>2. CASE k = n
      <4>1. proposals'[n] = Proposal(n, m)
        BY <2>4, <2>8, <3>2 DEF Settled, IsMove
      <4>2. /\ proposals'[n].oldM = part.index[n] /\ proposals'[n].newM = m
            /\ proposals'[n].oldDelta = Delta(part, n, part.index[n])
            /\ proposals'[n].newDelta = Delta(part, n, m)
        BY <4>1 DEF Proposal
      <4> QED  BY <2>2, <3>2, <4>2 DEF TrueDeltas, Delta
    <3> QED  BY <3>1, <3>2
  <2>9. DeltaInv'
    BY <2>2, <2>8 DEF DeltaInv
  <2> QED  BY <1>b, <2>2, <2>7, <2>9 DEF FlowInv
<1>4. ASSUME NEW n \in Nodes, Commit(n) PROVE FlowInv'
  <2>1. UNCHANGED <<phase, proposals>> /\ todo' = todo \ {n} /\ phase = "commit"
    BY <1>4 DEF Commit
  <2>2. CASE UNCHANGED <<part, touched, accepted, unsettled>>
    <3>1. DeltaInv'
      BY <1>d, <2>1, <2>2 DEF FlowInv, DeltaInv, Untouched
    <3> QED  BY <1>b, <2>1, <2>2, <3>1 DEF FlowInv
  <2>3. CASE Accept(n, part.index[n], proposals[n].newM, Delta(part, n, part.index[n]),
                    Delta(part, n, proposals[n].newM))
    <3> DEFINE oldM == part.index[n]
               newM == proposals[n].newM
    <3>1. newM \in Modules /\ newM # oldM /\ oldM \in Modules
      BY <1>4, <1>a, CommitIs
    <3>2. /\ part'.index = [part.index EXCEPT ![n] = newM]
          /\ part'.flows = MoveFlows(part.flows, n, oldM, newM, Delta(part, n, oldM),
                                     Delta(part, n, newM))
          /\ touched' = touched \cup {oldM, newM}
          /\ part'.index \in [Nodes -> Modules]
      <4>1. PICK a, b : /\ a = Delta(part, n, oldM) /\ b = Delta(part, n, newM)
                        /\ Accept(n, oldM, newM, a, b)
        BY <2>3
      <4>2. /\ part' = [index |-> part'.index, members |-> part'.members,
                        empty |-> part'.empty, flows |-> part'.flows]
            /\ part'.empty = part.empty
            /\ part'.index = [part.index EXCEPT ![n] = newM]
            /\ part'.flows = MoveFlows(part.flows, n, oldM, newM, a, b)
            /\ MovedCounts(part, part', oldM, newM)
            /\ touched' = touched \cup {oldM, newM}
            /\ accepted' = accepted \cup {n}
            /\ unsettled' = (unsettled \ {n}) \cup Neighbours(n)
        <5>1. newM \in Modules /\ newM # oldM /\ Accept(n, oldM, newM, a, b)
          BY <3>1, <4>1
        <5> HIDE DEF newM
        <5> QED  BY <5>1, AcceptIs, Zenon
      <4> QED  BY <4>1, <4>2 DEF MovedCounts
    <3>3. FlowsExact(part')
      BY <1>a, <3>1, <3>2, FlowsOfMove
    <3>4. \A m \in Modules \ {oldM, newM} : Members(part', m) = Members(part, m)
      BY <1>a, <3>1, <3>2, MembersAfter
    <3>5. ASSUME NEW k \in todo', Untouched(proposals[k])' PROVE TrueDeltas(k)'
      <4>1. k \in Nodes /\ k \in todo /\ IsMove(k)
        BY <2>1, <3>5 DEF BaseInv, DataTypes, FitInv
      <4>2. proposals[k].oldM \in Modules /\ proposals[k].newM \in Modules
        BY <4>1 DEF BaseInv
      <4>3. proposals[k].oldM \notin touched' /\ proposals[k].newM \notin touched'
        BY <2>1, <3>5 DEF Untouched
      <4>4. TrueDeltas(k)
        BY <2>1, <3>2, <4>1, <4>3 DEF FlowInv, DeltaInv, Untouched
      <4> HIDE DEF oldM, newM
      <4>5. \A m \in Modules : m \notin touched' => Delta(part', k, m) = Delta(part, k, m)
        <5> TAKE m \in Modules
        <5> HAVE m \notin touched'
        <5>1. Members(part', m) = Members(part, m)
          BY <3>2, <3>4
        <5> QED  BY <1>a, <3>2, <3>3, <4>1, <5>1, DeltaStays
      <4>6. /\ proposals[k].oldDelta = Delta(part', k, proposals[k].oldM)
            /\ proposals[k].newDelta = Delta(part', k, proposals[k].newM)
        BY <4>2, <4>3, <4>4, <4>5 DEF TrueDeltas
      <4> QED  BY <2>1, <4>6 DEF TrueDeltas, Delta
    <3>6. DeltaInv'
      BY <2>1, <3>5 DEF DeltaInv
    <3>7. touched' \subseteq Modules
      BY <3>1, <3>2 DEF FlowInv
    <3> QED  BY <1>c, <2>1, <3>3, <3>6, <3>7 DEF FlowInv
  <2> QED  BY <1>4, <2>2, <2>3, CommitDeltas
<1>5. CASE Barrier
  <2>1. /\ phase = "propose" /\ phase' = "commit" /\ todo' = {n \in Nodes : IsMove(n)}
        /\ UNCHANGED <<part, proposals, touched>>
    BY <1>5 DEF Barrier, IsMove, sweepVars
  <2>2. DeltaInv'
    BY <1>d, <2>1 DEF FlowInv, DeltaInv
  <2> QED  BY <1>b, <2>1, <2>2 DEF FlowInv
<1>6. CASE FinishSweep
  <2> DEFINE stack == Rebuilt(part)
  <2>1. part' = [part EXCEPT !.empty = stack]
    BY <1>6 DEF FinishSweep
  <2>2. part'.index = part.index /\ part'.flows = part.flows
    <3>1. part = [index |-> part.index, members |-> part.members,
                  empty |-> part.empty, flows |-> part.flows]
      BY DEF BaseInv
    <3> HIDE DEF stack
    <3> QED  BY <2>1, <3>1
  <2>3. FlowsExact(part')
    BY <1>a, <2>2 DEF FlowsExact, Balanced, Members
  <2>4. phase' \in {"poll", "done"} /\ proposals' = NoProposals /\ touched' = {}
    BY <1>6 DEF FinishSweep, LoopEnds
  <2>5. \A n \in Nodes : proposals'[n] \in Proposals
    BY <2>4 DEF Proposals, NoProposals
  <2> QED  BY <1>c, <2>3, <2>4, <2>5 DEF FlowInv, DeltaInv
<1>7. CASE (InitPartition \/ PredefinedMove) /\ UNCHANGED sweepVars
  <2>1. CountsExact /\ [Next]_vars /\ phase' \in {"poll", "predefined"}
    BY <1>7, SetUpStep
  <2>2. FlowsExact(part')
    BY <1>a, <2>1, FlowStep
  <2>3. UNCHANGED <<proposals, touched>>
    BY <1>7 DEF sweepVars
  <2> QED  BY <1>c, <2>1, <2>2, <2>3 DEF FlowInv, DeltaInv
<1>8. CASE UNCHANGED <<part, phase, todo, proposals, touched>>
  <2>1. DeltaInv'
    BY <1>d, <1>8 DEF FlowInv, DeltaInv, IsMove, Untouched
  <2> QED  BY <1>b, <1>8, <2>1 DEF FlowInv
<1> QED
  BY <1>1, <1>2, <1>3, <1>4, <1>5, <1>6, <1>7, <1>8
  DEF ParallelNext, ParallelSweep, SharedStep, RequestInterrupt, parallelVars, vars, sweepVars

(***************************************************************************)
(* Committing proposals that were all made on the same old partition keeps *)
(* the flow of every module that of its nodes: the deltas that are applied *)
(* without a recheck are those of the partition they are applied to,       *)
(* because neither module has been touched since the sweep began (commit   *)
(* loop of tryMoveEachNodeIntoBestModuleInParallel).                       *)
(***************************************************************************)
THEOREM ParallelFlowCorrect == ParallelSpec => []CommitsKeepFlow
<1>1. ParallelInit => FlowInv
  <2> SUFFICES ASSUME ParallelInit PROVE FlowInv
    OBVIOUS
  <2>1. FlowsExact(part)
    BY SingletonsBalanced DEF ParallelInit, Init
  <2>2. \A n \in Nodes : proposals[n] \in Proposals
    BY DEF ParallelInit, NoProposals, Proposals
  <2>3. DeltaInv /\ touched = {}
    BY DEF ParallelInit, Init, DeltaInv
  <2> QED  BY <2>1, <2>2, <2>3 DEF FlowInv
<1>2. BaseInv /\ FitInv /\ FlowInv /\ [ParallelNext]_parallelVars => FlowInv'
  BY ParallelFlowStep
<1>3. BaseInv /\ FitInv /\ FlowInv => CommitsKeepFlow
  BY DEF BaseInv, FlowInv, FlowsExact, FlowExact, CommitsKeepFlow, ParallelTypeOK
<1> QED  BY <1>1, <1>2, <1>3, SweepInvariant, PTL DEF ParallelSpec
=============================================================================
