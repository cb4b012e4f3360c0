------------------------ MODULE MCRecursivePartition ------------------------
(***************************************************************************)
(* RecursivePartition on nine leaves: a tree of two modules, six and three *)
(* leaves, the first of which can be split three levels deep.              *)
(***************************************************************************)
EXTENDS RecursivePartition, TLC

NineLeaves == 1..9
U == 1..6
V == 7..9

\* Above, how the modules are first divided; below, how sub-Infomaps divide them.
TreeOfTwo == NineLeaves :> {U, V} @@ U :> {1..3, 4..6} @@ V :> {7..8, {9}}

Splits ==
  U :> {1..4, 5..6} @@ 1..4 :> {1..3, {4}} @@ 1..3 :> {1..2, {3}} @@ 4..6 :> {4..5, {6}}

AllModules ==
  DOMAIN TreeOfTwo \cup UNION {TreeOfTwo[m] : m \in DOMAIN TreeOfTwo}
    \cup UNION {Splits[m] : m \in DOMAIN Splits} \cup {{7}, {8}}

OnAll(f) == [m \in AllModules |-> IF m \in DOMAIN f THEN f[m] ELSE {}]

FirstModules == OnAll(TreeOfTwo)

\* The three leaves of V: all together, or each on its own.
AllFindings == {OnAll(Splits @@ V :> {V}),
                OnAll(Splits @@ V :> {{7}, {8}, {9}})}

Tuned == OnAll(Splits @@ V :> {7..8, {9}})

Squares == [m \in AllModules |-> 3 * Cardinality(m) * Cardinality(m)]

AnyFast == {[fast |-> f, deep |-> TRUE] : f \in 0..2}

FineTuneFirst == {[fast |-> 1, deep |-> TRUE]}

\* Which modules gain more than the tolerance: all, none, the large ones, the small ones.
SomeGains == {[m \in AllModules |-> IF Cardinality(m) \in worth THEN 2 ELSE 1] :
                worth \in {1..9, {}, 4..9, 1..3}}

\* A preference for two levels more than the first.
Prefer(l) == IF l <= 3 THEN 1 ELSE 0
=============================================================================
