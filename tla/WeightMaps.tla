----------------------------- MODULE WeightMaps -----------------------------
(***************************************************************************)
(* Weights, of links or of nodes, as functions.  What is not in the domain *)
(* has no weight.                                                          *)
(***************************************************************************)
EXTENDS Integers, Functions

ValueAt(f, x) == IF x \in DOMAIN f THEN f[x] ELSE 0

\* The weights of f and those of g together.
Plus(f, g) == [x \in DOMAIN f \cup DOMAIN g |-> ValueAt(f, x) + ValueAt(g, x)]

\* The weight w at x alone.
Only(x, w) == [y \in {x} |-> w]

SumOver(S, f) == SumFunctionOnSet(f, S)
Total(f) == SumFunction(f)
=============================================================================
