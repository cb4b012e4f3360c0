---------------------------- MODULE MCVectorMap -----------------------------
(***************************************************************************)
(* VectorMap for values that are integers modulo 3.                        *)
(***************************************************************************)
EXTENDS VectorMap

PlusModulo(a, b) == (a + b) % 3
=============================================================================
