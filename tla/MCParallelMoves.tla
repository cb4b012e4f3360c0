--------------------------- MODULE MCParallelMoves --------------------------
(***************************************************************************)
(* ParallelMoves on the small networks.                                    *)
(***************************************************************************)
EXTENDS ParallelMoves, MCNetworks
=============================================================================
