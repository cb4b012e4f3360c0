---------------------------- MODULE MCModuleMoves ---------------------------
(***************************************************************************)
(* ModuleMoves on the small networks.                                      *)
(***************************************************************************)
EXTENDS ModuleMoves, MCNetworks
=============================================================================
