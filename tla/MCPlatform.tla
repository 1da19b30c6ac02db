----------------------------- MODULE MCPlatform -----------------------------
(***************************************************************************)
(* Platform for a game that makes a few of the calls.                      *)
(***************************************************************************)
EXTENDS Platform, TLC

MCSymmetry == Permutations(SignIns)
=============================================================================
