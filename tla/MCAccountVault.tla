--------------------------- MODULE MCAccountVault ---------------------------
(***************************************************************************)
(* AccountVault with a limit that two accounts can reach.                  *)
(***************************************************************************)
EXTENDS AccountVault, TLC

\* Keys are random, and accounts are told apart by identity only.
MCSymmetry == Permutations(Keys) \union Permutations(Metas)
=============================================================================
