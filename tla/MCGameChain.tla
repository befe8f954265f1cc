----------------------------- MODULE MCGameChain -----------------------------
(* Small instances of GameChain for TLC. *)
EXTENDS GameChain, TLC

Symmetry == Permutations(Player) \cup Permutations(Socket)
=============================================================================
