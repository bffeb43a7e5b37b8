----------------------------- MODULE MCRewards -----------------------------
(* Model-checking instance of Rewards: symmetry over accounts and nonces.  *)
EXTENDS Rewards, TLC

Symmetry == Permutations(Accounts) \cup Permutations(Nonces)
=============================================================================
