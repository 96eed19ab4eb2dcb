------------------------------ MODULE MCShares ------------------------------
(* Shares on a small instance.                                             *)
EXTENDS Shares, TLC

Symmetry == Permutations(Clients)
=============================================================================
