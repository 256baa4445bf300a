---------------------------- MODULE MCNeighSync ----------------------------
(* Instances of NeighSync for TLC. *)
EXTENDS NeighSync, TLC

MacSymmetry == Permutations(Mac)
=============================================================================
