---------------------------- MODULE MCUserFiles ----------------------------
(* Instances of UserFiles for TLC. *)
EXTENDS UserFiles, TLC

Symmetry == Permutations(Clients)
=============================================================================
