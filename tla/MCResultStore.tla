--------------------------- MODULE MCResultStore ---------------------------
(***************************************************************************)
(* Small instances of ResultStore: two users are enough for a vacuum and a *)
(* deletion or a restore between its steps, two rows for a run that has    *)
(* something to lose.                                                      *)
(***************************************************************************)
EXTENDS ResultStore, TLC

Symmetry == Permutations(Runners) \cup Permutations(Users) \cup Permutations(Runs)
=============================================================================
