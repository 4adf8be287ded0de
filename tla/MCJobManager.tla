---------------------------- MODULE MCJobManager ----------------------------
(***************************************************************************)
(* Small instances of JobManager: two request threads, and a cap of one    *)
(* retained job, so that three or four jobs exercise eviction.             *)
(***************************************************************************)
EXTENDS JobManager, TLC

Symmetry == Permutations(Clients) \cup Permutations(Projects)
=============================================================================
