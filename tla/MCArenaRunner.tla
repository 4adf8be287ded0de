--------------------------- MODULE MCArenaRunner ---------------------------
(***************************************************************************)
(* Small instances of ArenaRunner for TLC.  Two models and two tests at    *)
(* concurrency 2 are the least that let one worker go on while the main    *)
(* thread stops, and one model be skipped when a run is resumed.           *)
(***************************************************************************)
EXTENDS ArenaRunner, TLC

NoLimit == NULL
Symmetry == Permutations(Models) \cup Permutations(Tests)
=============================================================================
