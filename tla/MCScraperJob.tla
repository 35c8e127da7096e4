---------------------------- MODULE MCScraperJob -----------------------------
(* ScraperJob on a small instance.                                         *)
EXTENDS ScraperJob, TLC

\* Configs are only compared, and the two jobs run the same code.
Symmetry == Permutations(Configs) \cup Permutations(Jobs)
=============================================================================
