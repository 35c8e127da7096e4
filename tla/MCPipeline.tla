----------------------------- MODULE MCPipeline -----------------------------
(* Pipeline on small instances.                                            *)
EXTENDS Pipeline, TLC

\* Configs are only compared, workers run the same code.
Symmetry == Permutations(Workers) \cup Permutations(Configs)
=============================================================================
