---------------------------- MODULE MCBroadcaster ----------------------------
(* Broadcaster on a small instance.                                        *)
EXTENDS Broadcaster, TLC

\* Workers are interchangeable, and so are items: sound for invariants.
Symmetry == Permutations(Workers) \cup Permutations(Items)
=============================================================================
