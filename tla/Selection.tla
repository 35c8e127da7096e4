------------------------------- MODULE Selection -------------------------------
(***************************************************************************)
(* A list comprehension of the code, `[x for x in s if ...]`, keeps the    *)
(* entries at some places of a list in their order.  It is SelectSeq,      *)
(* written by the places that are kept: nothing that can be proved from    *)
(* its definition is known of SelectSeq to the provers.                    *)
(***************************************************************************)
EXTENDS Integers, Sequences, FiniteSets

\* The i-th of a set of places, in ascending order.
Nth(places, i) == CHOOSE k \in places : Cardinality({j \in places : j <= k}) = i

Select(s, places) == [i \in 1 .. Cardinality(places) |-> s[Nth(places, i)]]
=============================================================================
