----------------------------- MODULE MCValidator -----------------------------
(* Validator on a small instance.                                          *)
EXTENDS Validator

CONSTANTS a, b, nohost, host

\* Select is SelectSeq.
ASSUME SelectionAgrees ==
    \A n \in 0 .. 4 : \A s \in [1 .. n -> 0 .. 2], keep \in SUBSET (0 .. 2) :
        Select(s, {k \in DOMAIN s : s[k] \in keep}) = SelectSeq(s, LAMBDA x : x \in keep)

\* Two configs name the one host, the third names none.
MCHostOf == [c \in Configs |-> IF c = nohost THEN {} ELSE {host}]
MCCallers == Configs \cup Others
=============================================================================
