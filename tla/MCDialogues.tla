----------------------------- MODULE MCDialogues -----------------------------
(* Dialogues on small instances.                                           *)
EXTENDS Dialogues

Channel == [name |-> "a", url |-> "a"]
MCSources == {Channel}
=============================================================================
