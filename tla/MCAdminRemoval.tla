---------------------------- MODULE MCAdminRemoval ----------------------------
(* Dialogues with a history of what the owner removed, on small instances. *)
EXTENDS MCDialogues

VARIABLE removed   \* ids the owner removed and did not add again

(* AnswerAdmin is the only step that deletes a row of admins.              *)
Remember ==
    removed' = (removed \cup (admins \ admins')) \
                   (IF Answered(Owner, {"awaiting_admin_id"}) THEN admins' \ admins ELSE {})

RemovalSpec ==
    Init /\ removed = {} /\ [][Next /\ Remember]_<<vars, removed>>

(* admin.py:531 tells the owner that the admin was removed: until the      *)
(* owner adds the id once more it is no admin, through any restart.        *)
RemovalIsFinal == removed \cap admins = {}
=============================================================================
