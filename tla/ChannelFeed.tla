----------------------------- MODULE ChannelFeed -----------------------------
(***************************************************************************)
(* What the pipeline promises, whatever happens to the process: configs    *)
(* are stored first and shown in the channel later, a stored row is never  *)
(* withdrawn, and a row that has been given up (published, dropped, or     *)
(* lost with the process that held it) is never shown again.               *)
(***************************************************************************)
EXTENDS Integers, Sequences

CONSTANTS Configs,   \* what can be stored
          RowIds,    \* the keys rows may get
          MaxPosts   \* most messages a row may cause

VARIABLES rows,      \* the stored configs, by row id
          retired,   \* rows that will not be shown any more
          shown      \* messages in the channel for each row

vars == <<rows, retired, shown>>

Stored == 1 .. Len(rows)

Init ==
    /\ rows = << >>
    /\ retired = {}
    /\ shown = [i \in RowIds |-> 0]

(* Any number of rows is stored, shown once more or retired.  Several of   *)
(* them may be in one step: a commit stores a batch, and the end of a      *)
(* process retires all it held.                                            *)
Next ==
    /\ rows' \in Seq(Configs)
    /\ SubSeq(rows', 1, Len(rows)) = rows
    /\ retired \subseteq retired'
    /\ retired' \subseteq 1 .. Len(rows')
    /\ \A i \in RowIds :
         \/ shown'[i] = shown[i]
         \/ /\ i \in Stored \ retired
            /\ shown[i] < MaxPosts
            /\ shown'[i] = shown[i] + 1

Spec == Init /\ [][Next]_vars
=============================================================================
