----------------------------- MODULE UploadPool -----------------------------
(***************************************************************************)
(* What the page's upload queue promises: every file the user selects is   *)
(* sent once, and is sent in the end.  One upload starts with a selection, *)
(* and up to UnitsPerPush with each one that ends, whatever became of it,  *)
(* but no fewer than there are files waiting.                              *)
(***************************************************************************)
EXTENDS Naturals, FiniteSets

CONSTANTS File, UnitsPerPush

VARIABLES waiting, active, ended

pvars == <<waiting, active, ended>>

Init == waiting = {} /\ active = {} /\ ended = {}

Started == waiting \cup active \cup ended

\* The user selects new files, or none; one of those that wait starts.
Select ==
    /\ UNCHANGED ended
    /\ \E f \in (waiting' \cup active') \ active :
          /\ waiting \subseteq waiting' \cup {f}
          /\ (waiting' \ waiting) \cap Started = {}
          /\ f \notin waiting' \cup ended
          /\ active' = active \cup {f}

\* An upload ends; the next ones start.
End(f) ==
    /\ f \in active
    /\ ended' = ended \cup {f}
    /\ waiting' \subseteq waiting
    /\ active' = (active \ {f}) \cup (waiting \ waiting')
    /\ \/ waiting' = {}
       \/ Cardinality(waiting \ waiting') = UnitsPerPush
    /\ Cardinality(waiting \ waiting') <= UnitsPerPush

Next == Select \/ \E f \in File : End(f)

Spec == Init /\ [][Next]_pvars
=============================================================================
