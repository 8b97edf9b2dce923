---------------------------- MODULE AtomicStore -----------------------------
(***************************************************************************)
(* What the file store promises of renames: each takes effect in one step, *)
(* which moves the file if it is there and its new name is free, and does  *)
(* nothing otherwise.  A rename that is crossed by a change to one of its  *)
(* names, or whose system call fails, may do nothing, or move whatever has *)
(* the old name over whatever has the new one.                             *)
(***************************************************************************)
CONSTANTS Name, Rename, Content, Nothing

VARIABLES
    drive,      \* what each name has
    pending,    \* the old and new name of each rename to be done, or Nothing
    crossed     \* the renames that are excused

dvars == <<drive, pending, crossed>>

Init ==
    /\ drive \in [Name -> Content \cup {Nothing}]
    /\ pending = [r \in Rename |-> Nothing]
    /\ crossed = {}

Moved(old, new) ==
    [n \in Name |-> CASE n = new -> drive[old] [] n = old -> Nothing [] OTHER -> drive[n]]

\* Only the change of a name crosses a rename of it.
Crossing(others) ==
    /\ crossed \subseteq crossed'
    /\ \A r \in (crossed' \ crossed) \cap others :
          pending[r] # Nothing /\ \E n \in {pending[r][1], pending[r][2]} : drive'[n] # drive[n]

Ask(r) ==
    /\ pending[r] = Nothing
    /\ \E old, new \in Name : pending' = [pending EXCEPT ![r] = <<old, new>>]
    /\ UNCHANGED <<drive, crossed>>

\* A file is written anew.
Write ==
    /\ \E n \in Name : drive'[n] \in Content /\ drive' = [drive EXCEPT ![n] = drive'[n]]
    /\ Crossing(Rename)
    /\ UNCHANGED pending

Do(r) ==
    /\ pending[r] # Nothing
    /\ LET old == pending[r][1]
           new == pending[r][2]
       IN  \/ r \in crossed' /\ UNCHANGED drive
           \/ r \in crossed' /\ drive[old] # Nothing /\ drive' = Moved(old, new)
           \/ /\ r \notin crossed'
              /\ drive' = IF drive[old] # Nothing /\ drive[new] = Nothing
                          THEN Moved(old, new) ELSE drive
    /\ Crossing(Rename \ {r})
    /\ pending' = [pending EXCEPT ![r] = Nothing]

Next == Write \/ \E r \in Rename : Ask(r) \/ Do(r)

Spec == Init /\ [][Next]_dvars
=============================================================================
