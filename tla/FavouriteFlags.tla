--------------------------- MODULE FavouriteFlags ---------------------------
(***************************************************************************)
(* What toggling favourites promises: one flag for each item, and a toggle *)
(* that is answered 200 has flipped its item's flag exactly once; any      *)
(* other answer leaves it alone.  Nothing is promised of what a toggle     *)
(* that raced does to its own item's flag.                                 *)
(***************************************************************************)
CONSTANTS Req, Item, NoItem

VARIABLES
    asked,      \* the item each toggle is for, NoItem before it is sent
    answer,     \* "none", "200" or "other"
    raced,      \* toggles that overlapped another one of their item, or failed
    flag        \* is the item a favourite?

fvars == <<asked, answer, raced, flag>>

Init ==
    /\ asked = [r \in Req |-> NoItem]
    /\ answer = [r \in Req |-> "none"]
    /\ raced = {}
    /\ flag = [i \in Item |-> FALSE]


\* Toggles that are not answered yet may be found to race.
Race ==
    /\ raced \subseteq raced'
    /\ \A r \in raced' \ raced : asked'[r] # NoItem /\ answer[r] = "none"

Ask(r) ==
    /\ asked[r] = NoItem
    /\ \E i \in Item : asked' = [asked EXCEPT ![r] = i]
    /\ Race
    /\ UNCHANGED <<answer, flag>>

Falter ==
    /\ raced # raced' /\ Race
    /\ UNCHANGED <<asked, answer, flag>>

Open(r) == asked[r] # NoItem /\ answer[r] = "none"

Toggle(r) ==
    /\ Open(r)
    /\ answer' = [answer EXCEPT ![r] = "200"]
    /\ \E b \in BOOLEAN :
          /\ r \notin raced => b # flag[asked[r]]
          /\ flag' = [flag EXCEPT ![asked[r]] = b]
    /\ UNCHANGED <<asked, raced>>

Refuse(r) ==
    /\ Open(r)
    /\ answer' = [answer EXCEPT ![r] = "other"]
    /\ UNCHANGED <<asked, raced, flag>>

Next ==
    \/ \E r \in Req : Ask(r) \/ Toggle(r) \/ Refuse(r)
    \/ Falter

Spec == Init /\ [][Next]_fvars
=============================================================================
