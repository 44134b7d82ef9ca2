---------------------------- MODULE HomeworkTable -----------------------------
(***************************************************************************)
(* What the homework table of one user and platform promises to those who  *)
(* hear of it through the hook homework.after_refresh (the Meet            *)
(* synchronisation, QQ push): the hook names the homeworks that have just  *)
(* been added, all of them and no others; and homeworks only ever go all   *)
(* together, when the platform is unbound or the account goes.             *)
(***************************************************************************)
CONSTANT HW

VARIABLES
    rows,       \* the homeworks in the table
    news        \* new_homework_ids of the last hook

vars == <<rows, news>>

Init == rows = {} /\ news = {}

Insert(new) ==
    /\ new \cap rows = {}
    /\ rows' = rows \cup new
    /\ news' = new

RemoveAll ==
    /\ rows' = {}
    /\ UNCHANGED news

Next == RemoveAll \/ \E new \in SUBSET HW : Insert(new)

Spec == Init /\ [][Next]_vars

===============================================================================
