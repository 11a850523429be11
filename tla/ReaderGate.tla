----------------------------- MODULE ReaderGate -----------------------------
(***************************************************************************)
(* What a mesh's evaluation binding promises, with no counter, no mutex    *)
(* and no condition variable: readers enter while the gate is open, a gate *)
(* that began to close lets nobody in, and it is closed only once everyone *)
(* inside has left.                                                        *)
(***************************************************************************)
CONSTANT Reader

VARIABLES
    inside,  \* the readers that may be using the owner
    gate     \* "open", "closing" or "closed"

vars == <<inside, gate>>

Init == inside = {} /\ gate = "open"

Enter(r) ==
    /\ gate = "open"
    /\ r \notin inside
    /\ inside' = inside \cup {r}
    /\ UNCHANGED gate

Leave(r) ==
    /\ r \in inside
    /\ inside' = inside \ {r}
    /\ UNCHANGED gate

BeginClosing ==
    /\ gate = "open"
    /\ gate' = IF inside = {} THEN "closed" ELSE "closing"
    /\ UNCHANGED inside

Close ==
    /\ gate = "closing"
    /\ inside = {}
    /\ gate' = "closed"
    /\ UNCHANGED inside

Next == BeginClosing \/ Close \/ \E r \in Reader : Enter(r) \/ Leave(r)

Spec == Init /\ [][Next]_vars
=============================================================================
