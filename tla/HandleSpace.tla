---------------------------- MODULE HandleSpace ----------------------------
(***************************************************************************)
(* What a handle registry promises its callers, with no slots, no          *)
(* generations and no free list: a handle is issued at most once in the    *)
(* life of the worker, means the one resource it was issued for while it   *)
(* is live, and once disposed means nothing for ever.                      *)
(***************************************************************************)
CONSTANTS Handle, Value

VARIABLES
    content,   \* the resource behind each live handle
    dead       \* the handles that have been disposed

vars == <<content, dead>>

Init == content = [h \in {} |-> 0] /\ dead = {}

Issue ==
    \E h \in Handle \ (DOMAIN content \cup dead), v \in Value :
        /\ content' = [g \in DOMAIN content \cup {h} |-> IF g = h THEN v ELSE content[g]]
        /\ UNCHANGED dead

Write ==
    \E h \in DOMAIN content, v \in Value :
        /\ content' = [g \in DOMAIN content |-> IF g = h THEN v ELSE content[g]]
        /\ UNCHANGED dead

\* One disposal may take several handles with it (a cascade).
Dispose ==
    \E gone \in SUBSET DOMAIN content :
        /\ content' = [g \in DOMAIN content \ gone |-> content[g]]
        /\ dead' = dead \cup gone

Next == Issue \/ Write \/ Dispose

Spec == Init /\ [][Next]_vars
=============================================================================
