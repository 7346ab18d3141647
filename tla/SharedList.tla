----------------------------- MODULE SharedList -----------------------------
(***************************************************************************)
(* What update_property promises when its callers pass the version they    *)
(* read ("the update is refused with 412 if someone changed the property   *)
(* since", internal/tools/property_update.go:75): additions to a list are  *)
(* atomic and none is lost, but to a caller that passes no version; a dry  *)
(* run saves nothing.                                                      *)
(***************************************************************************)
CONSTANTS
    Agents,      \* each adds one item, which bears its name
    Careless     \* those that pass no version

VARIABLES
    list,        \* the items of the list
    asked,       \* agents that asked for their addition, not for a dry run
    added,       \* agents whose item was saved at some time
    told         \* agents that know it

vars == <<list, asked, added, told>>

Init == list = {} /\ asked = {} /\ added = {} /\ told = {}

Ask(i) ==
    /\ asked' = asked \cup {i}
    /\ UNCHANGED <<list, added, told>>

Add(i) ==
    /\ i \in asked
    /\ list' = list \cup {i}
    /\ added' = added \cup {i}
    /\ UNCHANGED <<asked, told>>

(* A caller without a version may remove what others added.                *)
Overwrite(i) ==
    /\ i \in Careless \cap asked
    /\ \E items \in SUBSET Agents : i \in items /\ list' = items
    /\ added' = added \cup {i}
    /\ UNCHANGED <<asked, told>>

Tell(i) ==
    /\ i \in added
    /\ told' = told \cup {i}
    /\ UNCHANGED <<list, asked, added>>

Next == \E i \in Agents : Ask(i) \/ Add(i) \/ Overwrite(i) \/ Tell(i)

Spec == Init /\ [][Next]_vars

=============================================================================
