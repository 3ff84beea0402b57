--------------------------- MODULE LifecyclePromise ---------------------------
(***************************************************************************)
(* What the lifecycle of a stored recommendation promises: it is proposed  *)
(* by its agent, its status moves only along the allowed transitions, its  *)
(* outcome fields only accumulate, and its owner never changes.  Once two  *)
(* requests for a record have overlapped, only the owner is promised.      *)
(***************************************************************************)
CONSTANTS
    Ids,        \* recommendation ids
    Agents,     \* agents that own recommendations
    Statuses,   \* lifecycle statuses, "proposed" among them
    Labels,     \* outcome fields: human_label, rerun_success, ...
    Allowed,    \* pairs of statuses a PATCH may connect
    NoRow       \* no record under the id

VARIABLES
    row,        \* [Ids -> a record or NoRow]
    overlapped  \* the records whose requests have overlapped

vars == <<row, overlapped>>

Rows == [owner : Agents, status : Statuses, labels : SUBSET Labels]

Init ==
    /\ row = [i \in Ids |-> NoRow]
    /\ overlapped = {}

Propose(i) ==
    /\ row[i] = NoRow
    /\ \E a \in Agents :
        row' = [row EXCEPT ![i] = [owner |-> a, status |-> "proposed", labels |-> {}]]
    /\ UNCHANGED overlapped

Move(i) ==
    /\ row[i] # NoRow
    /\ \E s \in Statuses :
        /\ <<row[i].status, s>> \in Allowed
        /\ row' = [row EXCEPT ![i].status = s]
    /\ UNCHANGED overlapped

Label(i) ==
    /\ row[i] # NoRow
    /\ \E ls \in SUBSET Labels : row' = [row EXCEPT ![i].labels = @ \cup ls]
    /\ UNCHANGED overlapped

Overlap(i) ==
    /\ row[i] # NoRow
    /\ overlapped' = overlapped \cup {i}
    /\ UNCHANGED row

Overwrite(i) ==
    /\ i \in overlapped
    /\ \E r \in Rows :
        /\ r.owner = row[i].owner
        /\ row' = [row EXCEPT ![i] = r]
    /\ UNCHANGED overlapped

Next ==
    \E i \in Ids : Propose(i) \/ Move(i) \/ Label(i) \/ Overlap(i) \/ Overwrite(i)

Spec == Init /\ [][Next]_vars
===============================================================================
