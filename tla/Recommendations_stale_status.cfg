\* Two overlapping PATCH requests move a status backwards.
SPECIFICATION Spec
CONSTANTS
    Ids = {r1}
    Agents <- MCAgents
    Statuses <- MCStatuses
    Labels <- MCLabels
    Allowed <- MCAllowed
    Clients = {c1, c2}
    NoRow = NoRow
    MaxPatches = 2
    MaxFaults = 1
CHECK_DEADLOCK FALSE
PROPERTY LegalTransitions
