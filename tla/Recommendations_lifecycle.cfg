\* Overlapping PATCH requests through both agents' routes: ownership, what an overlap
\* may set back, and the lifecycle until two requests about a record overlap.
SPECIFICATION Spec
CONSTANTS
    Ids = {r1, r2}
    Agents <- MCAgents
    Statuses <- MCStatuses
    Labels <- MCLabels
    Allowed <- MCAllowedSame
    Clients = {c1, c2}
    NoRow = NoRow
    MaxPatches = 3
    MaxFaults = 1
CHECK_DEADLOCK FALSE
SYMMETRY Symmetry
INVARIANTS
    TypeOK
    OwnRouteOnly
    AnsweredLabelsKept
PROPERTIES
    SetBackOnly
    ImplementsLifecycle
