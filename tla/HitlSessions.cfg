\* Overlapping resumes of two runs, a crash and a raising save.
SPECIFICATION Spec
CONSTANTS
    Runs = {r1, r2}
    Clients = {c1, c2}
    NoRun = NoRun
    MaxCrashes = 1
    MaxFaults = 1
SYMMETRY Symmetry
INVARIANTS
    TypeOK
    RecordedOnlyApproved
    RecordedOnce
    ApprovalRecorded
PROPERTY ImplementsGate
