\* The loser of two overlapping resumes gets a 400 for a good decision.
SPECIFICATION Spec
CONSTANTS
    Runs = {r1}
    Clients = {c1, c2}
    NoRun = NoRun
    MaxCrashes = 0
    MaxFaults = 0
INVARIANT Only400ForBadDecision
