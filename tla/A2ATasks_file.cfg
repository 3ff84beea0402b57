\* File store, a crash, raising store calls, startups that fall back to memory.
SPECIFICATION Spec
CONSTANTS
    Tasks = {t1, t2}
    Workers = {w1, w2}
    Tokens = {alice, bob}
    NoToken = NoToken
    NoTask = NoTask
    NotBound = NotBound
    Durable = TRUE
    MaxCrashes = 1
    MaxFaults = 2
    MaxFallbacks = 2
SYMMETRY Symmetry
INVARIANTS
    TypeOK
    OnePlace
    RunsAsCaller
    AtMostOneRun
    FinalMeansOver
    PolledAnswerStands
PROPERTIES
    ImplementsPromise
    NoStepBack
