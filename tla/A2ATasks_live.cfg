\* Memory store, no raising call: while its process lives, a running task gets its outcome.
SPECIFICATION FairSpec
CONSTANTS
    Tasks = {t1, t2, t3}
    Workers = {w1}
    Tokens = {alice}
    NoToken = NoToken
    NoTask = NoTask
    NotBound = NotBound
    Durable = FALSE
    MaxCrashes = 0
    MaxFaults = 0
    MaxFallbacks = 0
INVARIANT NothingStranded
PROPERTIES
    FinishesInItsProcess
    ImplementsPromise
    NoStepBack
