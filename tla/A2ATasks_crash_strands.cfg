\* A process that ends before its pool has drained leaves a file-store task running for ever.
SPECIFICATION FairSpec
CONSTANTS
    Tasks = {t1}
    Workers = {w1}
    Tokens = {alice}
    NoToken = NoToken
    NoTask = NoTask
    NotBound = NotBound
    Durable = TRUE
    MaxCrashes = 1
    MaxFaults = 0
    MaxFallbacks = 0
PROPERTY EventuallyTerminal
