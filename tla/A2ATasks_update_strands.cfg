\* A raising update_task leaves a task running for ever.
SPECIFICATION FairSpec
CONSTANTS
    Tasks = {t1}
    Workers = {w1}
    Tokens = {alice}
    NoToken = NoToken
    NoTask = NoTask
    NotBound = NotBound
    Durable = TRUE
    MaxCrashes = 0
    MaxFaults = 1
    MaxFallbacks = 0
PROPERTY FinishesInItsProcess
