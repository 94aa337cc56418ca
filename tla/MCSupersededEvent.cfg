CONSTANTS
    Keys = {k1}
    Loop = Loop
    Lister = Lister
    RetryWorkers = {w1}
    Clients = {c1}
    Operations = {"mount"}
    Nil = Nil
    MaxGen = 2
    MaxFaults = 0
    MaxAttempts = 5
    RetryCap = 2
SPECIFICATION FairSpec
CHECK_DEADLOCK FALSE
PROPERTIES
    EventuallyConsistent
