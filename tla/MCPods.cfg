CONSTANTS
    Keys = {k1, k2}
    Loop = Loop
    Lister = Lister
    RetryWorkers = {w1}
    Clients = {}
    Operations = {}
    Nil = Nil
    None = None
    MaxGen = 2
    MaxFaults = 1
    MaxAttempts = 2
    RetryCap = 1
    RequestKey = k1
    RequestClient = c1
    ThisNode = "here"
    MaxPods = 2
    MaxRestarts = 0
    MaxLosses = 1
    MaxCrashes = 1
SPECIFICATION PodsSpec
CHECK_DEADLOCK FALSE
INVARIANTS
    TypesOK
    RetryMarksExact
    
    QuietMeansForgotten
