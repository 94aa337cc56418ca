CONSTANTS
    Keys = {k1}
    Loop = Loop
    Lister = Lister
    RetryWorkers = {w1}
    Clients = {}
    Operations = {}
    Nil = Nil
    None = None
    MaxGen = 2
    MaxFaults = 1
    MaxAttempts = 5
    RetryCap = 2
    Callers = {c1, c2}
    Targets = {t1, t2}
    PVs = {v1}
    Sources = {a}
    Stripes = {s1}
    NoSource = NoSource
    NoPlan = NoPlan
    Handlers = {h1, h2}
    Reconcilers = {r1}
    Volumes = {pv1}
    Foreign = Foreign
    NoKey = NoKey
    NoSubPath = NoSubPath
    Calls = {g1}
    Methods = {"mount", "unmount", "health"}
    Configs <- MCConfigs
    MaxTokens = 4
    KeyFiles = {"unset", "missing", "key"}
SPECIFICATION LiveSpec
CHECK_DEADLOCK FALSE
INVARIANTS
    ReportsAreTrue
    ExpiredOnlyIfOvertaken
    NothingStagedAtRest
PROPERTIES
    RecoversAlone
    EveryRetryEnds
    MountReturns
    EveryCallReturns
    EveryRequestAnswered
