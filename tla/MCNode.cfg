CONSTANTS
    Callers = {c1, c2}
    Targets = {t1, t2}
    PVs = {pv1, pv2}
    Sources = {a, b}
    s1 = s1
    Stripes = {s1}
    Stripe <- MCStripe
    NoSource = NoSource
    NoPlan = NoPlan
    None = None
    UnstageAfterMount = TRUE
    MaxLayers = 1
    Faults = {"nfs", "node", "nosys", "crash"}
    Goroutines = {g1, g2}
    Threads = {th1, th2, th3}
    Leader = th1
    Containers = {x, y}
    Self = Self
    Nothing = Nothing
    Walkers = {w0}
    MaxDepth = 2
    MaxInodes = 4
    CreateMissing = {TRUE, FALSE}
    Changes = {"dir", "file", "link", "remove", "fail"}
    Racers = {w1, w2}
    Names = {n1, n2}
    Name = n1
    Invalid = Invalid
SPECIFICATION NodeSpec
CHECK_DEADLOCK FALSE
INVARIANTS
    TypesOK
    PoolThreadsClean
    StaysOnPath
    DescriptorsBalanced
    RacersAgree
    ModesSurvive
PROPERTIES
    ImplementsService
    OperatesInContainer
