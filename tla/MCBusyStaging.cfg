CONSTANTS
    Callers = {c1}
    Targets = {t1}
    PVs = {pv1}
    Sources = {a, b}
    s1 = s1
    Stripes = {s1}
    Stripe <- MCStripe
    NoSource = NoSource
    NoPlan = NoPlan
    None = None
    UnstageAfterMount = TRUE
    MaxLayers = 1
    Faults = {"busy"}
SPECIFICATION Spec
PROPERTIES
    ImplementsService
