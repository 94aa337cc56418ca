CONSTANTS
    p1 = p1
    s1 = s1
    Pods = {p1}
    Stripes = {s1}
    Stripe <- MCStripe
    PodOf <- MCPodOf
    k2 = k2
    Place <- MCStraight
    Foreign = Foreign
    NoKey = NoKey
    None = None
    NoSubPath = NoSubPath
    Keys = {k1}
    PVs = {pv1}
    SubPaths = {NoSubPath}
    ExportKeys = {}
    MaxGen = 2
    Handlers = {h1}
    Reconcilers = {r1}
    Faults = {}
SPECIFICATION Spec
PROPERTIES
    UnmountedMeansGone
