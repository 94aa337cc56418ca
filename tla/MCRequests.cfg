CONSTANTS
    None = None
    ThisNode = "here"
    Places <- MCPlaces
    UIDs = {u1, u2}
    Specs <- MCSpecs
    PVs <- MCPVs
    Requested = {None, "main"}
    MaxRestarts = 1
    MaxEdits = 1
    Outage = {"outage"}
    NoValue = NoValue
    Unset = Unset
    Six = Six
    Undecodable = Undecodable
    Identities <- MCIdentities
    Flags = {Unset, NoValue, "flag"}
    ContainerFlags <- MCContainerFlags
    Publications <- MCPublications
    Segments <- MCSegments
    MaxSegments = 3
    Spaces = " "
    Nul = "NUL"
    DeniedTrees <- MCDeniedTrees
    DeniedPlaces <- MCDeniedPlaces
    Refused = Refused
    Handlers = {h1, h2}
    Reconcilers = {r1}
    Volumes = {pv1, pv2}
    NoKey = NoKey
    NoSubPath = NoSubPath
    Foreign = Foreign
SPECIFICATION RequestsSpec
CHECK_DEADLOCK FALSE
INVARIANTS
    GrantsCallersPod
    ChoiceIgnoresOrder
    GrantsAllowedPV
    UnmountAddressesMount
    RequestsAreWhole
    PolicyIsAboutPlaces
    OneKeyPerTarget
    AdmittedSubPathsOpen
    RootDecisionIsExact
    RecordNamesSource
PROPERTIES
    ForeignUntouched
