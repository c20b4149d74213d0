\* A Host and a peer on a pair of nodes, three policies, lapsing leases, failing steps.
SPECIFICATION HostFairSpec
CONSTANTS
    None = None
    x = x
    y = y
    Node = {"b", "c"}
    NodeOrder <- NodeRank
    Binding <- PairBinding
    Input = {"i"}
    Artifact = {x, y}
    Port = {"p"}
    OutName = {"o"}
    KeyPort <- NoKeyPort
    OutPort <- OnePort
    RequiredOut <- OnePort
    TerminalNode = "c"
    TerminalPort = "o"
    Module = {"mb", "mc", "mx"}
    ModuleOf <- OwnModule
    ByNode <- NoFiring
    CapFiring <- NoFiring
    DefaultFiring = "UNSPECIFIED"
    Open = FALSE
    LimitSteps = 0
    MaxInFlight = 2
    LimitLease = 1
    LimitAttempts = 2
    DefaultLease = 1
    DefaultAttempts = 3
    Filter <- OnlyC
    MaxItems = {1}
    Extension = {0}
    RequestKey = {None}
    RenewFirst = TRUE
    Worker = {h, w}
    Driver = h
    MaxInject = 1
    MaxProvider = 1
    Policies <- SomePolicies
    PluginSets <- SomePlugins
    CapabilityOf <- OwnCapability
    Builds = {"new", "old"}
    NoDigest = "none"
    Current = {"new"}
    Compute <- Computed
    Earlier <- SomeEntries
    Schemas = {"mc"}
    Stepped = {"mb"}
    MayFail = TRUE
    MaxBreaks = 1
INVARIANTS
    HostTypeOK
    RowsFollowCommits
    MemoSound
    FinalIsAccepted
    OtherRunsKept
PROPERTIES
    TablesGo
    DrivenRunCloses
CHECK_DEADLOCK FALSE
