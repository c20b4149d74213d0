\* One node with two inputs on one port, alone with the kernel; an earlier run left a memo entry.
SPECIFICATION HostSpec
CONSTANTS
    None = None
    x = x
    y = y
    Node = {"c"}
    NodeOrder <- NodeRank
    Binding <- FanInBinding
    Input = {"i", "j"}
    Artifact = {x, y}
    Port = {"p"}
    OutName = {"o"}
    KeyPort <- NoKeyPort
    OutPort <- OnePort
    RequiredOut <- OnePort
    TerminalNode = "c"
    TerminalPort = "o"
    Module = {"mb", "mc", "mx"}
    ModuleOf <- OwnModule
    ByNode <- NoFiring
    CapFiring <- NoFiring
    DefaultFiring = "UNSPECIFIED"
    Open = FALSE
    LimitSteps = 0
    MaxInFlight = 2
    LimitLease = 1
    LimitAttempts = 2
    DefaultLease = 1
    DefaultAttempts = 3
    Filter <- AnyNode
    MaxItems = {1}
    Extension = {0}
    RequestKey = {None}
    RenewFirst = TRUE
    Worker = {h}
    Driver = h
    MaxInject = 0
    MaxProvider = 1
    Policies <- OnePolicy
    PluginSets <- BothPlugins
    CapabilityOf <- OwnCapability
    Builds = {"new", "old"}
    NoDigest = "none"
    Current = {"new"}
    Compute <- Computed
    Earlier <- FanInEntry
    Schemas = {"mc"}
    Stepped = {}
    MayFail = FALSE
    MaxBreaks = 0
INVARIANT MemoSound
CHECK_DEADLOCK FALSE
