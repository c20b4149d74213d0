\* An OPEN run of the side assembly, ALWAYS feeding ONCE_PER_KEY: an input injected, a module registered
\* again and commits retried under a request_key while it runs; the heartbeat of Go and Python.
SPECIFICATION Spec
CONSTANTS
    None = None
    Node = {"a", "b", "c"}
    NodeOrder <- NodeRank
    Binding <- SideBinding
    Input = {"i"}
    Artifact = {x, y}
    Port = {"p"}
    OutName = {"o", "z"}
    KeyPort <- NoKeyPort
    OutPort <- SidePort
    RequiredOut <- SidePort
    TerminalNode = "b"
    TerminalPort = "o"
    Module = {"m"}
    ModuleOf <- OneModule
    ByNode <- NoFiring
    CapFiring <- MixedFiring
    DefaultFiring = "UNSPECIFIED"
    Open = TRUE
    LimitSteps = 4
    MaxInFlight = 2
    LimitLease = 1
    LimitAttempts = 1
    DefaultLease = 1
    DefaultAttempts = 3
    Filter <- AnyNode
    MaxItems = {2}
    Extension = {0}
    RequestKey = {None, k}
    RenewFirst = FALSE
    Worker = {w}
    MaxInject = 1
    MaxProvider = 2
SYMMETRY ArtifactSymmetry
INVARIANTS
    FiringIdentity
    LineageClosed
    NoBusyLoop
    LimitsHold
    RepliesAreCommits
PROPERTIES
    ClosedIsFinal
CHECK_DEADLOCK FALSE
