\* Go, Python: the chain under the heartbeat that reaps first, against docs/Concurrency.md.
SPECIFICATION Spec
CONSTANTS
    None = None
    Node = {"a", "b"}
    NodeOrder <- NodeRank
    Binding <- ChainBinding
    Input = {"i"}
    Artifact = {x}
    Port = {"p"}
    OutName = {"o"}
    KeyPort <- NoKeyPort
    OutPort <- OnePort
    RequiredOut <- Required
    TerminalNode = "b"
    TerminalPort = "o"
    Module = {"m"}
    ModuleOf <- OneModule
    ByNode <- NoFiring
    CapFiring <- NoFiring
    DefaultFiring = "UNSPECIFIED"
    Open = FALSE
    LimitSteps = 0
    MaxInFlight = 2
    LimitLease = 1
    LimitAttempts = 2
    DefaultLease = 1
    DefaultAttempts = 3
    Filter <- AnyNode
    MaxItems = {0, 2}
    Extension = {0}
    RequestKey = {None}
    RenewFirst = FALSE
    Worker = {w1, w2}
    MaxInject = 0
    MaxProvider = 1
SYMMETRY WorkerSymmetry
PROPERTIES
    HeldIsRenewed
CHECK_DEADLOCK FALSE
