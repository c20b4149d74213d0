\* One FIRST_TERMINAL run of the fan-in, every node ONCE, two workers that may crash, polled fairly (Rust).
SPECIFICATION FairSpec
CONSTANTS
    None = None
    Node = {"b", "c", "d"}
    NodeOrder <- NodeRank
    Binding <- FanInBinding
    Input = {"i"}
    Artifact = {x}
    Port = {"p", "q"}
    OutName = {"o"}
    KeyPort <- NoKeyPort
    OutPort <- OnePort
    RequiredOut <- Required
    TerminalNode = "d"
    TerminalPort = "o"
    Module = {"m"}
    ModuleOf <- OneModule
    ByNode <- NoFiring
    CapFiring <- NoFiring
    DefaultFiring = "UNSPECIFIED"
    Open = FALSE
    LimitSteps = 0
    MaxInFlight = 2
    LimitLease = 1
    LimitAttempts = 2
    DefaultLease = 1
    DefaultAttempts = 3
    Filter <- FanInFilter
    MaxItems = {2}
    Extension = {0}
    RequestKey = {None}
    RenewFirst = TRUE
    Worker = {w1, w2}
    MaxInject = 0
    MaxProvider = 1
INVARIANTS
    TypeOK
    CommittedOnce
    AttemptBudget
    AnswerProvenance
    StalledMeansExhausted
    OneHolderPerAttempt
PROPERTIES
    ReleasedIsReady
    Lifecycle
    RunCloses
    ClaimsResolve
CHECK_DEADLOCK FALSE
