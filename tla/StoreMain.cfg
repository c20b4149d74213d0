\* Every store at once: modules, contracts, blobs, artifacts and module entries, two callers.
SPECIFICATION Spec
CONSTANTS
    None = None
    Manifest <- Manifests
    Name = {"m", "n"}
    Ref <- Refs
    Blank = "blank"
    Content = {"blank", "c1", "c2"}
    Data <- Payloads
    Hash <- Digests
    Namespace <- Namespaces
    Artifact <- Artifacts
    LimitInline = 3
    DefaultInline = 1
    MaxBlob = 2
    Caller = {p, q}
    Key = {"k"}
    NoKey = "none"
    AppendKind = {"domain.fact"}
    AppendSubject = {"m"}
    AppendDetail = {"c1"}
    MaxLedger = 4
SYMMETRY CallerSymmetry
INVARIANTS
    TypeOK
    LifecycleOrdered
    NoDanglingObject
    ReadsBack
PROPERTIES
    EntryExplains
    FirstWriteWins
CHECK_DEADLOCK FALSE
