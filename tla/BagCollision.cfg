\* Two trait bags, one of them with a zero byte in a body.
SPECIFICATION Spec
CONSTANTS
    None = None
    Manifest = {}
    Name = {"m", "n"}
    Ref <- Refs
    Blank = "blank"
    Content = {"blank", "c1", "c2"}
    Data <- Payloads
    Hash <- Digests
    Namespace <- Namespaces
    Artifact <- AnyBytes
    LimitInline = 0
    DefaultInline = 8
    MaxBlob = 2
    Caller = {p}
    Key = {"k", "l"}
    NoKey = "none"
    AppendKind = {}
    AppendSubject = {"m"}
    AppendDetail = {"c1"}
    MaxLedger = 2
INVARIANT
    ReadsBack
CHECK_DEADLOCK FALSE
