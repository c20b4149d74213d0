\* Two readers, one of which may stall, stop or be shed (Rust).
SPECIFICATION FairSpec
CONSTANTS
    Sub = {"narrow", "wide"}
    Topic = {"t", "u"}
    Topics <- OneAndBoth
    Buffer = 2
    Disconnects = TRUE
    MaxEvents = 4
INVARIANTS
    TypeOK
    DeliveredInOrder
PROPERTIES
    NoSilentLoss
CHECK_DEADLOCK FALSE
