\* Every wiring of three nodes; callers inject only artifacts with every trait.
SPECIFICATION CutSpec
CONSTANTS
    MaxResumes = 2
    Request <- Requests
    Provides <- Modules
    Bag <- Bags
    Injected = {{"t", "u"}}
INVARIANTS
    CyclesAreRefused
    NoStall
    DeliveredTraits
    SelectionSound
    UncutResumeAccepted
PROPERTIES
    ResumeDelivers
    ResumeRunsTheRest
CHECK_DEADLOCK FALSE
