\* One wiring, started as a whole; a resumed run is resumed again.
SPECIFICATION CutSpec
CONSTANTS
    MaxResumes = 2
    Request <- Twice
    Provides <- Modules
    Bag <- Bags
    Injected = {{"t", "u"}}
INVARIANTS
    ResumeAccepted
CHECK_DEADLOCK FALSE
