\* The same wirings; callers inject any stored artifact.
SPECIFICATION CutSpec
CONSTANTS
    MaxResumes = 0
    Request <- Requests
    Provides <- Modules
    Bag <- Bags
    Injected <- Bags
INVARIANTS
    DeliveredTraits
CHECK_DEADLOCK FALSE
