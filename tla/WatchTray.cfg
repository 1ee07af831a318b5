SPECIFICATION Spec
CONSTANTS
    Threads <- Tray
    MaxTag = 2
    Version <- TwoVersions
    MaxInt = 20
    MaxRev = 2
    Manual = {1}
    Clicked = {"skip"}
    Notify = TRUE
    Faults <- AllFaults
INVARIANT CacheIsCurrent
