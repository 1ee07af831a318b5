SPECIFICATION Spec
CONSTANTS
    Threads <- OnlyTimer
    MaxTag = 2
    Version <- TwoVersions
    MaxInt = 20
    MaxRev = 2
    Manual = {0}
    Clicked = {}
    Notify = TRUE
    Faults <- OnlyUnsigned
INVARIANT ArchiveIsOfTheTag
