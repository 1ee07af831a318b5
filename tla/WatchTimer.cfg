SPECIFICATION FairSpec
CONSTANTS
    Threads <- OnlyTimer
    MaxTag = 3
    Version <- ThreeVersions
    MaxInt = 20
    MaxRev = 3
    Manual = {0, 1}
    Clicked = {"skip", "snooze"}
    Notify = TRUE
    Faults <- Lasting
INVARIANT TypeOK
INVARIANT NotifiedOnce
PROPERTY NewReleaseIsTold
