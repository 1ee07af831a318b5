SPECIFICATION Spec
CONSTANTS
    Lines <- AllLines
    Paths <- ShownPaths
    MaxLines = 3
    MaxPatches = 1
INVARIANT CurrentIsLive
CHECK_DEADLOCK FALSE
