SPECIFICATION Spec
CONSTANTS
    Lines <- AllLines
    Paths <- AllPaths
    MaxLines = 4
    MaxPatches = 2
INVARIANT TypeOK
INVARIANT PatchTakesEffect
INVARIANT OthersKept
INVARIANT OutsidePreserved
INVARIANT CurrentIsLiveOnce
CHECK_DEADLOCK FALSE
