SPECIFICATION Spec
CONSTANTS
    a = a
    b = b
    c = c
    NoProc = NoProc
    Absent = Absent
    Empty = Empty
    Torn = Torn
    Apart = Apart
    Procs <- Three
    Modes <- ModeKinds
    Flags = {TRUE}
    CanElevate = TRUE
    Chars <- MCChars
    ConfigPath <- MCPath
    Dirs <- MCDirs
    Faults <- AllFaults
INVARIANT FlagsAreForThisRun
