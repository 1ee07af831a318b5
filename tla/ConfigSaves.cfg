SPECIFICATION Spec
CONSTANTS
    a = a
    b = b
    c = c
    NoProc = NoProc
    Absent = Absent
    Empty = Empty
    Torn = Torn
    Apart = Apart
    Procs <- Three
    Modes <- ModeKinds
    Flags = {FALSE}
    CanElevate = TRUE
    Chars <- MCChars
    ConfigPath <- MCPath
    Dirs <- MCDirs
    Faults <- AllFaults
INVARIANT TypeOK
INVARIANT OneTray
INVARIANT FileIsWhole
INVARIANT SavedIsKept
INVARIANT ChildInstallsAsAsked
SYMMETRY Symmetric
