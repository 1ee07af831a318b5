SPECIFICATION FairSpec
CONSTANTS
    a = a
    b = b
    v1 = v1
    v2 = v2
    Absent = Absent
    NotKept = NotKept
    Savers <- One
    Appliers <- One
    NFiles = 2
    Toml = 1
    Contents <- MCContents
    Accepted <- MCAccepted
    Managed = TRUE
    CanElevate = TRUE
    Faults <- Recoverable
INVARIANT RunsOnlyAccepted
INVARIANT RestartedOnNewFiles
PROPERTY SavesAreAtomic
PROPERTY Answered
