SPECIFICATION Spec
CONSTANTS
    a = a
    b = b
    v1 = v1
    v2 = v2
    Absent = Absent
    NotKept = NotKept
    Savers <- One
    Appliers <- One
    NFiles = 2
    Toml = 1
    Contents <- MCContents
    Accepted <- MCAccepted
    Managed = TRUE
    CanElevate = FALSE
    Faults <- OnlyStop
INVARIANT RestartedOnNewFiles
