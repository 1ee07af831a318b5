SPECIFICATION Spec
CONSTANTS
    a = a
    v1 = v1
    v2 = v2
    v3 = v3
    Absent = Absent
    Jobs <- One
    Versions <- Releases
    Compatible <- MCCompatible
    Managed = TRUE
    SetsDNS = TRUE
    CanElevate = TRUE
    LockedExe = TRUE
    Faults <- AllFaults
INVARIANT TypeOK
INVARIANT LeavesAcceptedBinary
INVARIANT PreviousKept
INVARIANT InstalledRuns
PROPERTY StartsAccepted
