SPECIFICATION Spec
CONSTANTS
    Threads = {t1, t2}
    Kinds = {"snapshots", "decisions"}
    Unguarded = {"snapshots"}
    MaxKept <- Kept
    MaxRequests = 2
    MaxCrashes = 1
    MaxFaults = 1
SYMMETRY Symmetry
INVARIANTS
    TypeOK
    AckedSurvive
    MemoryMatchesFile
    FileInOrder
PROPERTIES
    OffIsOff
CHECK_DEADLOCK FALSE
