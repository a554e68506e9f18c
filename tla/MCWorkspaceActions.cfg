CONSTANTS
    f1 = f1
    f2 = f2
    Files = {f1, f2}
    MaxRuns = 2
    RunFiles <- MCRunFiles
    Initial <- MCInitial
    EditedFiles = {f2}
    Derived = {2}
    Original = Original
    Edited = Edited
    Torn = Torn
    Absent = Absent
    None = None
    Keep = 1
    MaxAttempt = 2
    MaxCalls = 1
    MaxFaults = 1
SPECIFICATION Spec
INVARIANTS
    TypeOK
    ShadowIsTheCurrentAttempt
    OnlyApprovedBytesLand
    DiskAgreesWithMemory
PROPERTIES
    RestoreReturnsWhatWasReplaced
    DecisionsStand
CHECK_DEADLOCK FALSE
