SPECIFICATION FairSpec
CONSTANTS
    a1 = a1
    a2 = a2
    Apis <- MCApis
    FirstFile <- MCFirstFile
    Files <- MCFiles
    Hops = {h1}
    None = None
    Broken = Broken
    Partial = {None}
    Faulty = {a2}
    RemovalFails = TRUE
    MaxChanges = 1
    MaxEdits = 1
    MaxCrashes = 1
INVARIANTS
    TypeOK
    RulesMatchBackends
    DetectedIsPending
PROPERTIES
    ChangeApplied
CHECK_DEADLOCK FALSE
