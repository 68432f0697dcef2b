SPECIFICATION Spec
CONSTANTS
    a1 = a1
    a2 = a2
    Apis <- MCApis
    FirstFile <- MCFirstFile
    Files <- MCFiles
    Hops = {h1}
    None = None
    Broken = Broken
    Partial = {}
    Faulty = {}
    RemovalFails = FALSE
    MaxChanges = 0
    MaxEdits = 0
    MaxCrashes = 1
INVARIANTS
    BackendsAreIndependent
CHECK_DEADLOCK FALSE
