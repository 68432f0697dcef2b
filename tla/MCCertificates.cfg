SPECIFICATION FairSpec
CONSTANTS
    Runs = {r1, r2}
    Boot = Boot
    Pairs = {p1, p2, p3, p4, p5}
    Missing = Missing
    Torn = Torn
    None = None
    MaxReloads = 2
    MaxCrashes = 1
    MaxFailures = 1
INVARIANTS
    TypeOK
    FilesExistAtStart
    PairIsWhole
PROPERTY
    Heals
CHECK_DEADLOCK FALSE
