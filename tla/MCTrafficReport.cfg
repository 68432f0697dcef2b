SPECIFICATION FairSpec
CONSTANTS
    Runs = {r1, r2}
    First = FALSE
    None = None
    Emails = {alice}
    Storages = {s1, s2}
    Threshold = 1
    MaxSent = 1
INVARIANTS
    TypeOK
    NoOverReport
PROPERTIES
    CounterDrains
CHECK_DEADLOCK FALSE
