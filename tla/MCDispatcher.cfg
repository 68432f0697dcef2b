SPECIFICATION FairSpec
CONSTANTS
    Deadline = 3
    MaxSent = 4
INVARIANTS
    TypeOK
    StreamIsIntact
    CountedOnce
    NobodyWaits
PROPERTIES
    Settles
    IsStream
CHECK_DEADLOCK FALSE
