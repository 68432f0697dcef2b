SPECIFICATION ConflictsSpec
CONSTANTS
    MaxPort = 4
    MaxRecords = 5
INVARIANTS
    ConflictsTypeOK
    HullsAreCovered
    GroupsAreApart
    ConflictsAreComponents
\* the function returns
CHECK_DEADLOCK FALSE
