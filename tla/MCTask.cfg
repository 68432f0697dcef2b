SPECIFICATION TaskFairSpec
CONSTANTS
    Runs = {r1, r2, r3}
    First = TRUE
    None = None
INVARIANTS
    TaskTypeOK
    AtMostOneLiveRun
    AtMostOneLateRun
PROPERTIES
    Watchdog
    ClosedLoopEnds
\* a task that was closed and whose runs have ended stops
CHECK_DEADLOCK FALSE
