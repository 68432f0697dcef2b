SPECIFICATION FairSpec
CONSTANTS
    Runs = {r1, r2}
    First = FALSE
    None = None
    alice = alice
    bob = bob
    carol = carol
    Uuids <- MCUuids
    Speeds <- MCSpeeds
    Unbuildable <- MCUnbuildable
    FirstLists <- MCFirstLists
    MaxChanges = 2
    PanelLists <- MCPanelLists
INVARIANTS
    TypeOK
    SyncedOrRestarting
PROPERTIES
    Converges
CHECK_DEADLOCK FALSE
