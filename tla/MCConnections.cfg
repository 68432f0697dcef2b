SPECIFICATION Spec
CONSTANTS
    c1 = c1
    c2 = c2
    a1 = a1
    a2 = a2
    s1 = s1
    s2 = s2
    None = None
    Unlimited = Unlimited
    Conns <- MCConns
    Tcp <- MCConns
    MayLink <- MCMayLink
    Addresses <- MCAddresses
    Address <- MCAddress
    Speeds <- MCSpeeds
    MaxChanges = 2
SYMMETRY MCSymmetry
INVARIANTS
    TypeOK
    DeletedUsersAreCutOff
    SpeedIsShared
    OnlineIsReported
CHECK_DEADLOCK FALSE
