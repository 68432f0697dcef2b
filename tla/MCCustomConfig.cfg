SPECIFICATION Spec
CONSTANTS
    Traffic <- MCTraffic
    DnsTraffic <- MCDnsTraffic
    Texts <- MCTexts
    Empty = Empty
    Names <- MCNames
    Selects <- MCSelects
    Items <- MCItems
    Lines <- MCLines
    MaxItems = 2
INVARIANTS
    TypeOK
    RulesHaveOutbounds
    TagsAreUnique
    RoutesAsConfigured
CHECK_DEADLOCK FALSE
