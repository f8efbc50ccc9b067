SPECIFICATION Spec
CONSTANTS
    ann = ann
    bob = bob
    cyd = cyd
    c1 = c1
    c2 = c2
    NoOne = NoOne
    People <- MCPeople
    Founders <- MCFounders
    Calls <- MCCalls
    MaxCalls = 4
    MaxDeaths = 1
SYMMETRY MCSymmetry
CHECK_DEADLOCK FALSE
INVARIANTS
    UsedTokenIsDead
    PendingIsDelivered
    AuditIsTruthful
    AuditLagsOnlyDeaths
    OperatorsMatchInvitations
PROPERTIES
    LockoutNeedsRace
