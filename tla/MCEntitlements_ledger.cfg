SPECIFICATION Spec
CONSTANTS
    pro = pro
    team = team
    seats = seats
    logs = logs
    c1 = c1
    c2 = c2
    NoPlan = NoPlan
    Plans <- MCPlans
    Keys <- MCKeys
    Calls <- MCCalls
    Catalog <- MCCatalog
    Opening <- MCOpening
    Releases <- MCReleases
    DayEnds <- MCDayEnds
    MaxTime = 2
    MaxCalls = 3
    MaxEdits = 1
    MaxDeaths = 1
SYMMETRY MCSymmetry
CHECK_DEADLOCK FALSE
INVARIANTS
    RevokedStaysClosed
    EarlyEndsAreLogged
    GrantLogIsTrue
    ListAnswersHas
    CompsAreWhole
PROPERTIES
    LedgerOnlyCloses
    PastIsSettled
