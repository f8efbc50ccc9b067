SPECIFICATION Spec
CONSTANTS
    b1 = b1
    b2 = b2
    c1 = c1
    c2 = c2
    Browsers <- MCBrowsers
    Calls <- MCCalls
    CodeCount = 1
    MaxCalls = 5
    MaxSessions = 2
    MaxDeaths = 1
SYMMETRY MCSymmetry
CHECK_DEADLOCK FALSE
INVARIANTS
    CodeOpensOneSession
    ElevationIsEarned
    StaleCodesAreExplained
    ResetEndsElevations
    FactorCameWithCodes
