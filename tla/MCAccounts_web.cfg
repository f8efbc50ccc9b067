SPECIFICATION Spec
CONSTANTS
    a1 = a1
    a2 = a2
    x = x
    y = y
    b1 = b1
    b2 = b2
    NoAddress = NoAddress
    NoToken = NoToken
    Ids <- MCIds
    Addresses <- MCAddresses
    Browsers <- MCBrowsers
    Seed <- MCSeed
    HookKeys <- MCHookKeys
    MaxTokens = 2
    MaxPasswords = 1
    MaxSessions = 3
    MaxFaults = 1
SYMMETRY MCSymmetry
INVARIANTS
    OldSessionsEnd
    AddressesAreProven
CHECK_DEADLOCK FALSE
