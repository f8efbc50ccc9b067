SPECIFICATION Spec
CONSTANTS
    u1 = u1
    u2 = u2
    NoUser = NoUser
    Users <- MCUsers
    MaxRequests = 2
    Names <- MCNames
    NewSlugs <- MCNewSlugs
    MaxWrites = 0
    MaxFaults = 0
INVARIANT
    RoutedByCount
CHECK_DEADLOCK FALSE
