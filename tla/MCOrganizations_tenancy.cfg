SPECIFICATION Spec
CONSTANTS
    u1 = u1
    u2 = u2
    NoUser = NoUser
    Users <- MCUsers
    MaxRequests = 2
    Names <- MCNames
    NewSlugs <- MCNewSlugs
    MaxWrites = 1
    MaxFaults = 2
INVARIANTS
    SlugLeadsToOnePage
    CreationIsAccountedFor
    MembersWereAdmitted
PROPERTY
    WritesWithinCan
CHECK_DEADLOCK FALSE
