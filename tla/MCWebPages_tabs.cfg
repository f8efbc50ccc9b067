SPECIFICATION PagesSpec
CONSTANTS
    t1 = t1
    t2 = t2
    ann = ann
    bob = bob
    Nobody = Nobody
    Tabs <- MCTabs
    People <- MCPeople
    Next_ <- MCNext
    MaxOrganizations = 1
    MaxLinks = 1
    RateLimited = TRUE
SYMMETRY MCSymmetry
INVARIANTS
    GuardedPages
    LinksLand
    ResetIsForTheLink
