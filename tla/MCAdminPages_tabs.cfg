SPECIFICATION Spec
CONSTANTS
    t1 = t1
    t2 = t2
    Tabs <- MCTabs
    Texts <- MCTexts
    AtFirst <- MCAtFirst
    MaxOrganizations = 3
    MaxRenames = 1
    PageSize = 1
    Searches <- MCSearches
    MaxFactors = 1
    MaxLists = 1
SYMMETRY MCSymmetry
INVARIANTS
    RedirectsEnd
    CodesWereSeen
    ListIsComplete
