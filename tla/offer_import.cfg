SPECIFICATION Spec
CONSTANTS
    rose = rose
    lily = lily
    ean1 = ean1
    ean2 = ean2
    Name <- Names
    Ean <- Eans
    Cost <- Costs
    TargetOf <- Targets
    AdminPrice <- AdminPrices
    NoEan = NoEan
    NoCost = NoCost
    NoPrice = NoPrice
    MaxImports = 2
    MaxRows = 2
    MaxEdits = 1
SYMMETRY Renaming
INVARIANTS
    EansUnique
    AutoPriceFollowsOffer
    VersionsUnique
    OffersAccounted
    PreviewMatches
PROPERTIES
    ImportKeepsAdminData
CHECK_DEADLOCK FALSE
