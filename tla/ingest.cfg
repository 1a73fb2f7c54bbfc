SPECIFICATION FairSpec
CONSTANTS
    acme = acme
    beta = beta
    apdf = apdf
    bpdf = bpdf
    n1 = n1
    d1 = d1
    d2 = d2
    d3 = d3
    Path <- ThreePaths
    HintOf <- Hints
    NameOf <- Names
    Doc <- Revisions
    SellerOf <- Sellers
    NumberOf <- Numbers
    Raising = {}
    Editable = {2}
    NoHint = NoHint
    NoNumber = NoNumber
    NoFile = NoFile
    MaxAttempts = 2
    MaxWrites = 2
    MaxFaults = 1
INVARIANTS
    IngestedStored
    NumberUnique
    RetriesBounded
    CategorisedAtRest
PROPERTIES
    EveryFileSettles
