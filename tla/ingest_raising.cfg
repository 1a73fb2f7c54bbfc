SPECIFICATION FairSpec
CONSTANTS
    acme = acme
    beta = beta
    apdf = apdf
    bpdf = bpdf
    n1 = n1
    d1 = d1
    d2 = d2
    d3 = d3
    Path <- TwoPaths
    HintOf <- FolderAndInbox
    NameOf <- TwoNames
    Doc <- Docs
    SellerOf <- Sellers
    NumberOf <- Numbers
    Raising = {d2}
    Editable = {}
    NoHint = NoHint
    NoNumber = NoNumber
    NoFile = NoFile
    MaxAttempts = 2
    MaxWrites = 1
    MaxFaults = 0
PROPERTY EveryFileSettles
