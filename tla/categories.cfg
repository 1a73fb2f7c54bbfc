SPECIFICATION Spec
CONSTANTS
    Invoice = {1, 2}
    Item = {"x1", "x2", "x3"}
    InvoiceOf <- InvoiceOfItem
    Textless = {"x3"}
    Name = {"Other", "OTHER", "Plants"}
    Folded <- LowerCase
    Other = "Other"
    NoLabel = "none"
    MaxListed = 2
    MaxRequests = 3
    MaxFaults = 1
INVARIANTS
    LabelsFollowVocabulary
PROPERTIES
    DiscoversOnlyIfMissing
CHECK_DEADLOCK FALSE
