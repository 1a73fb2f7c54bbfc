\* Seven documents of two suppliers, three extractions, two faults.
CONSTANTS
    Doc <- MCDoc
    Docs <- MCDocs
    None = None
    HsCode = {"hs"}
    MaxTokens <- MCMaxTokens
    Cap = 16
    MaxAttempts = 4
    NoDoc = NoDoc
    MaxBegun = 3
    MaxFaults = 2
    NegativeTypes = {}
    Passthrough <- MCPassthrough
    Departments <- MCDepartments
    Shared = "Shared Services"
    OtherDept = "Other"
    DisplayName <- MCDisplayName
SPECIFICATION Spec
INVARIANTS TypeOK RowsOnce PagesThatFitAreRead StoredOnce DepartmentsAgree ViewsAgree NoSilentGap
CHECK_DEADLOCK FALSE
