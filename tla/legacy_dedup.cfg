\* Six files, three threads, three faults: runs killed, failed copies, failed calls.
CONSTANTS
    File = {1, 2, 3, 4, 5, 6}
    Content <- MCContent
    NumberOf <- MCNumberOf
    TotalOf <- MCTotalOf
    KeyOf <- MCKeyOf
    Rows <- MCRows
    HasDb = TRUE
    DryRun = FALSE
    Workers = 3
    NoNumber = "none"
    NoTotal = NoTotal
    NoFile = 0
    MaxFaults = 3
SPECIFICATION Spec
INVARIANTS TypeOK DuplicateHasOriginal OneOfEachNumber PagesKept
CHECK_DEADLOCK FALSE
