SPECIFICATION FairSpec
CONSTANTS
    web1 = web1
    start1 = start1
    start2 = start2
    Runner <- Runners
    Version <- Versions
    NoRunner = NoRunner
    MaxFaults = 2
INVARIANTS
    OneRunner
    AppliedInOrder
    RecordedIsApplied
    UpIsMigrated
PROPERTIES
    EveryStartEnds
