SPECIFICATION Spec
CONSTANTS
    MaxJobs = 2
    Worker = {w1, w2}
    Entry = w1
    WorkerPid = {p1, p2, p3}
    WebPid = {p3}
    NoPid = NoPid
    NoJob = NoJob
    Poison = {1}
    Cancellable = {1, 2}
    MaxFaults = 3
INVARIANTS
    OwnJobsReclaimed
    DoneWasRun
PROPERTIES
    CancelHolds
SYMMETRY
    Pids
