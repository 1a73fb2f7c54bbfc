SPECIFICATION FairSpec
CONSTANTS
    MaxJobs = 1
    Worker = {w1}
    Entry = w1
    WorkerPid = {p1, p2}
    WebPid = {q1}
    NoPid = NoPid
    NoJob = NoJob
    Poison = {1}
    Cancellable = {}
    MaxFaults = 0
PROPERTY
    BadJobFails
