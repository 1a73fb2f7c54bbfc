SPECIFICATION FairSpec
CONSTANTS
    MaxJobs = 3
    Worker = {w1}
    Entry = w1
    WorkerPid = {p1, p2}
    WebPid = {p2, q1}
    NoPid = NoPid
    NoJob = NoJob
    Poison = {}
    Cancellable = {1, 2, 3}
    MaxFaults = 3
INVARIANTS
    NeverQueuedWhileExecuting
PROPERTIES
    SettlesUnlessHeld
    LifecycleSpec
