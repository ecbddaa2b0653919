CONSTANTS
    Workers = {w1, w2}
    Execs = {e1}
    Jobs = {j1}
    NoExec = NoExec
    NoJob = NoJob
    NoWorker = NoWorker
    NoTask = NoTask
    MaxRetries = 1
    Deployments = {"repaired", "committed"}
    Results <- Never
    MaxFaults <- EveryFault
SPECIFICATION Spec
SYMMETRY Interchangeable
INVARIANTS TypeOK ExclusiveUntilImages NoLeakedLock
PROPERTIES NeverReopened
