CONSTANTS
    Workers = {w1, w2}
    Execs = {e1, e2}
    Jobs = {j1}
    NoExec = NoExec
    NoJob = NoJob
    NoWorker = NoWorker
    NoTask = NoTask
    MaxRetries = 1
    Deployments = {"committed"}
    Results <- Clean
    MaxFaults <- NoFaults
SPECIFICATION Spec
INVARIANT EveryPhaseRuns
