CONSTANTS
    Workers = {w1, w2}
    Execs = {e1, e2}
    Jobs = {j1}
    NoExec = NoExec
    NoJob = NoJob
    NoWorker = NoWorker
    NoTask = NoTask
    MaxRetries = 1
    Deployments = {"repaired", "committed"}
    Results <- Clean
    MaxFaults <- DeliveredOnce
SPECIFICATION FairSpec
INVARIANTS OneWorkerPerExecution NoStaleRun CountersAddUp
PROPERTIES ImplementsLifecycle DispatchedEnds
