SPECIFICATION Spec
CONSTANTS
    Logs = {l1, l2}
    Mapped = {l1}
    Failed = {l1, l2}
    Workers = {w1, w2}
    MaxRetries = 1
    Outcomes = {"ok", "transient", "gone"}
    MaxCalls = 2
    PageSize = 2
    MaxFaults = 1
INVARIANTS
    TypeOK
    PendingHasTask
    AttemptsBounded
    NotLeftOnScreen
SYMMETRY Alike
CHECK_DEADLOCK FALSE
