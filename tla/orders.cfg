SPECIFICATION Spec
CONSTANTS
    o1 = o1
    o2 = o2
    Nothing = Nothing
    Orders <- OrdersDef
    MaxRequests = 3
    MaxFaults = 1
    MaxDeletes = 1
    MaxVisits = 2
    PageSize = 1
INVARIANTS
    TypeOK
    DuplicatesPaidFor
    SuccessIsListed
SYMMETRY Alike
CHECK_DEADLOCK FALSE
