CONSTANTS
    Configs <- Typed
    CurrencyOf <- Reported
    MaxPresses = 2
    MaxLost = 1
    MaxVisits = 2
SPECIFICATION FairSpec
INVARIANTS CurrencyOfStored OneConnectionPerVisit KeepsNewRow NoLateRedirect
PROPERTIES FirstRunReachesWizard
CHECK_DEADLOCK FALSE
