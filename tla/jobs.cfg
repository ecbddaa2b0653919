SPECIFICATION Spec
CONSTANTS
    Seeds <- Kinds
    Directions = {d1}
    Filters = {"none", "some"}
    Schedules = {"none", "bad cron", "interval"}
    MaxJobs = 2
    MaxCalls = 2
    MaxVisits = 2
    Adapts = {"direction", "items"}
    MaxOthers = 1
    MaxFailures = 1
INVARIANTS
    TypeOK
    BeatFollowsRow

    
CHECK_DEADLOCK FALSE
