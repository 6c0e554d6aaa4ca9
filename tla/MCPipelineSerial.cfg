SPECIFICATION FairSpec
CONSTANTS
    api = api
    worker = worker
    worker2 = worker2
    Procs = {api, worker}
    NumDays = 2
    MayRun <- Split
    Ranges <- AllDates
    Forces = {FALSE}
    OneAtATime = TRUE
    MaxUpserts = 2
    MaxFaults = 1
INVARIANT CleanIsCurrent
CHECK_DEADLOCK FALSE
