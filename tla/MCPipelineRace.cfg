SPECIFICATION FairSpec
CONSTANTS
    api = api
    worker = worker
    Procs = {api, worker, worker2}
    worker2 = worker2
    NumDays = 1
    MayRun <- Shared
    Ranges <- AllDates
    Forces = {FALSE}
    OneAtATime = FALSE
    MaxUpserts = 2
    MaxFaults = 0
CHECK_DEADLOCK FALSE
PROPERTY HiddenOnly
PROPERTY WindowsSettle
