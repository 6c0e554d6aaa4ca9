SPECIFICATION Spec
CONSTANTS
    api = api
    worker = worker
    worker2 = worker2
    Procs = {api}
    NumDays = 2
    MayRun <- Everything
    Ranges <- SomeDates
    Forces = {FALSE, TRUE}
    OneAtATime = TRUE
    MaxUpserts = 1
    MaxFaults = 0
PROPERTY HiddenOnly
CHECK_DEADLOCK FALSE
