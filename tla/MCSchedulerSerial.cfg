SPECIFICATION FairSpec
CONSTANTS
    w1 = w1
    w2 = w2
    Jobs = {1, 2}
    Api = api
    Workers = {w1, w2}
    Owner <- MCOwner
    None = None
    MaxAttempts <- MCMaxAttempts
    BatchLimit = 2
    ApiOps = {"cancel", "run"}
    OneAtATime = TRUE
    MaxFaults = 2
INVARIANTS TypeOK LeaseMeansRunning
PROPERTIES ImplementsLifecycle JobsEnd
CHECK_DEADLOCK FALSE
