SPECIFICATION Spec
CONSTANTS
    w1 = w1
    w2 = w2
    Jobs = {1}
    Api = api
    Workers = {w1, w2}
    Owner <- MCOwner
    None = None
    MaxAttempts <- MCMaxAttempts
    BatchLimit = 1
    ApiOps = {"cancel", "run"}
    OneAtATime = FALSE
    MaxFaults = 0
INVARIANTS AttemptsBounded QueuedIsLeasable AuditTrail
CHECK_DEADLOCK FALSE
