SPECIFICATION Spec
CONSTANTS
    r1 = r1
    r2 = r2
    Series = {"m","d"}
    Daily = {"d"}
    MaxDay = 3
    Weekend = {2}
    Span = 1
    MaxRetries = 2
    Requests = {r1, r2}
    MaxOps = 2
    MaxChecks = 2
SYMMETRY Alike
INVARIANTS GapsExplained CompletedIsStored GateIsReviewed
CHECK_DEADLOCK FALSE
