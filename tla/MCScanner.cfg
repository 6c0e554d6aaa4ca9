SPECIFICATION FairSpec
CONSTANTS
    s1 = s1
    s2 = s2
    c1 = c1
    Symbols = {"A"}
    Models = {"m1", "m2"}
    Stops = {s1, s2}
    Clients = {c1}
    QueueSize = 1
    MaxRuns = 2
    MaxSignals = 2
    MaxFaults = 1
INVARIANTS RunRowsExplained SignalsTellRun StreamOrder
PROPERTY StopEnds
CHECK_DEADLOCK FALSE
