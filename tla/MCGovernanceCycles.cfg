SPECIFICATION FairSpec
CONSTANTS
    replayAware = replayAware
    baseline = baseline
    Models = {replayAware}
    ReplayAware <- MCReplayAware
    Api = api
    Workers = {worker}
    None = None
    Modes = {"replay_aware"}
    Requests = {"train", "approve"}
    NamedChampions = {}
    NamedReports = {{}}
    MaxReports = 1
    MaxProposals = 2
    MaxCycles = 1
    MaxFaults = 1
INVARIANT CompletedCycleIsBacked
PROPERTIES CyclesEnd
CHECK_DEADLOCK FALSE
