SPECIFICATION Spec
CONSTANTS
    replayAware = replayAware
    baseline = baseline
    Models = {replayAware, baseline}
    ReplayAware <- MCReplayAware
    Api = api
    Workers = {}
    None = None
    Modes = {"label_derived", "replay_aware"}
    Requests = {"validate", "approve", "reject", "activate", "direct"}
    NamedChampions = {}
    NamedReports = {{}, {1}}
    MaxReports = 2
    MaxProposals = 1
    MaxCycles = 1
    MaxFaults = 1
INVARIANTS TypeOK ActiveHasAcceptedReport FlagsAgree ActivationRequested RecommendedOnReport LedgerExplains
PROPERTY ImplementsLifecycle
CHECK_DEADLOCK FALSE
