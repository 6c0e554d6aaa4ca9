SPECIFICATION Spec
CONSTANTS
    Settings <- MCSettings
    Procs = {api, worker}
    Phases <- MCPhases
    Targets <- MCTargets
    MaxMigrations = 2
SYMMETRY MCSymmetry
INVARIANTS ScriptsApply BackendsAgree
PROPERTY AcceptedIsCurrent
CHECK_DEADLOCK FALSE
