SPECIFICATION Spec
CONSTANTS
    Paths <- MCPaths
    Configs <- MCConfigs
    Setups = {"vwap", "orb"}
    Sides = {"LONG", "SHORT"}
    Times = 5
    Close = 5
    Atr = 2
    Target = 1
    Unit = 2
    Hold = 2
    MaxCands = 3
INVARIANTS WithinLimits DecidesOnThePast DrawdownIsWorstStretch LabelsAgree
CHECK_DEADLOCK FALSE
