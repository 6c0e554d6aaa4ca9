SPECIFICATION Spec
CONSTANTS
    api = api
    script = script
    Procs = {api, script}
    NumScenarios = 3
    LowCosts = {1}
    Essential = {1}
    Payloads <- MCPayloads
    Budgets <- MCBudgets
SYMMETRY MCSymmetry
INVARIANTS GradeIsWholeGrid ScenariosExplained SummaryExplained ReplaysExplained WindowsCover
PROPERTY CompleteStands
CHECK_DEADLOCK FALSE
