SPECIFICATION Spec
CONSTANTS
    Workloads <- MCWorkloads
    Definitions <- MCDefinitions
    Evaluations <- MCEvaluations
    Rates <- MCRates
    TargetCurrency = "USD"
    RatioUnit = 10
    DayLength = 2
    Given = {FALSE}
    MaxRuns = 1
INVARIANTS
    RunsAreReproducible
    CountsMatchRuns
PROPERTIES
    RunsConformToReference
CHECK_DEADLOCK FALSE
