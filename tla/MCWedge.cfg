SPECIFICATION Spec
CONSTANTS
    FileCountLimit = 5
    Requirements <- MCRequirements
    Targets <- MCTargets
    Shapes <- OneShape
    Facts <- AnyBaseline
    RequireBitwise = FALSE
    Aggregates = {"PERFORMANCE_REGRESSION"}
    Finals = {"smaller"}
    PayloadFiles = 4
    MaxFaults = 0
PROPERTY EveryDecisionIsResolved
CHECK_DEADLOCK FALSE
