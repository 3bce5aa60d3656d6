SPECIFICATION Spec
CONSTANTS
    FileCountLimit = 5
    Requirements <- MCRequirements
    Targets <- MCTargets
    Shapes <- MCShapes
    Facts <- AnyBaseline
    RequireBitwise = FALSE
    Aggregates = {}
    Finals = {"smaller"}
    PayloadFiles = 4
    MaxFaults = 3
INVARIANTS PublicFailureTypeOK DispositionLinked ResolvedIsCurrent
PROPERTIES FinishedWorkIsKept AgreedDecisionIsResolved
CHECK_DEADLOCK FALSE
