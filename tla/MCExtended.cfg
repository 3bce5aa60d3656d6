\* Two precisions, two cases, two repetitions; two invocations, two faults.
CONSTANTS
    Precisions <- MCPrecisions
    Cases <- MCCases
    Views <- MCViews
    Repetitions = 2
    RequireBitwise = FALSE
    MaxAttempts = 2
    MaxFaults = 2
SPECIFICATION Spec
INVARIANTS
    PassedComparesAll
    RegressionOnValidBaseline
    WorkerFailureIsRecorded
    FailureIsEvidenced
CHECK_DEADLOCK FALSE
