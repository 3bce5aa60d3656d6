\* Two precisions, two cases, two repetitions; one invocation, no fault.
CONSTANTS
    Precisions <- MCPrecisions
    Cases <- MCCases
    Views <- MCViews
    Repetitions = 2
    RequireBitwise = FALSE
    MaxAttempts = 1
    MaxFaults = 0
SPECIFICATION Spec
INVARIANTS
    RecordedOnItsOwnChain
CHECK_DEADLOCK FALSE
