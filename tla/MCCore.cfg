SPECIFICATION Spec
CONSTANTS
    Shapes <- OneShape
    MinPairs = 1
    IdleTries = 2
    Precisions <- TwoPrecisions
    Facts <- MCFacts
    RequireBitwise = FALSE
    Metrics = {"device_memory"}
    Builds = 3
    Interruptible = TRUE
    MaxRuns = 1
INVARIANTS AcceptedRecordsArePairs PassedIsComplete FailuresAreRecorded BlameFollowsTheCase DecidedFromPairs
PROPERTY EveryRunEnds
CHECK_DEADLOCK FALSE
