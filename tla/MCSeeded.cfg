SPECIFICATION Spec
CONSTANTS
  FileCountLimit = 5
  Requirements <- MCRequirements
  Targets <- MCTargets
  MinimumPairs = 2
  Pairs = 5
  MaximumTrials = 3
  Candidates = {"smaller", "smallest"}
  PayloadFiles = 4
  MaxFaults = 3
INVARIANT PreparedLinked
INVARIANT ValidationLinked
INVARIANT PerformanceIsMinimal
PROPERTY SeedsEventuallyValidated
CHECK_DEADLOCK FALSE
