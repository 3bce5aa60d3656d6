SPECIFICATION FairSpec
CONSTANTS
  Gates <- MCGates
  Order <- MCOrder
  MoveOrder <- MCMoveOrder
  Deps <- MCDeps
  Under <- MCUnder
  DomainSteps <- MCDomain
  AlwaysSteps <- MCAlways
  Masking = {"preflight", "dependency-audit", "plugin-matrix", "mobilenet-matrix"}
  Audited = {"dependency-audit"}
  Keeping = {"core-qualification"}
  Refusing = {"reduction-prepare"}
  Script <- MCScript
  Throughs <- MCThroughs
  MaxInvocations = 3
  MaxFaults = 1
  MaxLosses = 1
  MaxHostChanges = 1
  MaxDigests = 2
INVARIANT TypeOK
INVARIANT AtMostOneFailure
INVARIANT ComputedUnderOneLock
INVARIANT RecordsInOrder
INVARIANT CompleteRunIsValid
INVARIANT PublicationTruthful
PROPERTY RerunStartsClean
PROPERTY RepeatedOnlyForCause
PROPERTY EventuallyPublished
CHECK_DEADLOCK FALSE
