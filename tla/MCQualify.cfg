SPECIFICATION CommandSpec
CONSTANTS
  Gates <- MCGates
  Order <- MCGateOrder
  MoveOrder <- MCMoveOrder
  Deps <- MCDeps
  Under <- MCUnder
  DomainSteps <- MCDomainSteps
  AlwaysSteps <- MCAlwaysSteps
  Masking <- MCMasking
  Audited <- MCAudited
  Keeping <- MCKeeping
  Refusing <- MCRefusing
  Script <- MCScript
  Throughs = {"none"}
  MaxInvocations = 2
  MaxFaults = 1
  MaxLosses = 1
  MaxHostChanges = 1
  MaxDigests = 1
  Direct = TRUE
INVARIANT CompletionReported
PROPERTY ReportTruthful
CHECK_DEADLOCK FALSE
