SPECIFICATION Spec
CONSTANTS
  Gates <- MCGates
  Order <- MCOrder
  MoveOrder <- MCMoveOrder
  Deps <- MCDeps
  Under <- MCUnder
  DomainSteps <- MCDomain
  AlwaysSteps <- MCAlways
  Masking = {}
  Audited = {"dependency-audit"}
  Keeping = {"core-qualification"}
  Refusing = {"reduction-prepare"}
  Script <- MCScript
  Throughs = {"none"}
  MaxInvocations = 3
  MaxFaults = 1
  MaxLosses = 1
  MaxHostChanges = 0
  MaxDigests = 2
INVARIANT EvidenceUnderOneLock
CHECK_DEADLOCK FALSE
