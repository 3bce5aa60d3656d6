SPECIFICATION FairSpec
CONSTANTS
  Candidates = {"c1", "c2"}
  Original = "c1"
  Stages <- ThreeStages
  History = "environment_history"
  MaximumTrials = 11
  ConfirmationCount = 2
  MaxOffered = 2
INVARIANT TypeOK
INVARIANT CurrentIsConfirmed
INVARIANT CompletedReplayed
INVARIANT InvalidEndsSession
PROPERTY Finishes
CHECK_DEADLOCK FALSE
