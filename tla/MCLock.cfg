SPECIFICATION FairSpec
CONSTANTS
  Runners = {"r1", "r2", "r3"}
  Checkouts = {"here"}
  CheckoutOf <- OneCheckout
  Sources = {"s1", "s2"}
  SourceOf <- TwoCommits
  MaxStarts = 5
INVARIANT LockFollowsProcesses
PROPERTY ImplementsExclusive
PROPERTY NoStaleLock
CHECK_DEADLOCK FALSE
