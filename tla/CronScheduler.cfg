SPECIFICATION FairSpec
CONSTANTS
  n1 = n1
  n2 = n2
  Names = {n1, n2}
  CronNames = {n2}
  Fns = {"fn"}
  Slots <- TwoPerName
INVARIANTS
  TriggersAreHonoured
  StaleWorkIsBounded
PROPERTIES
  DueJobRuns
  StopReturns
CHECK_DEADLOCK FALSE
