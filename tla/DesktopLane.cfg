SPECIFICATION FairSpec
CONSTANTS
  d1 = d1
  d2 = d2
  d3 = d3
  a = a
  b = b
  c = c
  Runs = {d1, d2, d3}
  RunIds = {a, b, c}
  IdOf <- OwnIds
  MaxSteps = 2
INVARIANTS
  OneRunOnTheDesktop
  CancelCostsAtMostAStep
  RegistersFollowRuns
PROPERTIES
  NoToolAfterCancel
  AcceptedRunEnds
CHECK_DEADLOCK FALSE
