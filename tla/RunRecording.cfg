SPECIFICATION Spec
CONSTANTS
  q1 = q1
  q2 = q2
  a = a
  b = b
  Requests = {q1, q2}
  RunIds = {a, b}
  RunIdOf <- OwnIds
  MaxSteps = 3
  Batch = 3
  MaxRuns = 1
  MaxCrashes = 1
INVARIANTS
  CrashCostsAShortTail
  FinishedRunIsComplete
  StoriesAgree
  LiveTailIsCurrent
CHECK_DEADLOCK FALSE
