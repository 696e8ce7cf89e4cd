SPECIFICATION FairSpec
CONSTANTS
  c1 = c1
  c2 = c2
  m1 = m1
  m2 = m2
  Calls = {c1, c2}
  Maps = {m1, m2}
  Tools <- SomeTools
  Policies <- ThreePolicies
  BatchSize = 2
  DiskFaults = TRUE
INVARIANTS
  NoActionWithoutApproval
  NoActionAgainstItsPolicy
  EntriesSurviveFlushes
  RepliesAreBackedByEntries
PROPERTIES
  CallsEnd
CHECK_DEADLOCK FALSE
