SPECIFICATION FairSpec
CONSTANTS
  r1 = r1
  r2 = r2
  l1 = l1
  Requests = {r1, r2}
  Listeners = {l1}
  HistorySize = 2
  QueueMax = 2
INVARIANTS
  AcknowledgedDecisionHolds
  EveryDecisionRecorded
  FeedIsFaithful
PROPERTIES
  CallerIsReleased
  ImplementsContract
CHECK_DEADLOCK FALSE
