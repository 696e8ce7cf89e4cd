SPECIFICATION LifeSpec
CONSTANTS
  Runs = {"r1", "r2"}
  Puts = {"p1"}
  MaxAgents = 2
  MaxRounds = 2
INVARIANTS
  StaleOnlyIfOvertaken
  BrowsersFollowAgents
  OwnTokensAreCharged
PROPERTIES
  RunsEnd
CHECK_DEADLOCK FALSE
