SPECIFICATION CustomSpec
CONSTANTS
  builtin = builtin
  c1 = c1
  c2 = c2
  Names = {builtin, c1, c2}
  CronNames = {}
  Fns = {"old", "new", "bad"}
  Unbuildable = {"bad"}
  Slots <- TwoPerName
  Custom = {c1, c2}
  LongNames = {c2}
  MaxCustom = 2
INVARIANTS
  
  RegistryMatchesScheduler
CONSTRAINTS
  LoopWorksOnOneJob
  SecondJobIsQuiet
CHECK_DEADLOCK FALSE
