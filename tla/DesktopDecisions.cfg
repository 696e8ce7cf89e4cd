SPECIFICATION Spec
CONSTANTS
  Services = {"desktop", "browser"}
  Providers = {"openai"}
  PrefSeq <- OneSave
  Stock <- Shipped
  Tools = {"click", "screenshot", "open_url", "fs_read"}
  Screenshot = "screenshot"
  Changing = {"click", "open_url"}
  Skipping = {"open_url", "fs_read"}
  Tolerant = {"screenshot"}
  Policies <- SomePolicies
  Objects = {"empty"}
  MaxSteps = 4
INVARIANTS
  TableIsRestored
  StaleViewHasACause
  RepeatsAreStopped
CHECK_DEADLOCK FALSE
