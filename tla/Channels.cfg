SPECIFICATION Spec
CONSTANTS
  Stores = {"secrets", "overlay", "models", "agents", "workspaces", "channels"}
  Keys = {"a", "b"}
  Values = {"v1", "v2", "odd"}
  Unbuildable = {"odd"}
  Incomplete = {"odd"}
  DefaultName = "a"
  MaxAgents = 2
  MaxRestarts = 1
  Names = {"a"}
  Requests = {"q1", "q2"}
  MaxAdapters = 3
INVARIANTS
  AcknowledgedIsKept
  TablesAgree
  ConnectionsAreHeld
CHECK_DEADLOCK FALSE
