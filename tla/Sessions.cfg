SPECIFICATION Spec
CONSTANTS
  Senders = {"alice"}
  r1 = r1
  r2 = r2
  Runs = {r1, r2}
  Keys = {"session_send"}
  Window = 1
  MaxEvents = 1
  MaxTime = 2
  MaxIds = 3
  MaxSessions = 2
  HistoryLimit = 1
  MaxTracked = 1
  MaxPending = 2
  Ttl = 1
INVARIANTS
  RunEndsAsItWas
  WindowIsNeverOverfull
SYMMETRY RunSymmetry
CHECK_DEADLOCK FALSE
