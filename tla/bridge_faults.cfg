SPECIFICATION FairSpec
CONSTANTS
  Callers = {c1, c2}
  NoCaller = NoCaller
  Procs = {1, 2}
  MaxCalls = 2
  MaxCloses = 1
  ConcurrentClose = FALSE
  Faults = {"crash", "error", "incompatible", "garbage", "undecodable", "malformed"}
INVARIANTS OneInFlight NoOrphan
PROPERTIES OnlyBadLinesEscape ImplementsFairService CloseKills
CHECK_DEADLOCK FALSE
