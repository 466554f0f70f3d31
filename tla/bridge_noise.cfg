SPECIFICATION Spec
CONSTANTS
  Callers = {c1}
  NoCaller = NoCaller
  Procs = {1, 2}
  MaxCalls = 2
  MaxCloses = 0
  ConcurrentClose = FALSE
  Faults = {"noise"}
INVARIANTS AnswersMatch
CHECK_DEADLOCK FALSE
