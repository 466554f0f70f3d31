SPECIFICATION Spec
CONSTANTS
  Callers = {c1, c2}
  NoCaller = NoCaller
  Procs = {1, 2, 3}
  MaxCalls = 2
  MaxCloses = 1
  ConcurrentClose = TRUE
  Faults = {"crash", "incompatible"}
INVARIANTS AnswersMatch HandshakeFirst LostByClose
SYMMETRY Symmetry
CHECK_DEADLOCK FALSE
