SPECIFICATION Spec
CONSTANTS
  Threads = {t1, t2}
  Bridges = {b1, b2, b3}
  NoBridge = NoBridge
  Keys = {"url", "password"}
  SecretKeys = {"password"}
  MaxCloses = 2
INVARIANTS OnlyAnswersRaise OneServer SecretKeysStay
SYMMETRY Symmetry
CHECK_DEADLOCK FALSE
