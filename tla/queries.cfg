SPECIFICATION Spec
CONSTANTS
  Nodes = {"a", "b", "c", "d", "e"}
  Envs = {"prod", "staging"}
  Refs = {"", "sha1", "sha2"}
  MaxImpactHops = 2
  Graphs <- MCGraphs
  Questions <- MCQuestions
INVARIANTS ExactlyWithin ShortestPath WeakestLink RefsOfEnvironment
CHECK_DEADLOCK FALSE
