SPECIFICATION Spec
CONSTANTS
  Hosts <- MCHosts
  Dotted <- MCDotted
  LabelOf <- MCLabelOf
  Hole = "?"
  Repos = {"a", "b", "c"}
  Envs = {"prod", "staging"}
  NoEnv = NoEnv
  Refs = {"", "sha1", "sha2"}
  Raises = Raises
  Silent = Silent
  Builds <- MCBuilds
  Telemetries <- MCTelemetries
INVARIANT EnvironmentsIndependent
