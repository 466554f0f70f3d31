SPECIFICATION FairLinkedSpec
CONSTANTS
  Repos <- MCRepos
  Names <- MCRepos
  NameOf <- MCNameOf
  WellNamed = {"a", "b", "c"}
  Hosts <- MCHosts
  Dotted <- MCHosts
  Hole = "?"
  Envs <- MCEnvs
  NoEnv = NoEnv
  Canon <- MCCanon
  Tokens <- MCHosts
  NoText = NoText
  Shas = {"sha0", "sha1"}
  NoRepo = NoRepo
  Worlds <- MCWorlds
INVARIANTS TargetsWait EvaluatedOnce NoAutoPick TokensAccounted SecretFloor FromDeployedRef
PROPERTIES ImplementsReachability Terminates
CHECK_DEADLOCK FALSE
