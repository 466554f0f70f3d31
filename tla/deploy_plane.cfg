SPECIFICATION Spec
CONSTANTS
  Repos = {"r"}
  Hosts <- MCHosts
  Dotted <- MCHosts
  Hole = "?"
  Envs <- MCEnvs
  NoEnv = NoEnv
  Tokens = {"TOKEN"}
  Token = "TOKEN"
  NoText = NoText
  Worlds <- MCWorlds
  Variables <- MCVariables
  Values <- MCValues
  Sampled = 1
INVARIANTS OwnerIsRight RefIsDeployed RefsOfThisBuild ForThisEnvironment
PROPERTY OthersDontMatter
CHECK_DEADLOCK FALSE
