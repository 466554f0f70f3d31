SPECIFICATION Spec
CONSTANTS
  Hosts <- MCHosts
  Dotted = {"api.acme"}
  LabelOf <- MCLabelOf
  Hole = "?"
  Repos = {"a", "b"}
  Envs = {"prod", "staging"}
  NoEnv = NoEnv
  Identities <- MCIdentities
  Queries <- MCQueries
  MaxEntries = 2
INVARIANTS NoStranger OwnClaims NoOwnerPicked
CHECK_DEADLOCK FALSE
