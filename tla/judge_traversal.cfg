SPECIFICATION Spec
CONSTANTS
  Words = {"host", "token", "mail"}
  Personal = {"mail", "owner"}
  Redacted = "[REDACTED]"
  Locators = {"app.json", "octopus"}
  Values = {"b.internal", "c.internal"}
  Repos = {"github:o/a", "github:o/b", "github:o/c"}
  NameOf <- MCNameOf
  Envs = {"prod", "staging"}
  Refs = {"", "SVC_URL", "owner"}
  Answers <- TraversalAnswers
  Inputs <- TraversalInputs
  Indexes <- MCIndexes
  MaxFiles = 2
  MaxBytes = 1
  MaxJudged = 4
INVARIANT AcceptedIsStored
CHECK_DEADLOCK FALSE
