\* Two runs, two lost messages, one expired token.
SPECIFICATION Spec
CONSTANTS
  None = None
  Torn = Torn
  VectorSets = 2
  Envs = {"node24", "node26"}
  Attempts = 2
  Logins = 2
  MaxPolls = 2
  MaxStarts = 2
  MaxLost = 2
  MaxExpiries = 1
INVARIANTS
  SessionInv
  ExitZeroMeansPassed
PROPERTIES
  KeptAnswersStay
  RunEnds
\* The last run ends.
CHECK_DEADLOCK FALSE
