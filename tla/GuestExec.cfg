SPECIFICATION FairSpec
CONSTANTS
  Requests = {q1, q2, q3}
  Timed = {q1}
  MaxConcurrentCommands = 1
CHECK_DEADLOCK FALSE
INVARIANTS CommandsBounded ResultTruthful
PROPERTY TimeoutEffective
