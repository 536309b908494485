SPECIFICATION FairSpec
CONSTANTS
  Requests = {q1, q2}
  Timed = {q1}
  MaxConcurrentCommands = 1
CHECK_DEADLOCK FALSE
PROPERTY ExecutionBounded
