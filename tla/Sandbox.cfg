SPECIFICATION Spec
CONSTANTS
  Sandboxes = {s1}
  NoSandbox = NoSandbox
  Requests = {r1}
  MaxDeliver = 2
  MaxCopies = 2
  MaxFaults = 1
  MaxCrashes = 1
INVARIANTS TypeOK AckedDestroyIsGone RunningBacked StraysDestroyed
PROPERTIES GoneForGood
CHECK_DEADLOCK FALSE
