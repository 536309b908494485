SPECIFICATION FairSpec
CONSTANTS
  Sandboxes = {s1}
  NoSandbox = NoSandbox
  Requests = {r1}
  MaxDeliver = 2
  MaxCopies = 1
  MaxFaults = 1
  MaxCrashes = 1
PROPERTIES CreateSettles DestroyReported
CHECK_DEADLOCK FALSE
