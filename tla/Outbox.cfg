SPECIFICATION FairSpec
CONSTANTS
  r1 = r1
  r2 = r2
  n1 = n1
  n2 = n2
  NoOwner = NoOwner
  NoEvent = NoEvent
  Events = {e1, e2}
  Oversized = {e2}
  Relays = {r1, r2}
  Owners = {n1, n2}
  owner <- OwnOwner
  BatchSize = 2
  LockAge = 2
  MaxSkew = 1
  MaxBackoff = 1
  Window = 1
  MaxBatchTicks = 2
  MaxFaults = 3
INVARIANTS TypeOK TerminalUnlocked ClaimsExclusive
PROPERTIES AtLeastOnce EventuallySettled
