SPECIFICATION Spec
CONSTANTS
  NoObj = NoObj
  NoVm = NoVm
  Objs = {o1, o2}
  VmIds = {v1}
  TapNames = {v1}
  uniqueTapName <- MCTapName
  Callers = {t1, t2}
  MaxVMs = 1
  MaxConcurrentProvision = 2
  MaxSubnets = 2
  MinGuestCID = 3
  MaxGuestCID = 4
  MaxFaults = 1
INVARIANT CleanupFailuresVisible
