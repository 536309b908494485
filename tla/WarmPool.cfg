SPECIFICATION Spec
CONSTANTS
  Instances = {i1, i2}
  NoInstance = NoInstance
  Leases = {l1, l2}
  Callers = {t1, t2, t3}
  Capacity = 1
SYMMETRY Symmetry
INVARIANTS OnePlace IdleClean RunningKept GrowthBounded
