SPECIFICATION Spec
CONSTANTS
  Builds = {b1, b2, b3}
  NoBuild = NoBuild
  Names = {n1, n2}
  MaxFaults = 2
SYMMETRY Symmetry
INVARIANTS HostIntact ImageComplete Registered
CHECK_DEADLOCK FALSE
