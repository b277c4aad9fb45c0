\* Three exports to one target that may overlap, with two faults, one if they overlap.
CONSTANTS
  e1 = e1
  e2 = e2
  e3 = e3
  v1 = v1
  v2 = v2
  Exporters = {e1, e2, e3}
  Bundles = {v1, v2}
  None = None
  Partial = Partial
  Edited = Edited
  MaxLive = 2
  MaxFaults = 2
  MaxOverlapFaults = 1
SPECIFICATION Spec
SYMMETRY Symmetry
INVARIANTS
  Recoverable
PROPERTY NothingIsDestroyed
CHECK_DEADLOCK FALSE
