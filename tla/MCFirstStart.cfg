SPECIFICATION FairSpec
CONSTANTS
  Starters = {s1, s2}
  Migrators = {m1}
  Artifacts = {result, bundle}
  Transient = {bundle}
  Database = database
  MaxFaults = 0
  None = None
PROPERTY FreshRootAccepts
CHECK_DEADLOCK FALSE
