SPECIFICATION FairSpec
CONSTANTS
  Starters = {s1, s2}
  Migrators = {m1}
  Artifacts = {result, bundle}
  Transient = {bundle}
  Database = database
  MaxFaults = 1
  None = None
PROPERTIES AdoptedWithBackup OnlyValidStateIsAdopted EveryStartSucceeds
CHECK_DEADLOCK FALSE
