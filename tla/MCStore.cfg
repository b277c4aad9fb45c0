\* One writer and one reader or writer of a run, in two processes that may die.
CONSTANTS
  p1 = p1
  p2 = p2
  t1 = t1
  t2 = t2
  Processes = {p1, p2}
  Threads = {t1, t2}
  ProcessOf <- OneEach
  NoThread = NoThread
  NoProcess = NoProcess
  Runs = {r1}
  Versions = {v1, v2}
  Absent = Absent
  Operations <- Split
  MaxPartial = 2
  MaxFaults = 1
SPECIFICATION Spec
INVARIANTS
  MutualExclusion
  CachedPairIsOnePublication
PROPERTIES
  AppendExtendsDurableStream
  ImplementsAtomicStore
SYMMETRY Symmetry
CHECK_DEADLOCK FALSE
