\* One run, two processes that finalize it and fail, and a reader by lifecycle run.
CONSTANTS
  NStages = 1
  NoDigest = NoDigest
  ReceiptIds = {r1}
  MaxReceipts = 0
  Import = Import
  Nothing = Nothing
  Digests = {d1}
  Runs = {run1}
  Finalizers = {f1, f2}
  Importers = {}
  MaxFailures = 2
  Readers = {q1}
  Pollers = {}
  PageLimit = 2
SPECIFICATION ReaderSpec
INVARIANTS
  ResultFollowsSidecars
  LifecycleReadersSeeComplete
PROPERTY ImplementsAtomicPublication
CHECK_DEADLOCK FALSE
