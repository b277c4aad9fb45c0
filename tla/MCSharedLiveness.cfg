\* Two runs of the same content, one finalizer that fails, and a poller.
CONSTANTS
  NStages = 1
  NoDigest = NoDigest
  ReceiptIds = {r1}
  MaxReceipts = 0
  Import = Import
  Nothing = Nothing
  Digests = {d1}
  Runs = {run1, run2}
  Finalizers = {f1}
  Importers = {}
  MaxFailures = 1
  Readers = {}
  Pollers = {p1}
  PageLimit = 2
SPECIFICATION ReaderSpec
INVARIANTS
  NoEventSkipped
  CompletedEventMeansDone
PROPERTIES
  CompletedEventArrives
CHECK_DEADLOCK FALSE
