\* Two runs and an import of the same content.
CONSTANTS
  NStages = 1
  NoDigest = NoDigest
  ReceiptIds = {r1}
  MaxReceipts = 0
  Import = Import
  Nothing = Nothing
  Digests = {d1}
  Runs = {run1, run2}
  Finalizers = {f1, f2}
  Importers = {i1}
  MaxFailures = 1
SPECIFICATION Spec
SYMMETRY Symmetry
INVARIANT NothingIsMissing
PROPERTY ReadyStaysReady
CHECK_DEADLOCK FALSE
