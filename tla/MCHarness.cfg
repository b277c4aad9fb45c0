\* Two harnesses of a two-stage run, with two interruptions of any kind.
CONSTANTS
  h1 = h1
  h2 = h2
  NStages = 2
  Digests = {d1, d2}
  NoDigest = NoDigest
  ReceiptIds = {r1, r2}
  MaxReceipts = 2
  Callers <- Both
  Keeper = h1
  MaxAttempt = 2
  MaxRevision = 14
  MaxAhead = 0
  MaxInterruptions = 2
SPECIFICATION HarnessSpec
INVARIANTS
  CommittedInContext
  RevisionIdentifiesRecord
PROPERTIES
  CompletedEventIsLast
  LedgerSpec
  HarnessCompletes
CHECK_DEADLOCK FALSE
