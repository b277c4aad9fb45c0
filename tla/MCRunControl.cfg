\* Receipts, attempts and commits of a two-stage run.
CONSTANTS
  NStages = 2
  Digests = {d1, d2}
  NoDigest = NoDigest
  ReceiptIds = {r1, r2}
  MaxReceipts = 2
  Callers = {c1}
  MaxAttempt = 2
  MaxRevision = 7
  MaxAhead = 1
SPECIFICATION Spec
SYMMETRY Symmetry
INVARIANTS
  CompletionReceiptsMatchOutputs
  EachAttemptStartsOnce
  ActiveIsLatestAttemptOfNextStage
  AnyOutputCommitsAfterResume
PROPERTY NoProgressAfterStop
CHECK_DEADLOCK FALSE
