SPECIFICATION Spec
CONSTANTS
  j1 = j1
  Job <- MCJob
  Size <- MCSize
  Payable <- MCPayable
  Amount = 1
  Funds = 3
  BATCH_SIZE = 2
  MAX_RECIPIENT_RETRIES = 2
  Concurrency = 1
  MaxStalled = 1
INVARIANTS
  TypeOK
  PaidOncePerRun
  ReportedPaid
  RefusedByProgress
