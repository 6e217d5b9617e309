SPECIFICATION Spec
CONSTANTS
  AccountVisit = {a, b}
  AccountNonces = 2
  AccountChanges = 3
  SessionCall = {a, b}
  SessionTokens = 3
  SessionResets = 1
  PaymentRequest = {a, b}
  PaymentBalance = 3
  PaymentRetries = 3
  PaymentBumps = 3
  PaymentMishaps = 3
  RowHash = {a, b, c}
  RowRefund = {a, b}
  RowTick = 2
  RowTime = 2
  RowLimit = 1
  NoHash = NoHash
  GuardRequest = {a, b, c}
  GuardErrors = 2
  WindowSize = 2
  WindowLimit = 2
  WindowTime = 4
  WindowScripts = 4
  SoftLock = 2
  CredStuff = 3
  LoginFailures = 5
  BreakerRetries = 3
  CacheReader = {a, b}
  CacheWriter = {c}
  CacheTtl = 2
  CacheChanges = 2
  DeployScript = {a, b}
  DeployRuns = 3
  DeployMishaps = 1
  FieldServer = {a, b}
  FieldRows = 3
  FieldBatch = 2
  FieldLookalike = {2}
  FieldFailures = 1
  MigrationRun = {a, b}
  MigrationFiles = 3
  MigrationUnsafe = {2}
  MigrationTime = 4
  BackupServer = {a, b}
  BackupDays = 1
  BackupTime = 3
  BackupMishaps = 2
INVARIANTS
  ReuseDetected
CHECK_DEADLOCK FALSE
