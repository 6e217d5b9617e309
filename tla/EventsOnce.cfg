SPECIFICATION Spec
CONSTANTS
  NoKey = NoKey
  EventCount = 3
  EventRefused = {2}
  EventUntyped = {}
  EventHandler = {a, b}
  EventPass = {c}
  EventRetries = 1
  EventPage = 2
  EventRows = 2
  EventFaults = 1
  IssuanceKey = {c}
  IssuanceRequest = {a, b}
  IssuanceAttempts = 3
  IssuanceStalls = 1
  IssuanceTroubles = 3
  WebhookServer = {a, b}
  WebhookDelivery = {c}
  WebhookAttempts = 5
  WebhookDelays = 5
  WebhookUpsets = 2
  ClaimRequest = {a, b}
  BonusRequest = {a, b}
  MaxClaims = 1
  MinPoints = 3
  BonusPoints = 2
  MaxPoints = 2
  BatchItems = 3
  BatchRefused = {2}
  BatchAttempts = 3
  BatchStalls = 1
  BatchFlaws = 2
  InboundCall = {a, b}
  InboundStalls = 1
  InboundFlops = 1
  Recipient = {a, b, c}
  Refusing = {a}
  ListRetries = 2
  ListWorker = {a, b}
  ListGlitches = 2
  ApiRequest = {a, b, c}
  ApiWrite = {a, b}
  ApiRetries = 2
  ApiFaults = 2
  Wallet = {a, b}
  NoWallet = NoWallet
  WalletRead = {a, b}
  WalletChanges = 1
  WalletReloads = 1
  FeedItems = 5
  FeedPage = 2
  FeedLimit = 3
  FeedPoll = {a, b}
  FeedFaults = 2
  TransferTab = {a, b}
  TransferHoldings = 2
  TransferTries = 2
  TransferMishaps = 1
INVARIANT StoredOnce
CHECK_DEADLOCK FALSE
