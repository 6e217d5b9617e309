SPECIFICATION Spec
CONSTANTS
  None = None
  alice = alice
  bob = bob
  merchant = merchant
  pool = pool
  h1 = h1
  h2 = h2
  empty = empty
  k1 = k1
  v1 = v1
  v2 = v2
  c1 = c1
  g1 = g1
  g2 = g2
  TreasuryCaps <- MCTreasuryCaps
  TreasuryDurations <- MCTreasuryDurations
  TreasuryAmounts <- MCTreasuryAmounts
  TreasuryMaxAmount = 5
  TreasuryMaxTime = 4
  TreasuryMaxU64 = 5
  PoolAddress <- MCPoolAddress
  PoolAccount = pool
  PoolAmounts <- MCPoolAmounts
  PoolMaxAmount = 3
  PoolMaxGross = 5
  PoolMaxLedger = 1
  PoolBpsDenominator = 2
  PoolFeeRates <- MCPoolFeeRates
  PoolLockTimes <- MCPoolLockTimes
  RedemptionCampaign <- MCRedemptionCampaign
  RedemptionUser <- MCRedemptionUser
  RedemptionOffsets <- MCRedemptionOffsets
  RedemptionAmounts <- MCRedemptionAmounts
  RedemptionMaxAmount = 3
  RedemptionMaxLedger = 3
  RedemptionMaxIssued = 3
  ReferralAddress <- MCReferralAddress
  ReferralAmounts <- MCReferralAmounts
  ReferralMaxAmount = 3
  ReferralMaxFunded = 6
  StateKey <- MCStateKey
  StateEmptyKey = empty
  StateValue <- MCStateValue
  StateMaxVersion = 2
  StateAddress <- MCStateAddress
  StateHash <- MCStateHash
  StateSignerLists <- MCStateSignerLists
  StateThresholds <- MCStateThresholds
  VestingAddress <- MCVestingAddress
  VestingBeneficiary <- MCVestingBeneficiary
  VestingMaxSchedules = 2
  VestingAmounts <- MCVestingAmounts
  VestingTimes <- MCVestingTimes
  VestingMaxAmount = 7
  VestingMaxTime = 5
  VestingHorizon = 5
  GovAddress <- MCGovAddress
  GovAmounts <- MCGovAmounts
  GovMaxAmount = 3
  GovMaxLedger = 3
  GovVotingPeriod = 1
  GovBpsDenominator = 2
  GovMaxProposals = 1
  GovQuorums <- MCGovQuorums
  EscrowAddress <- MCEscrowAddress
  EscrowAmounts <- MCEscrowAmounts
  EscrowMaxAmount = 2
  EscrowMaxTime = 2
  EscrowMaxIds = 2
SYMMETRY MCSymmetry
INVARIANTS
  TypeOK
  WithdrawalsAccounted
  FeesFromPool
  IssuedAccounted
  ReferralsAccounted
  VersionsKept
  VestingAccounted
  VotesCounted
  DepositsKeptOnceInitialised
PROPERTIES
  SettledForGood
CHECK_DEADLOCK FALSE
