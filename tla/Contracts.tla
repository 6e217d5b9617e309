------------------------------ MODULE Contracts ------------------------------
(***************************************************************************)
(* The contracts that share no state with each other, side by side: one of *)
(* them is chosen at the start and only its invocations happen, so the     *)
(* states explored are the sum of the contracts' states and not their      *)
(* product.  Each has constants of its own, named after it and described   *)
(* in its module.                                                          *)
(***************************************************************************)
EXTENDS Integers, Sequences, FiniteSets

CONSTANTS
  None,  \* what a key that was never written holds, of every contract
  TreasuryCaps, TreasuryDurations, TreasuryAmounts, TreasuryMaxAmount, TreasuryMaxTime,
  TreasuryMaxU64,
  PoolAddress, PoolAccount, PoolAmounts, PoolMaxAmount, PoolMaxGross, PoolMaxLedger,
  PoolBpsDenominator, PoolFeeRates, PoolLockTimes,
  RedemptionCampaign, RedemptionUser, RedemptionOffsets, RedemptionAmounts,
  RedemptionMaxAmount, RedemptionMaxLedger, RedemptionMaxIssued,
  ReferralAddress, ReferralAmounts, ReferralMaxAmount, ReferralMaxFunded,
  StateKey, StateEmptyKey, StateValue, StateMaxVersion, StateAddress, StateHash,
  StateSignerLists, StateThresholds,
  VestingAddress, VestingBeneficiary, VestingMaxSchedules, VestingAmounts, VestingTimes,
  VestingMaxAmount, VestingMaxTime, VestingHorizon,
  GovAddress, GovAmounts, GovMaxAmount, GovMaxLedger, GovVotingPeriod, GovBpsDenominator,
  GovMaxProposals, GovQuorums,
  EscrowAddress, EscrowAmounts, EscrowMaxAmount, EscrowMaxTime, EscrowMaxIds

VARIABLES contract,    \* the contract under test in this behaviour
          \* Treasury
          configured, period_cap, period_duration, period_start, withdrawn,
          total_released, balance, now, released, deposited, reconfigured,
          \* RewardPool and its token
          initialized, fee_bps, treasury, locked_until, gross, fees, highest,
          tokenAdmin, balances, supply, allowances, tokenLedger, tokenSigners, saturated,
          \* Redemption
          redemptionInitialised, campaign_expiry, rewards, treasury_pool, ledger,
          issued, paid, overwritten, window,
          \* Referral
          referralInitialised, referral, total_referrals, claimed, pool_balance,
          funded, payouts,
          \* ContractState
          signers, threshold, approvals, upgraded, endorsers, version, state,
          snapshots, frozen,
          \* Vesting
          vestingAdmin, vestingPool, schedules, vestingNextId, vestingNow,
          vestingSigners, vestingFunded,
          \* Governance and its token
          govAdmin, quorum, proposalCount, proposals, hasVoted, cast, moved,
          govTokenAdmin, govBalances, govSupply, govAllowances, govLedger,
          govSigners, govSaturated,
          \* Escrow
          escrowAdmin, escrowNextId, escrows, escrowNow, escrowFunded, restarted,
          consents

Treasury == INSTANCE Treasury WITH
  Caps <- TreasuryCaps, Durations <- TreasuryDurations, Amounts <- TreasuryAmounts,
  MaxAmount <- TreasuryMaxAmount, MaxTime <- TreasuryMaxTime, MaxU64 <- TreasuryMaxU64

Pool == INSTANCE RewardPool WITH
  Address <- PoolAddress, NoAddress <- None, NoAllowance <- None, Pool <- PoolAccount,
  Amounts <- PoolAmounts, MaxAmount <- PoolMaxAmount, MaxGross <- PoolMaxGross,
  MaxLedger <- PoolMaxLedger, BpsDenominator <- PoolBpsDenominator, FeeRates <- PoolFeeRates,
  LockTimes <- PoolLockTimes, ledger <- tokenLedger, signers <- tokenSigners

Redemption == INSTANCE Redemption WITH
  Campaign <- RedemptionCampaign, User <- RedemptionUser, Offsets <- RedemptionOffsets,
  Amounts <- RedemptionAmounts, MaxAmount <- RedemptionMaxAmount,
  MaxLedger <- RedemptionMaxLedger, MaxIssued <- RedemptionMaxIssued, NoReward <- None,
  initialised <- redemptionInitialised

Referral == INSTANCE Referral WITH
  Address <- ReferralAddress, NoAddress <- None, Amounts <- ReferralAmounts,
  MaxAmount <- ReferralMaxAmount, MaxFunded <- ReferralMaxFunded,
  initialised <- referralInitialised

State == INSTANCE ContractState WITH
  Key <- StateKey, EmptyKey <- StateEmptyKey, Value <- StateValue, Absent <- None,
  MaxVersion <- StateMaxVersion, Address <- StateAddress, Hash <- StateHash, NoHash <- None,
  SignerLists <- StateSignerLists, Thresholds <- StateThresholds, NotInitialised <- None

Vesting == INSTANCE Vesting WITH
  Address <- VestingAddress, NoAddress <- None, Beneficiary <- VestingBeneficiary,
  NoSchedule <- None, MaxSchedules <- VestingMaxSchedules, Amounts <- VestingAmounts,
  Times <- VestingTimes, MaxAmount <- VestingMaxAmount, MaxTime <- VestingMaxTime,
  Horizon <- VestingHorizon, admin <- vestingAdmin, pool <- vestingPool,
  nextId <- vestingNextId, now <- vestingNow, signers <- vestingSigners,
  funded <- vestingFunded

Governance == INSTANCE Governance WITH
  Address <- GovAddress, NoAddress <- None, NoAllowance <- None, Amounts <- GovAmounts,
  MaxAmount <- GovMaxAmount, MaxLedger <- GovMaxLedger, VotingPeriod <- GovVotingPeriod,
  BpsDenominator <- GovBpsDenominator, MaxProposals <- GovMaxProposals,
  Quorums <- GovQuorums, NoQuorum <- None, NoProposal <- None, admin <- govAdmin,
  tokenAdmin <- govTokenAdmin, balances <- govBalances, supply <- govSupply,
  allowances <- govAllowances, ledger <- govLedger, signers <- govSigners,
  saturated <- govSaturated

Escrow == INSTANCE Escrow WITH
  Address <- EscrowAddress, NoAddress <- None, Amounts <- EscrowAmounts,
  MaxAmount <- EscrowMaxAmount, MaxTime <- EscrowMaxTime, MaxIds <- EscrowMaxIds,
  NoEscrow <- None, admin <- escrowAdmin, nextId <- escrowNextId,
  now <- escrowNow, funded <- escrowFunded

ASSUME ContractAssumptions ==
  /\ Treasury!TreasuryAssumption
  /\ Pool!PoolAssumption
  /\ Redemption!RedemptionAssumption
  /\ Referral!ReferralAssumption
  /\ State!StateAssumption
  /\ Vesting!VestingAssumption
  /\ Governance!GovernanceAssumption
  /\ Escrow!EscrowAssumption

Contracts == {"treasury", "reward_pool", "redemption", "referral", "contract_state",
              "vesting", "governance", "escrow"}

treasuryVars == <<configured, period_cap, period_duration, period_start, withdrawn,
                  total_released, balance, now, released, deposited, reconfigured>>
poolVars == <<initialized, fee_bps, treasury, locked_until, gross, fees, highest, tokenAdmin,
              balances, supply, allowances, tokenLedger, tokenSigners, saturated>>
redemptionVars == <<redemptionInitialised, campaign_expiry, rewards, treasury_pool, ledger,
                    issued, paid, overwritten, window>>
referralVars == <<referralInitialised, referral, total_referrals, claimed, pool_balance,
                  funded, payouts>>
stateVars == <<signers, threshold, approvals, upgraded, endorsers, version, state,
               snapshots, frozen>>
vestingVars == <<vestingAdmin, vestingPool, schedules, vestingNextId, vestingNow,
                 vestingSigners, vestingFunded>>
governanceVars == <<govAdmin, quorum, proposalCount, proposals, hasVoted, cast, moved,
                    govTokenAdmin, govBalances, govSupply, govAllowances, govLedger,
                    govSigners, govSaturated>>
escrowVars == <<escrowAdmin, escrowNextId, escrows, escrowNow, escrowFunded, restarted,
                consents>>
vars == <<contract, treasuryVars, poolVars, redemptionVars, referralVars, stateVars,
          vestingVars, governanceVars, escrowVars>>

Init ==
  /\ contract \in Contracts
  /\ Treasury!Init /\ Pool!Init /\ Redemption!Init /\ Referral!Init /\ State!Init
  /\ Vesting!Init /\ Governance!Init /\ Escrow!Init

InTreasury ==
  /\ contract = "treasury" /\ Treasury!Next
  /\ UNCHANGED <<contract, poolVars, redemptionVars, referralVars, stateVars,
                 vestingVars, governanceVars, escrowVars>>

InRewardPool ==
  /\ contract = "reward_pool" /\ Pool!Next
  /\ UNCHANGED <<contract, treasuryVars, redemptionVars, referralVars, stateVars,
                 vestingVars, governanceVars, escrowVars>>

InRedemption ==
  /\ contract = "redemption" /\ Redemption!Next
  /\ UNCHANGED <<contract, treasuryVars, poolVars, referralVars, stateVars,
                 vestingVars, governanceVars, escrowVars>>

InReferral ==
  /\ contract = "referral" /\ Referral!Next
  /\ UNCHANGED <<contract, treasuryVars, poolVars, redemptionVars, stateVars,
                 vestingVars, governanceVars, escrowVars>>

InContractState ==
  /\ contract = "contract_state" /\ State!Next
  /\ UNCHANGED <<contract, treasuryVars, poolVars, redemptionVars, referralVars,
                 vestingVars, governanceVars, escrowVars>>

InVesting ==
  /\ contract = "vesting" /\ Vesting!Next
  /\ UNCHANGED <<contract, treasuryVars, poolVars, redemptionVars, referralVars,
                 stateVars, governanceVars, escrowVars>>

InGovernance ==
  /\ contract = "governance" /\ Governance!Next
  /\ UNCHANGED <<contract, treasuryVars, poolVars, redemptionVars, referralVars,
                 stateVars, vestingVars, escrowVars>>

InEscrow ==
  /\ contract = "escrow" /\ Escrow!Next
  /\ UNCHANGED <<contract, treasuryVars, poolVars, redemptionVars, referralVars,
                 stateVars, vestingVars, governanceVars>>

Next ==
  \/ InTreasury \/ InRewardPool \/ InRedemption \/ InReferral \/ InContractState
  \/ InVesting \/ InGovernance \/ InEscrow

Spec == Init /\ [][Next]_vars

-----------------------------------------------------------------------------
\* The stored values of every contract have the types its code stores.
TypeOK ==
  /\ contract \in Contracts
  /\ Treasury!TypeOK /\ Pool!TypeOK /\ Redemption!TypeOK /\ Referral!TypeOK /\ State!TypeOK
  /\ Vesting!TypeOK /\ Governance!TypeOK /\ Escrow!TypeOK

\* treasury: the period counter is what was withdrawn in the period, the
\* running total what was withdrawn at all, and no window of a period's length
\* exceeds two caps.
WithdrawalsAccounted ==
  Treasury!PeriodAccounted /\ Treasury!ReleasesAccounted /\ Treasury!BurstBounded

\* reward_pool: the two transfers of a withdrawal conserve the tokens, and the
\* fees stay within the highest rate that was in force.
FeesFromPool == Pool!TokensConserved /\ Pool!FeesBounded

\* redemption: every token issued is redeemed, reclaimed, claimable or replaced.
IssuedAccounted == Redemption!IssuedAccounted

\* referral: the counters are the referrals, and the pool and the payouts
\* account for all funding.
ReferralsAccounted == Referral!ReferralsAccounted

\* contract_state: snapshots of past versions never change, and its code is
\* replaced by threshold-many different signers.
VersionsKept == State!SnapshotsFrozen /\ State!UpgradedByThreshold

\* vesting: what was paid is within what has vested and that within the grant,
\* the pool accounts for deposits, payouts and returns, and the arithmetic of a
\* schedule fits at every time.
VestingAccounted == Vesting!VestingAccounted

\* governance: tallies are what the voters held, and a percentage quorum is
\* within the supply it was taken of.
VotesCounted == Governance!TalliesAreHoldings /\ Governance!QuorumReachable

\* escrow: if no escrow was made before initialize, every deposit is in an
\* escrow of its depositor.
DepositsKeptOnceInitialised == Escrow!DepositsKeptOnceInitialised

\* What is settled stays so, and only those pay who should. reward_pool: a
\* withdrawal costs the pool its amount and nobody else anything. redemption: the
\* window of the issue decides between user and admin. vesting: no step takes
\* away what has vested. governance: a decision is final. escrow: a settlement is
\* final and by agreement.
SettledForGood ==
  /\ Pool!OnlyPoolPays /\ Redemption!WindowRespected /\ Vesting!EntitlementNeverShrinks
  /\ Governance!DecisionsFinal /\ Escrow!SettlementFinal

\* vesting: the pool never promises more than was deposited. (Violated.)
PoolWithinFunding == Vesting!PoolWithinFunding

=============================================================================
