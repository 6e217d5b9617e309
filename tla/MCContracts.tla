----------------------------- MODULE MCContracts -----------------------------
(***************************************************************************)
(* Small instances of the contracts, of a size of their own each.          *)
(***************************************************************************)
EXTENDS Contracts, TLC

CONSTANTS alice, bob, merchant, pool, h1, h2, empty, k1, v1, v2, c1,
          g1, g2       \* two accounts where neither plays a part of its own

\* Two caps, three durations, time for two periods, a u64 a period end exceeds.
MCTreasuryCaps      == 0..2
MCTreasuryDurations == {0, 1, 2, 5}
MCTreasuryAmounts   == 0..2

\* A merchant and a user; each address can be treasury; percentages in halves.
MCPoolAddress   == {pool, alice, merchant}
MCPoolAmounts   == {0, 2, 3}
MCPoolFeeRates  == 0..3
MCPoolLockTimes == {0, 1}

\* Two users, windows of none, one and more ledgers than there are left.
MCRedemptionCampaign == {c1}
MCRedemptionUser     == {alice, bob}
MCRedemptionOffsets  == {0, 1, 3}
MCRedemptionAmounts  == 0..2

\* Three wallets that can refer each other, in circles too.
MCReferralAddress == {alice, bob, merchant}
MCReferralAmounts == 0..2

\* A usable key and the empty one, two migrations, two hashes in approval, and
\* signer lists with a repetition.
MCStateKey         == {empty, k1}
MCStateValue       == {v1, v2}
MCStateAddress     == {alice, bob, merchant}
MCStateHash        == {h1, h2}
MCStateSignerLists == {<<>>, <<alice, bob>>, <<alice, alice>>}
MCStateThresholds  == 0..2

\* Two schedules of one beneficiary, an admin and a caller who is not. The
\* product 4 * 3 does not fit MaxAmount, 3 + 3 does not fit MaxTime, and the
\* cliff may be longer than the vesting itself.
MCVestingAddress     == {g1, g2}
MCVestingBeneficiary == {alice}
MCVestingAmounts     == {-1, 0, 3, 4}
MCVestingTimes       == {0, 2, 3}

\* Two holders and every kind of quorum, with percentages in halves so that
\* rounding and saturation happen with few token units.
MCGovAddress == {g1, g2}
MCGovAmounts == {2}
MCGovQuorums ==
  {[kind |-> "Absolute", value |-> 0], [kind |-> "Absolute", value |-> 2],
   [kind |-> "Percent", value |-> 1], [kind |-> "Percent", value |-> 3]}

\* An administrator and two parties, two escrows, and a time window wide
\* enough for a release before, at and after the timeout.
MCEscrowAddress == {g1, g2}
MCEscrowAmounts == 0..2

\* Only contracts that treat g1 and g2 alike mention them.
MCSymmetry == Permutations({g1, g2})

=============================================================================
