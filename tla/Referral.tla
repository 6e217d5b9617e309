------------------------------ MODULE Referral -------------------------------
(***************************************************************************)
(* The referral contract (contracts/referral): one-time referrals and the  *)
(* budget their rewards come from.  One action is one invocation.          *)
(***************************************************************************)
EXTENDS Totals

CONSTANTS Address, NoAddress,
          Amounts,    \* arguments of fund_pool and claim_referral_reward
          MaxAmount,  \* i128::MAX
          MaxFunded   \* bound on what is paid into the pool

\* Assumed of the constants.
ReferralAssumption ==
  /\ IsFiniteSet(Address) /\ NoAddress \notin Address
  /\ Amounts \subseteq Int
  /\ MaxAmount \in Nat /\ MaxFunded \in Nat

VARIABLES initialised,      \* DataKey::Admin is stored
          referral,         \* DataKey::Referral(referee)
          total_referrals,  \* DataKey::TotalReferrals(referrer), unwrap_or(0)
          claimed,          \* the referees with DataKey::RewardClaimed
          pool_balance,     \* DataKey::PoolBalance
          funded,           \* history: what was paid into the pool
          payouts           \* history: what each referral has cost

vars == <<initialised, referral, total_referrals, claimed, pool_balance, funded, payouts>>

-----------------------------------------------------------------------------
Init ==
  /\ initialised = FALSE
  /\ referral = [a \in Address |-> NoAddress]
  /\ total_referrals = [a \in Address |-> 0]
  /\ claimed = {}
  /\ pool_balance = 0
  /\ funded = 0
  /\ payouts = [a \in Address |-> 0]

Initialize ==
  /\ ~initialised
  /\ initialised' = TRUE
  /\ pool_balance' = 0
  /\ UNCHANGED <<referral, total_referrals, claimed, funded, payouts>>

FundPool(amount) ==
  /\ initialised
  /\ amount > 0
  /\ pool_balance + amount <= MaxAmount
  /\ funded + amount <= MaxFunded
  /\ pool_balance' = pool_balance + amount
  /\ funded' = funded + amount
  /\ UNCHANGED <<initialised, referral, total_referrals, claimed, payouts>>

\* Signed by the referee; works before initialize too.
RegisterReferral(referrer, referee) ==
  /\ referrer # referee
  /\ referral[referee] = NoAddress
  /\ referral' = [referral EXCEPT ![referee] = referrer]
  /\ total_referrals' = [total_referrals EXCEPT ![referrer] = @ + 1]
  /\ UNCHANGED <<initialised, claimed, pool_balance, funded, payouts>>

\* Variant: only the referrer's part leaves the pool.
ClaimReferralReward_HalfPaid(referee, toReferrer, toReferee) ==
  /\ initialised
  /\ toReferrer > 0 /\ toReferee > 0
  /\ referral[referee] # NoAddress
  /\ referee \notin claimed
  /\ toReferrer + toReferee <= MaxAmount
  /\ pool_balance >= toReferrer + toReferee
  /\ pool_balance' = pool_balance - toReferrer
  /\ claimed' = claimed \cup {referee}
  /\ payouts' = [payouts EXCEPT ![referee] = @ + toReferrer + toReferee]
  /\ UNCHANGED <<initialised, referral, total_referrals, funded>>

\* Signed by the admin: the two parts are taken from the pool at once.
ClaimReferralReward(referee, toReferrer, toReferee) ==
  /\ initialised
  /\ toReferrer > 0 /\ toReferee > 0
  /\ referral[referee] # NoAddress
  /\ referee \notin claimed
  /\ toReferrer + toReferee <= MaxAmount
  /\ pool_balance >= toReferrer + toReferee
  /\ pool_balance' = pool_balance - (toReferrer + toReferee)
  /\ claimed' = claimed \cup {referee}
  /\ payouts' = [payouts EXCEPT ![referee] = @ + toReferrer + toReferee]
  /\ UNCHANGED <<initialised, referral, total_referrals, funded>>

Next ==
  \/ Initialize
  \/ \E n \in Amounts : FundPool(n)
  \/ \E a, b \in Address : RegisterReferral(a, b)
  \/ \E a \in Address, m, n \in Amounts : ClaimReferralReward(a, m, n)

Spec == Init /\ [][Next]_vars

-----------------------------------------------------------------------------
\* The stored values have the types the contract stores.
TypeOK ==
  /\ initialised \in BOOLEAN
  /\ referral \in [Address -> Address \cup {NoAddress}]
  /\ total_referrals \in [Address -> Nat]
  /\ claimed \subseteq Address
  /\ pool_balance \in 0..MaxAmount
  /\ funded \in Nat
  /\ payouts \in [Address -> Nat]

\* A referrer's counter is the number of referees who name it: nobody is
\* counted for two referrers, and no referral is counted twice.
CountersAreReferrals ==
  \A r \in Address : total_referrals[r] = Cardinality({a \in Address : referral[a] = r})

\* The pool and the payouts account for all funding: the two parts of a reward
\* are covered together or not paid.
FundingAccounted == funded = pool_balance + Total(payouts, Address)

\* A referral is counted once and paid for once, out of what was funded.
ReferralsAccounted == CountersAreReferrals /\ FundingAccounted

=============================================================================
