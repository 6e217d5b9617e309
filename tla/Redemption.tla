----------------------------- MODULE Redemption ------------------------------
(***************************************************************************)
(* The redemption contract (contracts/redemption): rewards with an expiry, *)
(* redeemed by their user or reclaimed by the admin.  One action is one    *)
(* invocation; an Err undoes it.                                           *)
(***************************************************************************)
EXTENDS Totals

CONSTANTS Campaign, User,
          Offsets,    \* arguments of set_campaign_expiry
          Amounts,    \* arguments of issue_reward
          MaxAmount,  \* i128::MAX
          MaxLedger,  \* u32::MAX, the last ledger there is
          MaxIssued,  \* bound on what is issued in a campaign
          NoReward    \* value of a reward key that was never written

Key == Campaign \X User
RewardRecord == [amount : 1..MaxAmount, expiration_ledger : 0..MaxLedger, redeemed : BOOLEAN]

\* Assumed of the constants.
RedemptionAssumption ==
  /\ IsFiniteSet(Campaign) /\ IsFiniteSet(User)
  /\ Offsets \subseteq 0..MaxLedger
  /\ Amounts \subseteq Int
  /\ MaxAmount \in Nat /\ MaxLedger \in Nat /\ MaxIssued \in 0..MaxAmount
  /\ NoReward \notin RewardRecord

VARIABLES initialised,      \* DataKey::Admin is stored
          campaign_expiry,  \* DataKey::CampaignExpiry(campaign), unwrap_or(0)
          rewards,          \* DataKey::Reward(campaign, user)
          treasury_pool,    \* DataKey::TreasuryPool(campaign), unwrap_or(0)
          ledger,           \* env.ledger().sequence()
          issued,           \* history: everything issued in a campaign
          paid,             \* history: everything redeemed in a campaign
          overwritten,      \* history: unclaimed rewards replaced by an issue
          window            \* history: when a reward was issued, and for how long

vars == <<initialised, campaign_expiry, rewards, treasury_pool, ledger,
          issued, paid, overwritten, window>>

Stored == {k \in Key : rewards[k] # NoReward}
Unclaimed == {k \in Stored : ~rewards[k].redeemed}

-----------------------------------------------------------------------------
Init ==
  /\ initialised = FALSE
  /\ campaign_expiry = [c \in Campaign |-> 0]
  /\ rewards = [k \in Key |-> NoReward]
  /\ treasury_pool = [c \in Campaign |-> 0]
  /\ ledger = 0
  /\ issued = [c \in Campaign |-> 0]
  /\ paid = [c \in Campaign |-> 0]
  /\ overwritten = [c \in Campaign |-> 0]
  /\ window = [k \in Key |-> [at |-> 0, offset |-> 0]]

Initialize ==
  /\ ~initialised
  /\ initialised' = TRUE
  /\ UNCHANGED <<campaign_expiry, rewards, treasury_pool, ledger, issued, paid, overwritten, window>>

\* Leaves the rewards that are already issued alone.
SetCampaignExpiry(c, offset) ==
  /\ initialised
  /\ campaign_expiry' = [campaign_expiry EXCEPT ![c] = offset]
  /\ UNCHANGED <<initialised, rewards, treasury_pool, ledger, issued, paid, overwritten, window>>

\* checked_add, and u32::MAX when there is no expiry or no such ledger.
ExpirationFor(c) ==
  IF campaign_expiry[c] = 0 \/ ledger + campaign_expiry[c] > MaxLedger THEN MaxLedger
  ELSE ledger + campaign_expiry[c]

\* Variant: a reward of nothing is accepted.
IssueReward_AnyAmount(c, u, amount) ==
  LET k == <<c, u>>
  IN  /\ initialised
      /\ amount >= 0
      /\ issued[c] + amount <= MaxIssued
      /\ rewards' = [rewards EXCEPT ![k] =
                       [amount |-> amount, expiration_ledger |-> ExpirationFor(c), redeemed |-> FALSE]]
      /\ issued' = [issued EXCEPT ![c] = @ + amount]
      /\ overwritten' = IF k \in Unclaimed
                        THEN [overwritten EXCEPT ![c] = @ + rewards[k].amount] ELSE overwritten
      /\ window' = [window EXCEPT ![k] = [at |-> ledger, offset |-> campaign_expiry[c]]]
      /\ UNCHANGED <<initialised, campaign_expiry, treasury_pool, ledger, paid>>

\* Signed by the admin.  Replaces the user's reward of this campaign, claimed
\* or not.
IssueReward(c, u, amount) ==
  LET k == <<c, u>>
  IN  /\ initialised
      /\ amount > 0
      /\ issued[c] + amount <= MaxIssued
      /\ rewards' = [rewards EXCEPT ![k] =
                       [amount |-> amount, expiration_ledger |-> ExpirationFor(c), redeemed |-> FALSE]]
      /\ issued' = [issued EXCEPT ![c] = @ + amount]
      /\ overwritten' = IF k \in Unclaimed
                        THEN [overwritten EXCEPT ![c] = @ + rewards[k].amount] ELSE overwritten
      /\ window' = [window EXCEPT ![k] = [at |-> ledger, offset |-> campaign_expiry[c]]]
      /\ UNCHANGED <<initialised, campaign_expiry, treasury_pool, ledger, paid>>

\* Signed by the user.
Redeem(c, u) ==
  LET k == <<c, u>>
  IN  /\ k \in Unclaimed
      /\ ledger <= rewards[k].expiration_ledger
      /\ rewards' = [rewards EXCEPT ![k].redeemed = TRUE]
      /\ paid' = [paid EXCEPT ![c] = @ + rewards[k].amount]
      /\ UNCHANGED <<initialised, campaign_expiry, treasury_pool, ledger, issued, overwritten, window>>

\* Variant: the record is left redeemable and reclaimable.
ReclaimExpired_NotMarked(c, u) ==
  LET k == <<c, u>>
  IN  /\ initialised
      /\ k \in Unclaimed
      /\ ledger > rewards[k].expiration_ledger
      /\ treasury_pool[c] + rewards[k].amount <= MaxAmount
      /\ treasury_pool' = [treasury_pool EXCEPT ![c] = @ + rewards[k].amount]
      /\ UNCHANGED <<initialised, campaign_expiry, rewards, ledger, issued, paid, overwritten, window>>

\* Signed by the admin.
ReclaimExpired(c, u) ==
  LET k == <<c, u>>
  IN  /\ initialised
      /\ k \in Unclaimed
      /\ ledger > rewards[k].expiration_ledger
      /\ treasury_pool[c] + rewards[k].amount <= MaxAmount
      /\ treasury_pool' = [treasury_pool EXCEPT ![c] = @ + rewards[k].amount]
      /\ rewards' = [rewards EXCEPT ![k].redeemed = TRUE]
      /\ UNCHANGED <<initialised, campaign_expiry, ledger, issued, paid, overwritten, window>>

CloseLedger ==
  /\ ledger < MaxLedger
  /\ ledger' = ledger + 1
  /\ UNCHANGED <<initialised, campaign_expiry, rewards, treasury_pool, issued, paid, overwritten, window>>

Next ==
  \/ Initialize
  \/ \E c \in Campaign, n \in Offsets : SetCampaignExpiry(c, n)
  \/ \E c \in Campaign, u \in User, n \in Amounts : IssueReward(c, u, n)
  \/ \E c \in Campaign, u \in User : Redeem(c, u)
  \/ \E c \in Campaign, u \in User : ReclaimExpired(c, u)
  \/ CloseLedger

Spec == Init /\ [][Next]_vars

-----------------------------------------------------------------------------
\* The stored values have the types the contract stores.
TypeOK ==
  /\ initialised \in BOOLEAN
  /\ campaign_expiry \in [Campaign -> 0..MaxLedger]
  /\ rewards \in [Key -> RewardRecord \cup {NoReward}]
  /\ treasury_pool \in [Campaign -> 0..MaxAmount]
  /\ ledger \in 0..MaxLedger
  /\ issued \in [Campaign -> Nat] /\ paid \in [Campaign -> Nat]
  /\ overwritten \in [Campaign -> Nat]
  /\ window \in [Key -> [at : 0..MaxLedger, offset : 0..MaxLedger]]

\* The amounts still to be claimed, by reward.
Claimable == [k \in Key |-> IF k \in Unclaimed THEN rewards[k].amount ELSE 0]

\* Every token issued in a campaign is redeemed once, reclaimed once, still
\* claimable, or was replaced unclaimed by a later issue: never two of them.
IssuedAccounted ==
  \A c \in Campaign :
    issued[c] = paid[c] + treasury_pool[c] + overwritten[c] + Total(Claimable, {c} \X User)

\* A reward is redeemed within, and reclaimed only after, the window that was
\* in force when it was issued; without a window it is never reclaimed.  Later
\* changes of the campaign's expiry do not matter.
WindowRespected ==
  [][\A c \in Campaign, u \in User :
       LET k == <<c, u>>
           closed == window[k].offset > 0 /\ ledger > window[k].at + window[k].offset
       IN  k \in Unclaimed /\ rewards'[k] = [rewards[k] EXCEPT !.redeemed = TRUE] =>
             (closed <=> treasury_pool'[c] # treasury_pool[c])]_vars

=============================================================================
