---------------------------- MODULE AtomicLedger ----------------------------
(* What the point ledger promises: a redemption, a recorded transaction and  *)
(* an administrator's change each happen at one moment, and see the balance, *)
(* the reward and the key as they are at that moment.                        *)
EXTENDS Integers

CONSTANTS User, Reward, Key,
          Stocks, Costs, \* what an administrator sets
          Deltas,        \* signed amounts of recorded transactions
          Bonus,         \* DAILY_BONUS_POINTS
          MaxBalance,    \* the largest INTEGER
          NoRow          \* no redemption has the key

VARIABLES balance, rewards, redemptions

ledger == <<balance, rewards, redemptions>>

Init ==
  /\ balance = [u \in User |-> 0]
  /\ rewards = [r \in Reward |-> [status |-> "absent", stock |-> 0, cost |-> 0]]
  /\ redemptions = [k \in Key |-> NoRow]

\* One key, one unit of stock and the points the reward costs now.
Redeem(u, r, k) ==
  /\ redemptions[k] = NoRow
  /\ rewards[r].status = "active" /\ rewards[r].stock > 0
  /\ rewards[r].cost \in 1..balance[u]
  /\ balance' = [balance EXCEPT ![u] = @ - rewards[r].cost]
  /\ rewards' = [rewards EXCEPT ![r].stock = @ - 1]
  /\ redemptions' = [redemptions EXCEPT ![k] =
                       [user |-> u, reward |-> r, points |-> rewards[r].cost]]

Record(u, delta) ==
  /\ balance[u] + delta \in 0..MaxBalance
  /\ balance' = [balance EXCEPT ![u] = @ + delta]
  /\ UNCHANGED <<rewards, redemptions>>

\* The daily bonus is a balance of its own.
GrantBonus(u) ==
  /\ balance' = [balance EXCEPT ![u] = Bonus]
  /\ UNCHANGED <<rewards, redemptions>>

\* A deleted reward stays as it is.
PutReward(r, cost, stock, active) ==
  /\ rewards[r].status # "deleted"
  /\ rewards' = [rewards EXCEPT ![r] =
                   [status |-> IF active THEN "active" ELSE "inactive",
                    stock |-> stock, cost |-> cost]]
  /\ UNCHANGED <<balance, redemptions>>

DeleteReward(r) ==
  /\ rewards[r].status \in {"active", "inactive"}
  /\ rewards' = [rewards EXCEPT ![r].status = "deleted"]
  /\ UNCHANGED <<balance, redemptions>>

Next ==
  \/ \E u \in User, r \in Reward, k \in Key : Redeem(u, r, k)
  \/ \E u \in User, d \in Deltas : Record(u, d)
  \/ \E u \in User : GrantBonus(u)
  \/ \E r \in Reward :
       \/ \E c \in Costs \cup {rewards[r].cost}, n \in Stocks \cup {rewards[r].stock},
             a \in BOOLEAN : PutReward(r, c, n, a)
       \/ DeleteReward(r)

Spec == Init /\ [][Next]_ledger

=============================================================================
