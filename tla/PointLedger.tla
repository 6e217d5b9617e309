---------------------------- MODULE PointLedger -----------------------------
(* The point ledger of the Nova Rewards backend: the tables user_balance,   *)
(* point_transactions, rewards and redemptions, with the trigger that       *)
(* copies balance_after of an inserted transaction into user_balance.       *)
(* Requests run at the same time; each is a database transaction at READ    *)
(* COMMITTED, a step is a statement that reads, waits or commits, and a     *)
(* row read FOR UPDATE stays locked until the transaction ends. Nothing     *)
(* that a transaction writes is seen before it commits.                     *)
(*                                                                          *)
(* The answers given to clients, the pool of connections, event emission    *)
(* and the audit log are left out: they change none of these tables.        *)
EXTENDS Integers, FiniteSets, TotalTheorems

CONSTANTS User,       \* users.id
          Reward,     \* rewards.id
          Key,        \* values of X-Idempotency-Key
          Request,    \* requests and jobs that are served at the same time
          Stocks,     \* stocks an administrator sets
          Costs,      \* costs an administrator sets, rounded to points
          Amounts,    \* amounts callers of recordPointTransaction pass, of either sign
          Bonus,      \* DAILY_BONUS_POINTS
          MaxBalance, \* the largest INTEGER
          MaxDay,     \* bound: the last day explored
          NoRow,      \* no redemption has the key
          NoUser      \* no user

Deltas == Amounts \cup {-n : n \in Amounts}

Redemption == [user : User, reward : Reward, points : 1..MaxBalance]

ASSUME LedgerAssumption ==
  /\ IsFiniteSet(User) /\ IsFiniteSet(Key)
  /\ MaxBalance \in Nat /\ MaxDay \in Nat
  /\ Stocks \subseteq 0..MaxBalance /\ Costs \subseteq 0..MaxBalance
  /\ Amounts \subseteq Nat \ {0}
  /\ Bonus \in 1..MaxBalance
  /\ NoRow \notin Redemption /\ NoUser \notin User

VARIABLES balance,     \* user_balance.balance
          rewards,     \* the rows of rewards
          redemptions, \* the redemption with each idempotency_key
          txn,         \* what each request has done in its transaction
          bonus,       \* the daily bonus job: the day, the users still to be
                       \* credited, and the one credited but not yet marked
          granted,     \* the day of users.daily_bonus_granted_at
          net,         \* history: the points of all transactions but redemptions
          stocked      \* history: the stock ever given to a reward

vars == <<balance, rewards, redemptions, txn, bonus, granted, net, stocked>>

-----------------------------------------------------------------------------
Idle == [step |-> "idle"]

Redeeming ==
  [step : {"checked", "reward_locked", "balance_locked", "written"},
   user : User, reward : Reward, key : Key, points : 0..MaxBalance, before : 0..MaxBalance]

Recording ==
  [step : {"record", "recording"}, user : User, delta : Deltas, before : 0..MaxBalance]

RewardLocked(r) ==
  \E p \in Request :
    txn[p].step \in {"reward_locked", "balance_locked", "written"} /\ txn[p].reward = r

BalanceLocked(u) ==
  \E p \in Request :
    txn[p].step \in {"balance_locked", "written", "recording"} /\ txn[p].user = u

\* The redemption row of the key is inserted by a transaction that is open.
KeyInserted(k) == \E p \in Request : txn[p].step = "written" /\ txn[p].key = k

\* ROLLBACK or COMMIT: the locks are released.
Finish(p) == txn' = [txn EXCEPT ![p] = Idle]

RedemptionsOf(r) ==
  {k \in Key : redemptions[k] # NoRow /\ redemptions[k].reward = r}

\* What the committed rows of point_transactions add up to.
Recorded(u) ==
  LET spent(k) == IF redemptions[k] = NoRow THEN 0
                  ELSE IF redemptions[k].user = u THEN redemptions[k].points ELSE 0
  IN  net[u] - Total([k \in Key |-> spent(k)], Key)

-----------------------------------------------------------------------------
Init ==
  /\ balance = [u \in User |-> 0]
  /\ rewards = [r \in Reward |-> [status |-> "absent", stock |-> 0, cost |-> 0]]
  /\ redemptions = [k \in Key |-> NoRow]
  /\ txn = [p \in Request |-> Idle]
  /\ bonus = [day |-> 0, todo |-> {}, credited |-> NoUser]
  /\ granted = [u \in User |-> 0]
  /\ net = [u \in User |-> 0]
  /\ stocked = [r \in Reward |-> 0]

-----------------------------------------------------------------------------
\* redeemReward. A key that is committed is answered with its redemption and
\* changes nothing, so only the other requests go on.
CheckKey(p, u, r, k) ==
  /\ txn[p] = Idle
  /\ redemptions[k] = NoRow
  /\ txn' = [txn EXCEPT ![p] = [step |-> "checked", user |-> u, reward |-> r,
                                key |-> k, points |-> 0, before |-> 0]]
  /\ UNCHANGED <<balance, rewards, redemptions, bonus, granted, net, stocked>>

\* Variant: the reward is read without FOR UPDATE.
LockReward_NoLock(p) ==
  /\ txn[p].step = "checked"
  /\ LET row == rewards[txn[p].reward]
     IN  IF row.status = "active" /\ row.stock > 0
         THEN txn' = [txn EXCEPT ![p].step = "reward_locked", ![p].points = row.cost]
         ELSE Finish(p)
  /\ UNCHANGED <<balance, rewards, redemptions, bonus, granted, net, stocked>>

\* Waits for the row; a reward that is missing, deleted, inactive or out of
\* stock is refused.
LockReward(p) ==
  /\ txn[p].step = "checked"
  /\ ~RewardLocked(txn[p].reward)
  /\ LET row == rewards[txn[p].reward]
     IN  IF row.status = "active" /\ row.stock > 0
         THEN txn' = [txn EXCEPT ![p].step = "reward_locked", ![p].points = row.cost]
         ELSE Finish(p)
  /\ UNCHANGED <<balance, rewards, redemptions, bonus, granted, net, stocked>>

\* Variant: the balance is read without FOR UPDATE.
LockBalance_NoLock(p) ==
  /\ txn[p].step = "reward_locked"
  /\ IF balance[txn[p].user] >= txn[p].points
     THEN txn' = [txn EXCEPT ![p].step = "balance_locked", ![p].before = balance[txn[p].user]]
     ELSE Finish(p)
  /\ UNCHANGED <<balance, rewards, redemptions, bonus, granted, net, stocked>>

\* Waits for the row; a balance that does not cover the cost is refused.
LockBalance(p) ==
  /\ txn[p].step = "reward_locked"
  /\ ~BalanceLocked(txn[p].user)
  /\ IF balance[txn[p].user] >= txn[p].points
     THEN txn' = [txn EXCEPT ![p].step = "balance_locked", ![p].before = balance[txn[p].user]]
     ELSE Finish(p)
  /\ UNCHANGED <<balance, rewards, redemptions, bonus, granted, net, stocked>>

\* Variant: idempotency_key is not UNIQUE.
Write_NotUnique(p) ==
  /\ txn[p].step = "balance_locked"
  /\ IF txn[p].points > 0 THEN txn' = [txn EXCEPT ![p].step = "written"]
                          ELSE Finish(p)
  /\ UNCHANGED <<balance, rewards, redemptions, bonus, granted, net, stocked>>

\* Variant: a unique violation starts the transaction again after the check.
Write_Retried(p) ==
  /\ txn[p].step = "balance_locked"
  /\ ~KeyInserted(txn[p].key)
  /\ IF redemptions[txn[p].key] # NoRow
     THEN txn' = [txn EXCEPT ![p].step = "checked", ![p].points = 0, ![p].before = 0]
     ELSE IF txn[p].points > 0 THEN txn' = [txn EXCEPT ![p].step = "written"]
                               ELSE Finish(p)
  /\ UNCHANGED <<balance, rewards, redemptions, bonus, granted, net, stocked>>

\* The stock, the point transaction and the redemption are written. A cost that
\* rounds to zero fails a CHECK; the unique index makes the last insert wait for
\* an open transaction with the key, and fail if the key is committed.
Write(p) ==
  /\ txn[p].step = "balance_locked"
  /\ ~KeyInserted(txn[p].key)
  /\ IF txn[p].points > 0 /\ redemptions[txn[p].key] = NoRow
     THEN txn' = [txn EXCEPT ![p].step = "written"]
     ELSE Finish(p)
  /\ UNCHANGED <<balance, rewards, redemptions, bonus, granted, net, stocked>>

\* The trigger has written balance_after, whatever the balance was.
CommitRedemption(p) ==
  /\ txn[p].step = "written"
  /\ balance' = [balance EXCEPT ![txn[p].user] = txn[p].before - txn[p].points]
  /\ rewards' = [rewards EXCEPT ![txn[p].reward].stock = @ - 1]
  /\ redemptions' = [redemptions EXCEPT ![txn[p].key] =
                       [user |-> txn[p].user, reward |-> txn[p].reward, points |-> txn[p].points]]
  /\ Finish(p)
  /\ UNCHANGED <<bonus, granted, net, stocked>>

-----------------------------------------------------------------------------
\* recordPointTransaction, called by batch rewards, referrals and webhooks.
Record(p, u, delta) ==
  /\ txn[p] = Idle
  /\ txn' = [txn EXCEPT ![p] = [step |-> "record", user |-> u, delta |-> delta, before |-> 0]]
  /\ UNCHANGED <<balance, rewards, redemptions, bonus, granted, net, stocked>>

\* A balance that would be negative, or above the range of the column, is refused.
LockForRecord(p) ==
  /\ txn[p].step = "record"
  /\ ~BalanceLocked(txn[p].user)
  /\ IF balance[txn[p].user] + txn[p].delta \in 0..MaxBalance
     THEN txn' = [txn EXCEPT ![p].step = "recording", ![p].before = balance[txn[p].user]]
     ELSE Finish(p)
  /\ UNCHANGED <<balance, rewards, redemptions, bonus, granted, net, stocked>>

CommitRecord(p) ==
  /\ txn[p].step = "recording"
  /\ balance' = [balance EXCEPT ![txn[p].user] = txn[p].before + txn[p].delta]
  /\ net' = [net EXCEPT ![txn[p].user] = @ + txn[p].delta]
  /\ Finish(p)
  /\ UNCHANGED <<rewards, redemptions, bonus, granted, stocked>>

\* A statement fails or the connection is lost before COMMIT.
Rollback(p) ==
  /\ txn[p] # Idle
  /\ Finish(p)
  /\ UNCHANGED <<balance, rewards, redemptions, bonus, granted, net, stocked>>

-----------------------------------------------------------------------------
CreateReward(r, cost, stock, active) ==
  /\ rewards[r].status = "absent"
  /\ rewards' = [rewards EXCEPT ![r] =
                   [status |-> IF active THEN "active" ELSE "inactive",
                    stock |-> stock, cost |-> cost]]
  /\ stocked' = [stocked EXCEPT ![r] = stock]
  /\ UNCHANGED <<balance, redemptions, txn, bonus, granted, net>>

\* One UPDATE, of the given columns: it waits for a transaction that has locked
\* the row.
UpdateReward(r, cost, stock, active) ==
  /\ rewards[r].status \in {"active", "inactive"}
  /\ ~RewardLocked(r)
  /\ rewards' = [rewards EXCEPT ![r] =
                   [status |-> IF active THEN "active" ELSE "inactive",
                    stock |-> stock, cost |-> cost]]
  /\ stocked' = [stocked EXCEPT ![r] = stock + Cardinality(RedemptionsOf(r))]
  /\ UNCHANGED <<balance, redemptions, txn, bonus, granted, net>>

DeleteReward(r) ==
  /\ rewards[r].status \in {"active", "inactive"}
  /\ ~RewardLocked(r)
  /\ rewards' = [rewards EXCEPT ![r].status = "deleted"]
  /\ UNCHANGED <<balance, redemptions, txn, bonus, granted, net, stocked>>

-----------------------------------------------------------------------------
\* runDailyLoginBonus at midnight: selects those who logged in the day before
\* and are not marked for the day.
StartDailyBonus(logins) ==
  /\ bonus.todo = {} /\ bonus.credited = NoUser
  /\ bonus.day < MaxDay
  /\ bonus' = [bonus EXCEPT !.day = @ + 1,
                            !.todo = {u \in logins : granted[u] < bonus.day + 1}]
  /\ UNCHANGED <<balance, rewards, redemptions, txn, granted, net, stocked>>

\* The insert gives balance_before as 0 and balance_after as the bonus; the
\* trigger waits for the row and stores the bonus as the balance.
CreditBonus(u) ==
  /\ bonus.credited = NoUser
  /\ u \in bonus.todo
  /\ ~BalanceLocked(u)
  /\ balance' = [balance EXCEPT ![u] = Bonus]
  /\ net' = [net EXCEPT ![u] = @ + Bonus]
  /\ bonus' = [bonus EXCEPT !.todo = @ \ {u}, !.credited = u]
  /\ UNCHANGED <<rewards, redemptions, txn, granted, stocked>>

\* A statement of its own, after the insert has committed.
MarkGranted ==
  /\ bonus.credited # NoUser
  /\ granted' = [granted EXCEPT ![bonus.credited] = bonus.day]
  /\ bonus' = [bonus EXCEPT !.credited = NoUser]
  /\ UNCHANGED <<balance, rewards, redemptions, txn, net, stocked>>

\* Either statement fails: the job goes on with the next user.
BonusFails ==
  /\ \/ \E u \in bonus.todo :
          bonus.credited = NoUser /\ bonus' = [bonus EXCEPT !.todo = @ \ {u}]
     \/ bonus.credited # NoUser /\ bonus' = [bonus EXCEPT !.credited = NoUser]
  /\ UNCHANGED <<balance, rewards, redemptions, txn, granted, net, stocked>>

\* The server stops: open transactions roll back, the job does not go on.
Crash ==
  /\ txn' = [p \in Request |-> Idle]
  /\ bonus' = [bonus EXCEPT !.todo = {}, !.credited = NoUser]
  /\ UNCHANGED <<balance, rewards, redemptions, granted, net, stocked>>

-----------------------------------------------------------------------------
Administer ==
  \E r \in Reward :
    \/ \E c \in Costs, n \in Stocks, a \in BOOLEAN : CreateReward(r, c, n, a)
    \/ \E c \in Costs \cup {rewards[r].cost}, n \in Stocks \cup {rewards[r].stock},
          a \in BOOLEAN : UpdateReward(r, c, n, a)
    \/ DeleteReward(r)

\* What a request that has begun does next.
Proceed(p) ==
  \/ LockReward(p) \/ LockBalance(p) \/ Write(p) \/ CommitRedemption(p)
  \/ LockForRecord(p) \/ CommitRecord(p)

Next ==
  \/ \E p \in Request, u \in User, r \in Reward, k \in Key : CheckKey(p, u, r, k)
  \/ \E p \in Request, u \in User, d \in Deltas : Record(p, u, d)
  \/ \E p \in Request : Proceed(p) \/ Rollback(p)
  \/ Administer
  \/ \E logins \in SUBSET User : StartDailyBonus(logins)
  \/ \E u \in User : CreditBonus(u)
  \/ MarkGranted \/ BonusFails
  \/ Crash

\* PostgreSQL serves the waiters of a row in turn, so a request whose lock is
\* free again and again gets on; so does the job.
Fairness ==
  /\ \A p \in Request : SF_vars(Proceed(p))
  /\ SF_vars(MarkGranted \/ \E u \in User : CreditBonus(u))

Spec == Init /\ [][Next]_vars /\ Fairness

-----------------------------------------------------------------------------
\* The rows satisfy the CHECK constraints: no stock and no balance is negative.
TypeOK ==
  /\ balance \in [User -> 0..MaxBalance]
  /\ rewards \in [Reward -> [status : {"absent", "active", "inactive", "deleted"},
                             stock : 0..MaxBalance, cost : 0..MaxBalance]]
  /\ redemptions \in [Key -> Redemption \cup {NoRow}]
  /\ txn \in [Request -> Redeeming \cup Recording \cup {Idle}]
  /\ bonus \in [day : 0..MaxDay, todo : SUBSET User, credited : User \cup {NoUser}]
  /\ granted \in [User -> 0..MaxDay]
  /\ net \in [User -> Int] /\ stocked \in [Reward -> Nat]

\* Every unit that left the stock of a reward is one redemption row, however
\* requests with the same key, administrators and crashes interleave.
StockAccounted ==
  \A r \in Reward : rewards[r].stock + Cardinality(RedemptionsOf(r)) = stocked[r]

\* redemptionRepository.js: "Atomically redeems a reward for a user". Although
\* each request reads rows, waits and writes in several statements, every run of
\* the tables is one where each redemption, recorded transaction and change by
\* an administrator happens at one moment, with the balance, cost, stock and
\* keys of that moment: no update is lost, nothing stale is used.
Atomic == INSTANCE AtomicLedger

AppearsAtomic == Atomic!Spec

\* Requests and the daily bonus job never wait for each other for ever: each
\* ends, answered or refused.
AllEnd ==
  /\ \A p \in Request : txn[p] # Idle ~> txn[p] = Idle
  /\ bonus.todo # {} ~> bonus.todo = {} /\ bonus.credited = NoUser

\* Migration 012: user_balance is the running balance of point_transactions,
\* updated on every insert.
BalanceIsSum == \A u \in User : balance[u] = Recorded(u)

-----------------------------------------------------------------------------
(* Proofs, for any number of requests, users, rewards and keys that interleave. *)

\* What callers of recordPointTransaction pass is an integer.
LEMMA DeltaNumbers == Deltas \subseteq Int \ {0}
<1> SUFFICES ASSUME NEW d \in Deltas PROVE d \in Int \ {0}
  OBVIOUS
<1>1. CASE d \in Amounts
  BY <1>1, LedgerAssumption DEF LedgerAssumption
<1>2. CASE d \in {-n : n \in Amounts}
  <2>1. PICK n \in Amounts : d = -n
    BY <1>2
  <2>2. n \in Nat \ {0}
    BY LedgerAssumption DEF LedgerAssumption
  <2>3. QED
    BY <2>1, <2>2
<1>3. QED
  BY <1>1, <1>2 DEF Deltas

HoldsReward(p)  == txn[p].step \in {"reward_locked", "balance_locked", "written"}
HoldsBalance(p) == txn[p].step \in {"balance_locked", "written", "recording"}

HoldsKey(p)     == txn[p].step = "written"

\* A row that is read FOR UPDATE, and an inserted key, belong to one request.
LocksExclusive ==
  \A p, q \in Request : p # q =>
    /\ HoldsReward(p) /\ HoldsReward(q) => txn[p].reward # txn[q].reward
    /\ HoldsBalance(p) /\ HoldsBalance(q) => txn[p].user # txn[q].user
    /\ HoldsKey(p) /\ HoldsKey(q) => txn[p].key # txn[q].key

\* What a request has read and checked under its locks is still so.
Current(p) ==
  /\ HoldsReward(p) => /\ rewards[txn[p].reward].status = "active"
                       /\ rewards[txn[p].reward].stock > 0
                       /\ txn[p].points = rewards[txn[p].reward].cost
  /\ txn[p].step \in {"balance_locked", "written"} =>
       txn[p].before = balance[txn[p].user] /\ txn[p].points <= txn[p].before
  /\ HoldsKey(p) => txn[p].points > 0 /\ redemptions[txn[p].key] = NoRow
  /\ txn[p].step = "recording" =>
       /\ txn[p].before = balance[txn[p].user]
       /\ txn[p].before + txn[p].delta \in 0..MaxBalance

ReadsCurrent == \A p \in Request : Current(p)

IInv == TypeOK /\ LocksExclusive /\ ReadsCurrent

-----------------------------------------------------------------------------
\* The step of a request tells which fields it has.
LEMMA StepTypes ==
  ASSUME TypeOK, NEW p \in Request
  PROVE  /\ txn[p] \in Redeeming \cup Recording \cup {Idle}
         /\ txn[p].step \in {"checked", "reward_locked", "balance_locked", "written"}
              => txn[p] \in Redeeming
         /\ txn[p].step \in {"record", "recording"} => txn[p] \in Recording
         /\ txn[p].step = "idle" => txn[p] = Idle
BY DEF TypeOK, Redeeming, Recording, Idle

\* When one request moves on, the locks stay exclusive if what it holds then is
\* held by no other.
LEMMA ExclusiveKeeps ==
  ASSUME LocksExclusive, NEW p \in Request,
         \A q \in Request : q # p => txn'[q] = txn[q],
         HoldsReward(p)' => \A q \in Request : q # p /\ HoldsReward(q) => txn[q].reward # txn'[p].reward,
         HoldsBalance(p)' => \A q \in Request : q # p /\ HoldsBalance(q) => txn[q].user # txn'[p].user,
         HoldsKey(p)' => \A q \in Request : q # p /\ HoldsKey(q) => txn[q].key # txn'[p].key
  PROVE  LocksExclusive'
<1> SUFFICES ASSUME NEW q \in Request, NEW r \in Request, q # r
             PROVE  /\ HoldsReward(q)' /\ HoldsReward(r)' => txn'[q].reward # txn'[r].reward
                    /\ HoldsBalance(q)' /\ HoldsBalance(r)' => txn'[q].user # txn'[r].user
                    /\ HoldsKey(q)' /\ HoldsKey(r)' => txn'[q].key # txn'[r].key
  BY DEF LocksExclusive
<1>1. CASE q = p
  <2>1. txn'[r] = txn[r] /\ r # p
    BY <1>1
  <2>2. QED
    BY <1>1, <2>1 DEF HoldsReward, HoldsBalance, HoldsKey
<1>2. CASE r = p
  <2>1. txn'[q] = txn[q] /\ q # p
    BY <1>2
  <2>2. QED
    BY <1>2, <2>1 DEF HoldsReward, HoldsBalance, HoldsKey
<1>3. CASE q # p /\ r # p
  BY <1>3 DEF LocksExclusive, HoldsReward, HoldsBalance, HoldsKey
<1>4. QED
  BY <1>1, <1>2, <1>3

\* A request that ends gives up its locks; all others keep what they have.
LEMMA FinishKeeps ==
  ASSUME IInv, NEW p \in Request, Finish(p),
         UNCHANGED <<balance, rewards, redemptions, bonus, granted, net, stocked>>
  PROVE  IInv'
<1>1. /\ txn \in [Request -> Redeeming \cup Recording \cup {Idle}]
      /\ txn'[p] = Idle /\ \A q \in Request : q # p => txn'[q] = txn[q]
  BY DEF IInv, TypeOK, Finish
<1>2. Idle.step = "idle"
  BY DEF Idle
<1>3. TypeOK'
  BY DEF IInv, TypeOK, Finish
<1>4. LocksExclusive'
  BY <1>1, <1>2 DEF IInv, LocksExclusive, HoldsReward, HoldsBalance, HoldsKey
<1>5. ReadsCurrent'
  BY <1>1, <1>2 DEF IInv, ReadsCurrent, Current, HoldsReward, HoldsBalance, HoldsKey
<1>6. QED
  BY <1>3, <1>4, <1>5 DEF IInv

\* A request that begins holds nothing.
LEMMA BeginKeeps ==
  ASSUME IInv, NEW p \in Request, NEW t \in Redeeming \cup Recording,
         t.step \in {"checked", "record"},
         txn' = [txn EXCEPT ![p] = t],
         UNCHANGED <<balance, rewards, redemptions, bonus, granted, net, stocked>>
  PROVE  IInv'
<1>1. /\ txn \in [Request -> Redeeming \cup Recording \cup {Idle}]
      /\ txn'[p] = t /\ \A q \in Request : q # p => txn'[q] = txn[q]
  BY DEF IInv, TypeOK
<1>2. TypeOK'
  BY DEF IInv, TypeOK
<1>3. LocksExclusive'
  BY <1>1 DEF IInv, LocksExclusive, HoldsReward, HoldsBalance, HoldsKey
<1>4. ReadsCurrent'
  BY <1>1 DEF IInv, ReadsCurrent, Current, HoldsReward, HoldsBalance, HoldsKey
<1>5. QED
  BY <1>2, <1>3, <1>4 DEF IInv


LEMMA LockRewardKeeps ==
  ASSUME IInv, NEW p \in Request, LockReward(p)
  PROVE  IInv'
<1> DEFINE row == rewards[txn[p].reward]
<1>1. CASE row.status = "active" /\ row.stock > 0
  <2>1. /\ txn[p] \in Redeeming /\ txn[p].step = "checked"
        /\ row.cost \in 0..MaxBalance
    BY StepTypes DEF IInv, LockReward, TypeOK, Redeeming
  <2>2. txn' = [txn EXCEPT ![p] = [@ EXCEPT !.step = "reward_locked", !.points = row.cost]]
    BY <1>1 DEF LockReward
  <2>3. /\ txn'[p] = [txn[p] EXCEPT !.step = "reward_locked", !.points = row.cost]
        /\ \A q \in Request : q # p => txn'[q] = txn[q]
    BY <2>2 DEF IInv, TypeOK
  <2>4. /\ txn'[p] \in Redeeming /\ txn'[p].step = "reward_locked"
        /\ txn'[p].reward = txn[p].reward /\ txn'[p].points = row.cost
    BY <2>1, <2>3 DEF Redeeming
  <2>5. TypeOK'
    BY <2>2, <2>3, <2>4 DEF IInv, TypeOK, LockReward
  <2>6. \A q \in Request : HoldsReward(q) => txn[q].reward # txn[p].reward
    BY DEF LockReward, RewardLocked, HoldsReward
  <2>7. LocksExclusive'
    <3>1. ~HoldsBalance(p)' /\ ~HoldsKey(p)'
      BY <2>4 DEF HoldsBalance, HoldsKey
    <3>2. \A q \in Request : q # p /\ HoldsReward(q) => txn[q].reward # txn'[p].reward
      BY <2>4, <2>6
    <3>3. QED
      BY <2>3, <3>1, <3>2, ExclusiveKeeps DEF IInv
  <2>8. ReadsCurrent'
    <3>1. rewards' = rewards
      BY DEF LockReward
    <3>2. Current(p)'
      BY <1>1, <2>4, <3>1 DEF Current, HoldsReward, HoldsKey
    <3>3. ASSUME NEW q \in Request, q # p PROVE Current(q)'
      BY <2>3, <3>3 DEF IInv, ReadsCurrent, Current, HoldsReward, HoldsKey, LockReward
    <3>4. QED
      BY <3>2, <3>3 DEF ReadsCurrent
  <2>9. QED
    BY <2>5, <2>7, <2>8 DEF IInv
<1>2. CASE ~(row.status = "active" /\ row.stock > 0)
  BY <1>2, FinishKeeps DEF LockReward
<1>3. QED
  BY <1>1, <1>2

LEMMA LockBalanceKeeps ==
  ASSUME IInv, NEW p \in Request, LockBalance(p)
  PROVE  IInv'
<1>1. CASE balance[txn[p].user] >= txn[p].points
  <2>1. txn[p] \in Redeeming /\ txn[p].step = "reward_locked"
    BY StepTypes DEF IInv, LockBalance
  <2>2. balance[txn[p].user] \in 0..MaxBalance
    BY <2>1 DEF IInv, TypeOK, Redeeming
  <2>3. txn' = [txn EXCEPT ![p] = [@ EXCEPT !.step = "balance_locked",
                                            !.before = balance[txn[p].user]]]
    BY <1>1 DEF LockBalance
  <2>4. /\ txn'[p] = [txn[p] EXCEPT !.step = "balance_locked", !.before = balance[txn[p].user]]
        /\ \A q \in Request : q # p => txn'[q] = txn[q]
    BY <2>3 DEF IInv, TypeOK
  <2>5. /\ txn'[p] \in Redeeming /\ txn'[p].step = "balance_locked"
        /\ txn'[p].reward = txn[p].reward /\ txn'[p].user = txn[p].user
        /\ txn'[p].points = txn[p].points /\ txn'[p].before = balance[txn[p].user]
    BY <2>1, <2>2, <2>4 DEF Redeeming
  <2>6. TypeOK'
    BY <2>3, <2>4, <2>5 DEF IInv, TypeOK, LockBalance
  <2>7. \A q \in Request : HoldsBalance(q) => txn[q].user # txn[p].user
    BY DEF LockBalance, BalanceLocked, HoldsBalance
  <2>8. LocksExclusive'
    <3>1. HoldsReward(p) /\ HoldsReward(p)' /\ HoldsBalance(p)' /\ ~HoldsKey(p)'
      BY <2>1, <2>5 DEF HoldsReward, HoldsBalance, HoldsKey
    <3>2. \A q \in Request : q # p /\ HoldsReward(q) => txn[q].reward # txn'[p].reward
      BY <2>5, <3>1 DEF IInv, LocksExclusive
    <3>3. \A q \in Request : q # p /\ HoldsBalance(q) => txn[q].user # txn'[p].user
      BY <2>5, <2>7
    <3>4. QED
      BY <2>4, <3>1, <3>2, <3>3, ExclusiveKeeps DEF IInv
  <2>9. ReadsCurrent'
    <3>1. /\ rewards[txn[p].reward].stock > 0 /\ rewards[txn[p].reward].status = "active"
          /\ txn[p].points = rewards[txn[p].reward].cost
      BY <2>1 DEF IInv, ReadsCurrent, Current, HoldsReward
    <3>2. Current(p)'
      BY <1>1, <2>5, <3>1 DEF Current, HoldsReward, HoldsKey, LockBalance
    <3>3. ASSUME NEW q \in Request, q # p PROVE Current(q)'
      BY <2>4, <3>3 DEF IInv, ReadsCurrent, Current, HoldsReward, HoldsKey, LockBalance
    <3>4. QED
      BY <3>2, <3>3 DEF ReadsCurrent
  <2>10. QED
    BY <2>6, <2>8, <2>9 DEF IInv
<1>2. CASE ~(balance[txn[p].user] >= txn[p].points)
  BY <1>2, FinishKeeps DEF LockBalance
<1>3. QED
  BY <1>1, <1>2

LEMMA WriteKeeps ==
  ASSUME IInv, NEW p \in Request, Write(p)
  PROVE  IInv'
<1>1. CASE txn[p].points > 0 /\ redemptions[txn[p].key] = NoRow
  <2>1. txn[p] \in Redeeming /\ txn[p].step = "balance_locked"
    BY StepTypes DEF IInv, Write
  <2>2. txn' = [txn EXCEPT ![p] = [@ EXCEPT !.step = "written"]]
    BY <1>1 DEF Write
  <2>3. /\ txn'[p] = [txn[p] EXCEPT !.step = "written"]
        /\ \A q \in Request : q # p => txn'[q] = txn[q]
    BY <2>2 DEF IInv, TypeOK
  <2>4. /\ txn'[p] \in Redeeming /\ txn'[p].step = "written"
        /\ txn'[p].reward = txn[p].reward /\ txn'[p].user = txn[p].user
        /\ txn'[p].key = txn[p].key
        /\ txn'[p].points = txn[p].points /\ txn'[p].before = txn[p].before
    BY <2>1, <2>3 DEF Redeeming
  <2>5. TypeOK'
    BY <2>2, <2>3, <2>4 DEF IInv, TypeOK, Write
  <2>6. \A q \in Request : txn[q].step = "written" => txn[q].key # txn[p].key
    BY DEF Write, KeyInserted
  <2>7. LocksExclusive'
    <3>1. HoldsReward(p) /\ HoldsBalance(p)
      BY <2>1 DEF HoldsReward, HoldsBalance
    <3>2. \A q \in Request : q # p =>
            /\ HoldsReward(q) => txn[q].reward # txn'[p].reward
            /\ HoldsBalance(q) => txn[q].user # txn'[p].user
      BY <2>4, <3>1 DEF IInv, LocksExclusive
    <3>3. \A q \in Request : q # p /\ HoldsKey(q) => txn[q].key # txn'[p].key
      BY <2>4, <2>6 DEF HoldsKey
    <3>4. QED
      BY <2>3, <3>2, <3>3, ExclusiveKeeps DEF IInv
  <2>8. ReadsCurrent'
    <3>1. Current(p)
      BY DEF IInv, ReadsCurrent
    <3>2. Current(p)'
      BY <1>1, <2>1, <2>4, <3>1 DEF Current, HoldsReward, HoldsKey, Write
    <3>3. ASSUME NEW q \in Request, q # p PROVE Current(q)'
      BY <2>3, <3>3 DEF IInv, ReadsCurrent, Current, HoldsReward, HoldsKey, Write
    <3>4. QED
      BY <3>2, <3>3 DEF ReadsCurrent
  <2>9. QED
    BY <2>5, <2>7, <2>8 DEF IInv
<1>2. CASE ~(txn[p].points > 0 /\ redemptions[txn[p].key] = NoRow)
  BY <1>2, FinishKeeps DEF Write
<1>3. QED
  BY <1>1, <1>2

LEMMA LockForRecordKeeps ==
  ASSUME IInv, NEW p \in Request, LockForRecord(p)
  PROVE  IInv'
<1>1. CASE balance[txn[p].user] + txn[p].delta \in 0..MaxBalance
  <2>1. txn[p] \in Recording /\ txn[p].step = "record"
    BY StepTypes DEF IInv, LockForRecord
  <2>2. balance[txn[p].user] \in 0..MaxBalance
    BY <2>1 DEF IInv, TypeOK, Recording
  <2>3. txn' = [txn EXCEPT ![p] = [@ EXCEPT !.step = "recording",
                                            !.before = balance[txn[p].user]]]
    BY <1>1 DEF LockForRecord
  <2>4. /\ txn'[p] = [txn[p] EXCEPT !.step = "recording", !.before = balance[txn[p].user]]
        /\ \A q \in Request : q # p => txn'[q] = txn[q]
    BY <2>3 DEF IInv, TypeOK
  <2>5. /\ txn'[p] \in Recording /\ txn'[p].step = "recording"
        /\ txn'[p].user = txn[p].user
        /\ txn'[p].delta = txn[p].delta /\ txn'[p].before = balance[txn[p].user]
    BY <2>1, <2>2, <2>4 DEF Recording
  <2>6. TypeOK'
    BY <2>3, <2>4, <2>5 DEF IInv, TypeOK, LockForRecord
  <2>7. \A q \in Request : HoldsBalance(q) => txn[q].user # txn[p].user
    BY DEF LockForRecord, BalanceLocked, HoldsBalance
  <2>8. LocksExclusive'
    <3>1. LocksExclusive /\ ~HoldsReward(p)' /\ ~HoldsKey(p)'
      BY <2>5 DEF IInv, HoldsReward, HoldsKey
    <3>2. \A q \in Request : q # p /\ HoldsBalance(q) => txn[q].user # txn'[p].user
      BY <2>5, <2>7
    <3>3. QED
      BY <2>4, <3>1, <3>2, ExclusiveKeeps, ZenonT(60)
  <2>9. ReadsCurrent'
    <3>1. /\ balance'[txn'[p].user] = txn'[p].before
          /\ txn'[p].before + txn'[p].delta \in 0..MaxBalance
      BY <1>1, <2>5 DEF LockForRecord
    <3>2. Current(p)'
      BY <2>5, <3>1 DEF Current, HoldsReward, HoldsKey
    <3>3. ASSUME NEW q \in Request, q # p PROVE Current(q)'
      BY <2>4, <3>3 DEF IInv, ReadsCurrent, Current, HoldsReward, HoldsKey, LockForRecord
    <3>4. QED
      BY <3>2, <3>3 DEF ReadsCurrent
  <2>10. QED
    BY <2>6, <2>8, <2>9 DEF IInv
<1>2. CASE ~(balance[txn[p].user] + txn[p].delta \in 0..MaxBalance)
  BY <1>2, FinishKeeps DEF LockForRecord
<1>3. QED
  BY <1>1, <1>2

\* A commit releases the locks and moves the rows only this request holds.
LEMMA CommitRedemptionKeeps ==
  ASSUME IInv, NEW p \in Request, CommitRedemption(p)
  PROVE  IInv'
<1> DEFINE t == txn[p]
<1>1. /\ t \in Redeeming /\ t.step = "written"
      /\ HoldsReward(p) /\ HoldsBalance(p) /\ HoldsKey(p) /\ Current(p)
  BY StepTypes DEF IInv, CommitRedemption, HoldsReward, HoldsBalance, HoldsKey, ReadsCurrent
<1>2. /\ t.user \in User /\ t.reward \in Reward /\ t.key \in Key
      /\ t.points \in 1..MaxBalance /\ t.before \in 0..MaxBalance
      /\ t.points <= t.before
      /\ rewards[t.reward].stock \in 1..MaxBalance
  BY <1>1, LedgerAssumption DEF IInv, TypeOK, Redeeming, Current
<1>3. /\ balance' = [balance EXCEPT ![t.user] = t.before - t.points]
      /\ rewards' = [rewards EXCEPT ![t.reward].stock = @ - 1]
      /\ redemptions' = [redemptions EXCEPT ![t.key] =
                           [user |-> t.user, reward |-> t.reward, points |-> t.points]]
      /\ txn' = [txn EXCEPT ![p] = Idle]
  BY DEF CommitRedemption, Finish
<1>4. /\ txn'[p] = Idle /\ Idle.step = "idle"
      /\ \A q \in Request : q # p => txn'[q] = txn[q]
  BY <1>3 DEF IInv, TypeOK, Idle
<1>5. TypeOK'
  <2>1. t.before - t.points \in 0..MaxBalance /\ rewards[t.reward].stock - 1 \in 0..MaxBalance
    BY <1>2, LedgerAssumption
  <2>2. balance' \in [User -> 0..MaxBalance]
    BY <1>2, <1>3, <2>1 DEF IInv, TypeOK
  <2>3. rewards' \in [Reward -> [status : {"absent", "active", "inactive", "deleted"},
                                 stock : 0..MaxBalance, cost : 0..MaxBalance]]
    <3> DEFINE r == [rewards[t.reward] EXCEPT !.stock = @ - 1]
    <3>1. rewards[t.reward] \in [status : {"absent", "active", "inactive", "deleted"},
                                stock : 0..MaxBalance, cost : 0..MaxBalance]
      BY <1>2 DEF IInv, TypeOK
    <3>2. r \in [status : {"absent", "active", "inactive", "deleted"},
                 stock : 0..MaxBalance, cost : 0..MaxBalance]
      BY <2>1, <3>1
    <3>3. rewards' = [rewards EXCEPT ![t.reward] = r]
      BY <1>3
    <3> HIDE DEF r
    <3>4. QED
      BY <1>2, <3>2, <3>3 DEF IInv, TypeOK
  <2>4. redemptions' \in [Key -> Redemption \cup {NoRow}]
    BY <1>2, <1>3 DEF IInv, TypeOK, Redemption
  <2>5. QED
    BY <1>3, <2>2, <2>3, <2>4 DEF IInv, TypeOK, CommitRedemption
<1>6. LocksExclusive'
  <2>1. ~HoldsReward(p)' /\ ~HoldsBalance(p)' /\ ~HoldsKey(p)'
    BY <1>4 DEF HoldsReward, HoldsBalance, HoldsKey
  <2>2. QED
    BY <1>4, <2>1, ExclusiveKeeps DEF IInv
<1>7. ReadsCurrent'
  <2>1. Current(p)'
    BY <1>4 DEF Current, HoldsReward, HoldsKey
  <2>2. ASSUME NEW q \in Request, q # p PROVE Current(q)'
    <3>1. Current(q) /\ txn'[q] = txn[q]
      BY <1>4, <2>2 DEF IInv, ReadsCurrent
    <3>2. /\ HoldsReward(q) => txn[q].reward # t.reward /\ txn[q].reward \in Reward
          /\ HoldsBalance(q) => txn[q].user # t.user /\ txn[q].user \in User
          /\ HoldsKey(q) => txn[q].key # t.key /\ txn[q].key \in Key
      BY <1>1, <2>2, StepTypes
      DEF IInv, LocksExclusive, HoldsReward, HoldsBalance, HoldsKey, Redeeming, Recording
    <3>3. /\ HoldsReward(q) => rewards'[txn[q].reward] = rewards[txn[q].reward]
          /\ HoldsBalance(q) => balance'[txn[q].user] = balance[txn[q].user]
          /\ HoldsKey(q) => redemptions'[txn[q].key] = redemptions[txn[q].key]
      BY <1>3, <3>2 DEF IInv, TypeOK
    <3>4. QED
      BY <3>1, <3>3 DEF Current, HoldsReward, HoldsBalance, HoldsKey
  <2>3. QED
    BY <2>1, <2>2 DEF ReadsCurrent
<1>8. QED
  BY <1>5, <1>6, <1>7 DEF IInv

LEMMA CommitRecordKeeps ==
  ASSUME IInv, NEW p \in Request, CommitRecord(p)
  PROVE  IInv'
<1> DEFINE t == txn[p]
<1>1. /\ t \in Recording /\ t.step = "recording" /\ HoldsBalance(p) /\ Current(p)
  BY StepTypes DEF IInv, CommitRecord, HoldsBalance, ReadsCurrent
<1>2. /\ t.user \in User /\ t.delta \in Int
      /\ t.before + t.delta \in 0..MaxBalance
  BY <1>1, DeltaNumbers DEF Recording, Current
<1>3. /\ balance' = [balance EXCEPT ![t.user] = t.before + t.delta]
      /\ net' = [net EXCEPT ![t.user] = @ + t.delta]
      /\ txn' = [txn EXCEPT ![p] = Idle]
  BY DEF CommitRecord, Finish
<1>4. /\ txn'[p] = Idle /\ Idle.step = "idle"
      /\ \A q \in Request : q # p => txn'[q] = txn[q]
  BY <1>3 DEF IInv, TypeOK, Idle
<1>5. TypeOK'
  BY <1>2, <1>3 DEF IInv, TypeOK, CommitRecord
<1>6. LocksExclusive'
  <2>1. ~HoldsReward(p)' /\ ~HoldsBalance(p)' /\ ~HoldsKey(p)'
    BY <1>4 DEF HoldsReward, HoldsBalance, HoldsKey
  <2>2. QED
    BY <1>4, <2>1, ExclusiveKeeps DEF IInv
<1>7. ReadsCurrent'
  <2>1. Current(p)'
    BY <1>4 DEF Current, HoldsReward, HoldsKey
  <2>2. ASSUME NEW q \in Request, q # p PROVE Current(q)'
    <3>1. Current(q) /\ txn'[q] = txn[q]
      BY <1>4, <2>2 DEF IInv, ReadsCurrent
    <3>2. HoldsBalance(q) => txn[q].user # t.user
      BY <1>1, <2>2 DEF IInv, LocksExclusive
    <3>3. HoldsBalance(q) => balance'[txn[q].user] = balance[txn[q].user]
      BY <1>2, <1>3, <3>2, StepTypes DEF IInv, TypeOK, HoldsBalance, Redeeming, Recording
    <3>4. QED
      BY <3>1, <3>3 DEF Current, HoldsReward, HoldsBalance, HoldsKey, CommitRecord
  <2>3. QED
    BY <2>1, <2>2 DEF ReadsCurrent
<1>8. QED
  BY <1>5, <1>6, <1>7 DEF IInv

-----------------------------------------------------------------------------
(* Administrators, the daily bonus and a crash.                            *)

\* A row that no request holds, or that is not there yet, can be written.
LEMMA RewardRowKeeps ==
  ASSUME IInv, TypeOK', NEW r \in Reward,
         rewards[r].status = "absent" \/ ~RewardLocked(r),
         \A s \in Reward \ {r} : rewards'[s] = rewards[s],
         UNCHANGED <<balance, redemptions, txn>>
  PROVE  IInv'
<1>1. LocksExclusive'
  BY DEF IInv, LocksExclusive, HoldsReward, HoldsBalance, HoldsKey
<1>2. ASSUME NEW q \in Request PROVE Current(q)'
  <2>1. Current(q)
    BY DEF IInv, ReadsCurrent
  <2>2. HoldsReward(q) => txn[q].reward \in Reward /\ txn[q].reward # r
    BY <2>1, StepTypes DEF IInv, Current, HoldsReward, RewardLocked, Redeeming
  <2>3. HoldsReward(q) => rewards'[txn[q].reward] = rewards[txn[q].reward]
    BY <2>2
  <2>4. QED
    BY <2>1, <2>3 DEF Current, HoldsReward, HoldsKey
<1>3. QED
  BY <1>1, <1>2 DEF IInv, ReadsCurrent

LEMMA AdministerKeeps ==
  ASSUME IInv, Administer
  PROVE  IInv'
<1> USE LedgerAssumption
<1>1. PICK r \in Reward :
        \/ \E c \in Costs, n \in Stocks, a \in BOOLEAN : CreateReward(r, c, n, a)
        \/ \E c \in Costs \cup {rewards[r].cost}, n \in Stocks \cup {rewards[r].stock},
              a \in BOOLEAN : UpdateReward(r, c, n, a)
        \/ DeleteReward(r)
  BY DEF Administer
<1>2. ASSUME NEW c \in Costs, NEW n \in Stocks, NEW a \in BOOLEAN, CreateReward(r, c, n, a)
      PROVE  IInv'
  <2>1. TypeOK'
    BY <1>2 DEF IInv, TypeOK, CreateReward
  <2>2. QED
    BY <1>2, <2>1, RewardRowKeeps DEF IInv, TypeOK, CreateReward
<1>3. ASSUME NEW c \in Costs \cup {rewards[r].cost}, NEW n \in Stocks \cup {rewards[r].stock},
             NEW a \in BOOLEAN, UpdateReward(r, c, n, a)
      PROVE  IInv'
  <2>1. Cardinality(RedemptionsOf(r)) \in Nat
    BY FS_Subset, FS_CardinalityType DEF RedemptionsOf
  <2>2. c \in 0..MaxBalance /\ n \in 0..MaxBalance
    BY DEF IInv, TypeOK
  <2>3. n + Cardinality(RedemptionsOf(r)) \in Nat
    BY <2>1, <2>2
  <2>4. TypeOK'
    BY <1>3, <2>2, <2>3 DEF IInv, TypeOK, UpdateReward
  <2>5. QED
    BY <1>3, <2>4, RewardRowKeeps DEF IInv, TypeOK, UpdateReward
<1>4. ASSUME DeleteReward(r)
      PROVE  IInv'
  <2>1. TypeOK'
    BY <1>4 DEF IInv, TypeOK, DeleteReward
  <2>2. QED
    BY <1>4, <2>1, RewardRowKeeps DEF IInv, TypeOK, DeleteReward
<1>5. QED
  BY <1>1, <1>2, <1>3, <1>4

\* The trigger of the bonus waits for a request that holds the balance.
LEMMA CreditBonusKeeps ==
  ASSUME IInv, NEW u \in User, CreditBonus(u)
  PROVE  IInv'
<1>1. TypeOK'
  <2>1. bonus' \in [day : 0..MaxDay, todo : SUBSET User, credited : User \cup {NoUser}]
    BY DEF IInv, TypeOK, CreditBonus
  <2>2. balance' \in [User -> 0..MaxBalance]
    BY LedgerAssumption DEF IInv, TypeOK, CreditBonus
  <2>3. net' \in [User -> Int]
    BY LedgerAssumption DEF IInv, TypeOK, CreditBonus
  <2>4. QED
    BY <2>1, <2>2, <2>3 DEF IInv, TypeOK, CreditBonus
<1>2. LocksExclusive'
  BY DEF IInv, LocksExclusive, HoldsReward, HoldsBalance, HoldsKey, CreditBonus
<1>3. ASSUME NEW q \in Request PROVE Current(q)'
  <2>1. Current(q)
    BY DEF IInv, ReadsCurrent
  <2>2. HoldsBalance(q) => txn[q].user \in User /\ txn[q].user # u
    BY StepTypes DEF IInv, CreditBonus, BalanceLocked, HoldsBalance, Redeeming, Recording
  <2>3. HoldsBalance(q) => balance'[txn[q].user] = balance[txn[q].user]
    BY <2>2 DEF IInv, TypeOK, CreditBonus
  <2>4. QED
    BY <2>1, <2>3 DEF Current, HoldsReward, HoldsBalance, HoldsKey, CreditBonus
<1>4. QED
  BY <1>1, <1>2, <1>3 DEF IInv, ReadsCurrent

\* Whatever leaves the rows and the transactions alone keeps the invariant.
LEMMA OthersKeep ==
  ASSUME IInv, TypeOK', UNCHANGED <<balance, rewards, redemptions, txn>>
  PROVE  IInv'
BY DEF IInv, LocksExclusive, ReadsCurrent, Current, HoldsReward, HoldsBalance, HoldsKey

LEMMA CrashKeeps ==
  ASSUME IInv, Crash
  PROVE  IInv'
<1>1. \A p \in Request : txn'[p].step = "idle"
  BY DEF Crash, Idle
<1>2. TypeOK'
  BY DEF IInv, TypeOK, Crash
<1>3. LocksExclusive'
  BY <1>1 DEF LocksExclusive, HoldsReward, HoldsBalance, HoldsKey
<1>4. ReadsCurrent'
  BY <1>1 DEF ReadsCurrent, Current, HoldsReward, HoldsBalance, HoldsKey
<1>5. QED
  BY <1>2, <1>3, <1>4 DEF IInv

-----------------------------------------------------------------------------
LEMMA InvariantStarts ==
  ASSUME Init
  PROVE  IInv
<1>1. \A p \in Request : txn[p].step = "idle"
  BY DEF Init, Idle
<1>2. TypeOK
  BY LedgerAssumption DEF Init, TypeOK
<1>3. LocksExclusive
  BY <1>1 DEF LocksExclusive, HoldsReward, HoldsBalance, HoldsKey
<1>4. ReadsCurrent
  BY <1>1 DEF ReadsCurrent, Current, HoldsReward, HoldsBalance, HoldsKey
<1>5. QED
  BY <1>2, <1>3, <1>4 DEF IInv

LEMMA InvariantKept ==
  ASSUME IInv, [Next]_vars
  PROVE  IInv'
<1>1. ASSUME NEW p \in Request, NEW u \in User, NEW r \in Reward, NEW k \in Key,
             CheckKey(p, u, r, k)
      PROVE  IInv'
  <2> DEFINE t == [step |-> "checked", user |-> u, reward |-> r, key |-> k,
                   points |-> 0, before |-> 0]
  <2>1. t \in Redeeming /\ t.step = "checked"
    BY LedgerAssumption DEF Redeeming
  <2>2. /\ txn' = [txn EXCEPT ![p] = t]
        /\ UNCHANGED <<balance, rewards, redemptions, bonus, granted, net, stocked>>
    BY <1>1 DEF CheckKey
  <2> HIDE DEF t
  <2>3. QED
    BY <2>1, <2>2, BeginKeeps
<1>2. ASSUME NEW p \in Request, NEW u \in User, NEW d \in Deltas, Record(p, u, d)
      PROVE  IInv'
  <2> DEFINE t == [step |-> "record", user |-> u, delta |-> d, before |-> 0]
  <2>1. t \in Recording /\ t.step = "record"
    BY LedgerAssumption DEF Recording
  <2>2. /\ txn' = [txn EXCEPT ![p] = t]
        /\ UNCHANGED <<balance, rewards, redemptions, bonus, granted, net, stocked>>
    BY <1>2 DEF Record
  <2> HIDE DEF t
  <2>3. QED
    BY <2>1, <2>2, BeginKeeps
<1>3. ASSUME NEW p \in Request, Proceed(p)
      PROVE  IInv'
  BY <1>3, LockRewardKeeps, LockBalanceKeeps, WriteKeeps, CommitRedemptionKeeps,
     LockForRecordKeeps, CommitRecordKeeps DEF Proceed
<1>4. ASSUME NEW p \in Request, Rollback(p)
      PROVE  IInv'
  BY <1>4, FinishKeeps DEF Rollback
<1>5. ASSUME NEW logins \in SUBSET User, StartDailyBonus(logins)
      PROVE  IInv'
  <2>1. TypeOK'
    <3>1. bonus.day \in 0..MaxDay /\ bonus.day + 1 \in 0..MaxDay
      BY <1>5, LedgerAssumption DEF IInv, TypeOK, StartDailyBonus
    <3>2. bonus' = [bonus EXCEPT !.day = bonus.day + 1,
                                 !.todo = {u \in logins : granted[u] < bonus.day + 1}]
      BY <1>5 DEF StartDailyBonus
    <3>3. bonus' \in [day : 0..MaxDay, todo : SUBSET User, credited : User \cup {NoUser}]
      BY <3>1, <3>2 DEF IInv, TypeOK
    <3>4. QED
      BY <1>5, <3>3 DEF IInv, TypeOK, StartDailyBonus
  <2>2. QED
    BY <1>5, <2>1, OthersKeep DEF StartDailyBonus
<1>6. ASSUME MarkGranted
      PROVE  IInv'
  <2>1. TypeOK'
    BY <1>6 DEF IInv, TypeOK, MarkGranted
  <2>2. QED
    BY <1>6, <2>1, OthersKeep DEF MarkGranted
<1>7. ASSUME BonusFails
      PROVE  IInv'
  <2>1. TypeOK'
    BY <1>7 DEF IInv, TypeOK, BonusFails
  <2>2. QED
    BY <1>7, <2>1, OthersKeep DEF BonusFails
<1>8. CASE UNCHANGED vars
  <2>1. TypeOK'
    BY <1>8 DEF IInv, TypeOK, vars
  <2>2. QED
    BY <1>8, <2>1, OthersKeep DEF vars
<1>9. QED
  BY <1>1, <1>2, <1>3, <1>4, <1>5, <1>6, <1>7, <1>8,
     AdministerKeeps, CreditBonusKeeps, CrashKeeps DEF Next

-----------------------------------------------------------------------------
\* The CHECK constraints of the tables never have to refuse a write: balances
\* and stocks stay within their ranges for any interleaving of requests.
THEOREM LedgerTypeCorrect == Spec => []TypeOK
<1>1. Init => IInv
  BY InvariantStarts
<1>2. IInv /\ [Next]_vars => IInv'
  BY InvariantKept
<1>3. IInv => TypeOK
  BY DEF IInv
<1>4. QED
  BY <1>1, <1>2, <1>3, PTL DEF Spec

\* A row is held by one transaction at a time, and what a transaction read and
\* checked when it locked a row is still so when it commits.
THEOREM ReadsStayCurrent == Spec => [](LocksExclusive /\ ReadsCurrent)
<1>1. Init => IInv
  BY InvariantStarts
<1>2. IInv /\ [Next]_vars => IInv'
  BY InvariantKept
<1>3. IInv => LocksExclusive /\ ReadsCurrent
  BY DEF IInv
<1>4. QED
  BY <1>1, <1>2, <1>3, PTL DEF Spec

-----------------------------------------------------------------------------
(* The stock and the redemptions.                                          *)

\* Nobody has redeemed a reward that is not there yet.
StockInv ==
  /\ StockAccounted
  /\ \A r \in Reward : rewards[r].status = "absent" => RedemptionsOf(r) = {}

LEMMA StockCommitted ==
  ASSUME IInv, StockInv, NEW p \in Request, CommitRedemption(p)
  PROVE  StockInv'
<1> DEFINE t == txn[p]
<1>1. /\ t \in Redeeming /\ t.reward \in Reward /\ t.key \in Key
      /\ rewards[t.reward].status # "absent" /\ rewards[t.reward].stock \in Nat
      /\ redemptions[t.key] = NoRow
  <2>1. t \in Redeeming /\ Current(p) /\ HoldsReward(p) /\ HoldsKey(p)
    BY StepTypes DEF IInv, CommitRedemption, ReadsCurrent, HoldsReward, HoldsKey
  <2>2. t.reward \in Reward /\ t.key \in Key
    BY <2>1 DEF Redeeming
  <2>3. rewards[t.reward].stock \in Nat
    BY <2>2, LedgerAssumption DEF IInv, TypeOK
  <2>4. QED
    BY <2>1, <2>2, <2>3 DEF Current
<1>2. /\ rewards' = [rewards EXCEPT ![t.reward].stock = @ - 1]
      /\ redemptions' = [redemptions EXCEPT ![t.key] =
                           [user |-> t.user, reward |-> t.reward, points |-> t.points]]
      /\ stocked' = stocked
  BY DEF CommitRedemption
<1>3. redemptions'[t.key] # NoRow /\ redemptions'[t.key].reward = t.reward
  <2>1. t.points \in 1..MaxBalance
    <3>1. t.points \in 0..MaxBalance
      BY <1>1 DEF Redeeming
    <3>2. t.points > 0
      BY DEF IInv, CommitRedemption, ReadsCurrent, Current, HoldsKey
    <3>3. QED
      BY <3>1, <3>2, LedgerAssumption
  <2>2. [user |-> t.user, reward |-> t.reward, points |-> t.points] \in Redemption
    BY <1>1, <2>1 DEF Redemption, Redeeming
  <2>3. redemptions'[t.key] = [user |-> t.user, reward |-> t.reward, points |-> t.points]
    BY <1>1, <1>2 DEF IInv, TypeOK
  <2>4. QED
    BY <2>2, <2>3, LedgerAssumption
<1>4. \A k \in Key \ {t.key} : redemptions'[k] = redemptions[k]
  BY <1>2 DEF IInv, TypeOK
<1>5. \A r \in Reward \ {t.reward} : rewards'[r] = rewards[r]
  BY <1>1, <1>2 DEF IInv, TypeOK
<1>6. ASSUME NEW r \in Reward, r = t.reward
      PROVE  /\ rewards'[r].stock + Cardinality(RedemptionsOf(r)') = stocked'[r]
             /\ rewards'[r].status # "absent"
  <2>1. /\ RedemptionsOf(r)' = RedemptionsOf(r) \cup {t.key}
        /\ t.key \notin RedemptionsOf(r)
    BY <1>1, <1>3, <1>4, <1>6 DEF RedemptionsOf
  <2>2. IsFiniteSet(RedemptionsOf(r))
    BY FS_Subset, LedgerAssumption DEF RedemptionsOf
  <2>3. /\ Cardinality(RedemptionsOf(r)) \in Nat
        /\ Cardinality(RedemptionsOf(r)') = Cardinality(RedemptionsOf(r)) + 1
    BY <2>1, <2>2, FS_AddElement, FS_CardinalityType
  <2>4. /\ rewards'[r].stock = rewards[r].stock - 1
        /\ rewards'[r].status = rewards[r].status
    BY <1>1, <1>2, <1>6 DEF IInv, TypeOK
  <2>5. rewards[r].stock + Cardinality(RedemptionsOf(r)) = stocked[r]
    BY DEF StockInv, StockAccounted
  <2>6. rewards[r].stock \in Nat /\ rewards[r].status # "absent" /\ stocked'[r] = stocked[r]
    BY <1>1, <1>2, <1>6
  <2>7. QED
    BY <2>3, <2>4, <2>5, <2>6
<1>7. ASSUME NEW r \in Reward, r # t.reward
      PROVE  RedemptionsOf(r)' = RedemptionsOf(r)
  BY <1>1, <1>3, <1>4, <1>7 DEF RedemptionsOf
<1>8. ASSUME NEW r \in Reward, r # t.reward
      PROVE  /\ rewards'[r].stock + Cardinality(RedemptionsOf(r)') = stocked'[r]
             /\ rewards'[r].status = "absent" => RedemptionsOf(r)' = {}
  BY <1>2, <1>5, <1>7, <1>8 DEF StockInv, StockAccounted
<1>9. QED
  BY <1>6, <1>8 DEF StockInv, StockAccounted

\* An administrator gives a reward stock.
LEMMA StockGiven ==
  ASSUME TypeOK, StockInv, NEW r \in Reward, redemptions' = redemptions,
         rewards' \in [Reward -> [status : {"absent", "active", "inactive", "deleted"},
                                  stock : 0..MaxBalance, cost : 0..MaxBalance]],
         \A s \in Reward \ {r} : rewards'[s] = rewards[s] /\ stocked'[s] = stocked[s],
         rewards'[r].status # "absent",
         stocked'[r] = rewards'[r].stock + Cardinality(RedemptionsOf(r))
  PROVE  StockInv'
<1>1. \A s \in Reward : RedemptionsOf(s)' = RedemptionsOf(s)
  BY DEF RedemptionsOf
<1>2. ASSUME NEW s \in Reward
      PROVE  /\ rewards'[s].stock + Cardinality(RedemptionsOf(s)') = stocked'[s]
             /\ rewards'[s].status = "absent" => RedemptionsOf(s)' = {}
  BY <1>1 DEF StockInv, StockAccounted
<1>3. QED
  BY <1>2 DEF StockInv, StockAccounted

LEMMA StockAdministered ==
  ASSUME TypeOK, TypeOK', StockInv, Administer
  PROVE  StockInv'
<1> USE LedgerAssumption
<1>1. PICK r \in Reward :
        \/ \E c \in Costs, n \in Stocks, a \in BOOLEAN : CreateReward(r, c, n, a)
        \/ \E c \in Costs \cup {rewards[r].cost}, n \in Stocks \cup {rewards[r].stock},
              a \in BOOLEAN : UpdateReward(r, c, n, a)
        \/ DeleteReward(r)
  BY DEF Administer
<1>2. ASSUME NEW c \in Costs, NEW n \in Stocks, NEW a \in BOOLEAN, CreateReward(r, c, n, a)
      PROVE  StockInv'
  <2>1. RedemptionsOf(r) = {}
    BY <1>2 DEF StockInv, CreateReward
  <2>2. n \in Nat /\ n = n + Cardinality(RedemptionsOf(r))
    BY <2>1, FS_EmptySet
  <2>3. /\ rewards'[r].status # "absent" /\ rewards'[r].stock = n /\ stocked'[r] = n
        /\ \A s \in Reward \ {r} : rewards'[s] = rewards[s] /\ stocked'[s] = stocked[s]
    BY <1>2 DEF TypeOK, CreateReward
  <2>4. QED
    BY <1>2, <2>2, <2>3, StockGiven DEF TypeOK, CreateReward
<1>3. ASSUME NEW c \in Costs \cup {rewards[r].cost}, NEW n \in Stocks \cup {rewards[r].stock},
             NEW a \in BOOLEAN, UpdateReward(r, c, n, a)
      PROVE  StockInv'
  <2>1. /\ rewards'[r].status # "absent" /\ rewards'[r].stock = n
        /\ stocked'[r] = n + Cardinality(RedemptionsOf(r))
        /\ \A s \in Reward \ {r} : rewards'[s] = rewards[s] /\ stocked'[s] = stocked[s]
    BY <1>3 DEF TypeOK, UpdateReward
  <2>2. QED
    BY <1>3, <2>1, StockGiven DEF TypeOK, UpdateReward
<1>4. ASSUME DeleteReward(r)
      PROVE  StockInv'
  <2>1. /\ rewards'[r].status # "absent" /\ rewards'[r].stock = rewards[r].stock
        /\ \A s \in Reward \ {r} : rewards'[s] = rewards[s] /\ stocked'[s] = stocked[s]
    BY <1>4 DEF TypeOK, DeleteReward
  <2>2. stocked'[r] = rewards'[r].stock + Cardinality(RedemptionsOf(r))
    BY <1>4, <2>1 DEF StockInv, StockAccounted, DeleteReward
  <2>3. QED
    BY <1>4, <2>1, <2>2, StockGiven DEF TypeOK, DeleteReward
<1>5. QED
  BY <1>1, <1>2, <1>3, <1>4

LEMMA StockUnmoved ==
  ASSUME StockInv, UNCHANGED <<rewards, redemptions, stocked>>
  PROVE  StockInv'
BY DEF StockInv, StockAccounted, RedemptionsOf

LEMMA StockKept ==
  ASSUME IInv, TypeOK', StockInv, [Next]_vars
  PROVE  StockInv'
<1>1. ASSUME NEW p \in Request, Proceed(p)
      PROVE  StockInv'
  BY <1>1, StockCommitted, StockUnmoved
  DEF Proceed, LockReward, LockBalance, Write, LockForRecord, CommitRecord
<1>2. CASE Administer
  BY <1>2, StockAdministered DEF IInv
<1>3. CASE UNCHANGED vars
  BY <1>3, StockUnmoved DEF vars
<1>4. QED
  BY <1>1, <1>2, <1>3, StockUnmoved
  DEF Next, CheckKey, Record, Rollback, StartDailyBonus, CreditBonus, MarkGranted, BonusFails, Crash

\* Every unit that left the stock of a reward is one redemption row.
THEOREM StockIsAccounted == Spec => []StockAccounted
<1>1. Init => IInv /\ StockInv
  <2>1. ASSUME Init PROVE StockInv
    <3>1. \A r \in Reward : RedemptionsOf(r) = {}
      BY <2>1 DEF Init, RedemptionsOf
    <3>2. QED
      BY <2>1, <3>1, FS_EmptySet DEF Init, StockInv, StockAccounted
  <2>2. QED
    BY <2>1, InvariantStarts
<1>2. (IInv /\ StockInv) /\ [Next]_vars => (IInv /\ StockInv)'
  BY InvariantKept, StockKept DEF IInv
<1>3. StockInv => StockAccounted
  BY DEF StockInv
<1>4. QED
  BY <1>1, <1>2, <1>3, PTL DEF Spec

-----------------------------------------------------------------------------
(* The balances and the recorded transactions.                             *)

\* A transaction writes the balance that it computed when it read the row. Still
\* each commit moves the balance by exactly what it records in
\* point_transactions: no update is lost. (The daily bonus is no such commit.)
BalanceMoves ==
  [][\A u \in User :
       \/ balance'[u] - balance[u] = Recorded(u)' - Recorded(u)
       \/ bonus.credited = NoUser /\ bonus'.credited = u]_vars

\* The points of the redemption of each key, if it is u's.
Spent(u) ==
  [k \in Key |-> IF redemptions[k] = NoRow THEN 0
                 ELSE IF redemptions[k].user = u THEN redemptions[k].points ELSE 0]

LEMMA RecordedSplits ==
  ASSUME TypeOK, NEW u \in User
  PROVE  /\ Recorded(u) = net[u] - Total(Spent(u), Key)
         /\ Total(Spent(u), Key) \in Nat /\ net[u] \in Int
         /\ \A k \in Key : Spent(u)[k] \in Nat
<1>1. Recorded(u) = net[u] - Total(Spent(u), Key)
  BY DEF Recorded, Spent
<1>2. \A k \in Key : Spent(u)[k] \in Nat
  BY LedgerAssumption DEF TypeOK, Redemption, Spent
<1>3. Total(Spent(u), Key) \in Nat
  BY <1>2, LedgerAssumption, TotalNat
<1>4. QED
  BY <1>1, <1>2, <1>3 DEF TypeOK

\* A step that leaves the redemptions alone moves the balance by what it adds to
\* the other transactions.
LEMMA BalanceMovesAsNet ==
  ASSUME TypeOK, TypeOK', NEW u \in User, redemptions' = redemptions,
         balance'[u] - balance[u] = net'[u] - net[u]
  PROVE  balance'[u] - balance[u] = Recorded(u)' - Recorded(u)
<1>1. Spent(u)' = Spent(u)
  BY DEF Spent
<1>2. /\ Recorded(u) = net[u] - Total(Spent(u), Key)
      /\ Recorded(u)' = net'[u] - Total(Spent(u)', Key)
  BY RecordedSplits DEF Recorded, Spent
<1>3. Total(Spent(u), Key) \in Nat /\ net[u] \in Int /\ net'[u] \in Int
  BY RecordedSplits DEF TypeOK
<1>4. QED
  BY <1>1, <1>2, <1>3

LEMMA RedemptionMoves ==
  ASSUME IInv, TypeOK', NEW p \in Request, CommitRedemption(p), NEW u \in User
  PROVE  balance'[u] - balance[u] = Recorded(u)' - Recorded(u)
<1>1. PICK t \in Redeeming : t = txn[p]
  BY StepTypes DEF IInv, CommitRedemption
<1>2. /\ t.user \in User /\ t.key \in Key /\ t.points \in Nat
      /\ t.before = balance[t.user] /\ redemptions[t.key] = NoRow
  <2>1. Current(p) /\ txn[p].step = "written"
    BY DEF IInv, CommitRedemption, ReadsCurrent
  <2>2. QED
    BY <1>1, <2>1, LedgerAssumption DEF Current, HoldsKey, Redeeming
<1>3. /\ balance' = [balance EXCEPT ![t.user] = t.before - t.points]
      /\ redemptions' = [redemptions EXCEPT ![t.key] =
                           [user |-> t.user, reward |-> t.reward, points |-> t.points]]
      /\ net' = net
  BY <1>1 DEF CommitRedemption
<1>4. [user |-> t.user, reward |-> t.reward, points |-> t.points] # NoRow
  <2>1. t.points \in 1..MaxBalance
    <3>1. t.points > 0 /\ t.points \in 0..MaxBalance
      BY <1>1 DEF IInv, CommitRedemption, ReadsCurrent, Current, HoldsKey, Redeeming
    <3>2. QED
      BY <3>1, LedgerAssumption
  <2>2. QED
    BY <2>1, LedgerAssumption DEF Redemption, Redeeming
<1>5. /\ \A k \in Key \ {t.key} : redemptions'[k] = redemptions[k]
      /\ redemptions'[t.key] = [user |-> t.user, reward |-> t.reward, points |-> t.points]
  BY <1>2, <1>3 DEF IInv, TypeOK
<1>6. /\ \A k \in Key \ {t.key} : Spent(u)'[k] = Spent(u)[k]
      /\ Spent(u)[t.key] = 0
      /\ Spent(u)'[t.key] = IF t.user = u THEN t.points ELSE 0
  BY <1>2, <1>4, <1>5 DEF Spent
<1>7. /\ \A k \in Key : Spent(u)[k] \in Nat
      /\ \A k \in Key : Spent(u)'[k] \in Nat
  <2>1. \A k \in Key : Spent(u)[k] \in Nat
    BY RecordedSplits DEF IInv
  <2>2. QED
    BY <1>2, <1>6, <2>1
<1>8. Total(Spent(u)', Key) = Total(Spent(u), Key) - Spent(u)[t.key] + Spent(u)'[t.key]
  BY <1>2, <1>6, <1>7, TotalChange, LedgerAssumption
<1>9. Recorded(u)' = net'[u] - Total(Spent(u)', Key)
  BY DEF Recorded, Spent
<1>10. /\ Recorded(u) = net[u] - Total(Spent(u), Key)
       /\ Total(Spent(u), Key) \in Nat /\ net[u] \in Int
  BY RecordedSplits DEF IInv
<1>11. Recorded(u)' - Recorded(u) = IF t.user = u THEN -t.points ELSE 0
  BY <1>2, <1>3, <1>6, <1>8, <1>9, <1>10
<1>12. balance'[u] - balance[u] = IF t.user = u THEN -t.points ELSE 0
  BY <1>2, <1>3, LedgerAssumption DEF IInv, TypeOK
<1>13. QED
  BY <1>11, <1>12

LEMMA RecordMoves ==
  ASSUME IInv, TypeOK', NEW p \in Request, CommitRecord(p), NEW u \in User
  PROVE  balance'[u] - balance[u] = Recorded(u)' - Recorded(u)
<1>1. PICK t \in Recording : t = txn[p]
  BY StepTypes DEF IInv, CommitRecord
<1>2. t.user \in User /\ t.delta \in Int /\ t.before = balance[t.user]
  <2>1. Current(p) /\ txn[p].step = "recording"
    BY DEF IInv, CommitRecord, ReadsCurrent
  <2>2. QED
    BY <1>1, <2>1, DeltaNumbers DEF Current, Recording
<1>3. /\ balance' = [balance EXCEPT ![t.user] = t.before + t.delta]
      /\ net' = [net EXCEPT ![t.user] = @ + t.delta]
      /\ redemptions' = redemptions
  BY <1>1 DEF CommitRecord
<1>4. balance'[u] - balance[u] = net'[u] - net[u]
  BY <1>2, <1>3, LedgerAssumption DEF IInv, TypeOK
<1>5. QED
  BY <1>3, <1>4, BalanceMovesAsNet DEF IInv

LEMMA NothingMoves ==
  ASSUME TypeOK, TypeOK', NEW u \in User, UNCHANGED <<balance, redemptions, net>>
  PROVE  balance'[u] - balance[u] = Recorded(u)' - Recorded(u)
<1>1. balance'[u] - balance[u] = net'[u] - net[u]
  BY LedgerAssumption DEF TypeOK
<1>2. QED
  BY <1>1, BalanceMovesAsNet

LEMMA BonusMoves ==
  ASSUME TypeOK, TypeOK', NEW v \in User, CreditBonus(v), NEW u \in User
  PROVE  \/ balance'[u] - balance[u] = Recorded(u)' - Recorded(u)
         \/ bonus.credited = NoUser /\ bonus'.credited = u
<1>1. CASE u = v
  BY <1>1 DEF TypeOK, CreditBonus
<1>2. CASE u # v
  <2>1. balance'[u] - balance[u] = net'[u] - net[u]
    BY <1>2, LedgerAssumption DEF TypeOK, CreditBonus
  <2>2. QED
    BY <2>1, BalanceMovesAsNet DEF CreditBonus
<1>3. QED
  BY <1>1, <1>2

LEMMA StepMovesBalances ==
  ASSUME IInv, TypeOK', Next, NEW u \in User
  PROVE  \/ balance'[u] - balance[u] = Recorded(u)' - Recorded(u)
         \/ bonus.credited = NoUser /\ bonus'.credited = u
<1>1. ASSUME NEW p \in Request, Proceed(p)
      PROVE  balance'[u] - balance[u] = Recorded(u)' - Recorded(u)
  BY <1>1, RedemptionMoves, RecordMoves, NothingMoves
  DEF IInv, Proceed, LockReward, LockBalance, Write, LockForRecord
<1>2. ASSUME Administer
      PROVE  balance'[u] - balance[u] = Recorded(u)' - Recorded(u)
  BY <1>2, NothingMoves DEF IInv, Administer, CreateReward, UpdateReward, DeleteReward
<1>3. QED
  BY <1>1, <1>2, NothingMoves, BonusMoves
  DEF IInv, Next, CheckKey, Record, Rollback, StartDailyBonus, MarkGranted, BonusFails, Crash

\* Each commit moves the balance by exactly what it records, although it writes
\* the balance it computed when it read the row: no update is lost.
THEOREM CommitsMoveBalances == Spec => BalanceMoves
<1>1. Init => IInv
  BY InvariantStarts
<1>2. IInv /\ [Next]_vars => IInv'
  BY InvariantKept
<1>3. IInv /\ IInv' /\ [Next]_vars =>
        [\A u \in User :
           \/ balance'[u] - balance[u] = Recorded(u)' - Recorded(u)
           \/ bonus.credited = NoUser /\ bonus'.credited = u]_vars
  BY StepMovesBalances DEF IInv
<1>4. QED
  BY <1>1, <1>2, <1>3, PTL DEF Spec, BalanceMoves

-----------------------------------------------------------------------------
(* Each step of the ledger is one of AtomicLedger, or changes no table.    *)

LEMMA RedemptionIsAtomic ==
  ASSUME IInv, NEW p \in Request, CommitRedemption(p)
  PROVE  Atomic!Next
<1>1. PICK t \in Redeeming : t = txn[p] /\ t.step = "written"
  BY StepTypes DEF IInv, CommitRedemption
<1>2. /\ t.user \in User /\ t.reward \in Reward /\ t.key \in Key
      /\ t.points \in 0..MaxBalance
  BY <1>1 DEF Redeeming
<1>3. /\ rewards[t.reward].status = "active" /\ rewards[t.reward].stock > 0
      /\ t.points = rewards[t.reward].cost
      /\ t.before = balance[t.user] /\ t.points <= t.before
      /\ t.points > 0 /\ redemptions[t.key] = NoRow
  BY <1>1 DEF IInv, ReadsCurrent, Current, HoldsReward, HoldsKey
<1>4. rewards[t.reward].cost \in 1..balance[t.user]
  BY <1>2, <1>3, LedgerAssumption DEF IInv, TypeOK
<1>5. Atomic!Redeem(t.user, t.reward, t.key)
  BY <1>1, <1>3, <1>4 DEF CommitRedemption, Atomic!Redeem
<1>6. QED
  BY <1>2, <1>5 DEF Atomic!Next

LEMMA RecordIsAtomic ==
  ASSUME IInv, NEW p \in Request, CommitRecord(p)
  PROVE  Atomic!Next
<1>1. PICK t \in Recording : t = txn[p] /\ t.step = "recording"
  BY StepTypes DEF IInv, CommitRecord
<1>2. t.user \in User /\ t.delta \in Deltas
  BY <1>1 DEF Recording
<1>3. t.before = balance[t.user] /\ t.before + t.delta \in 0..MaxBalance
  BY <1>1 DEF IInv, ReadsCurrent, Current
<1>4. Atomic!Record(t.user, t.delta)
  BY <1>1, <1>3 DEF CommitRecord, Atomic!Record
<1>5. QED
  BY <1>2, <1>4 DEF Atomic!Next

LEMMA AdministerIsAtomic ==
  ASSUME Administer
  PROVE  Atomic!Next
<1>1. PICK r \in Reward :
        \/ \E c \in Costs, n \in Stocks, a \in BOOLEAN : CreateReward(r, c, n, a)
        \/ \E c \in Costs \cup {rewards[r].cost}, n \in Stocks \cup {rewards[r].stock},
              a \in BOOLEAN : UpdateReward(r, c, n, a)
        \/ DeleteReward(r)
  BY DEF Administer
<1>2. ASSUME NEW c \in Costs, NEW n \in Stocks, NEW a \in BOOLEAN, CreateReward(r, c, n, a)
      PROVE  Atomic!PutReward(r, c, n, a)
  BY <1>2 DEF CreateReward, Atomic!PutReward
<1>3. ASSUME NEW c, NEW n, NEW a \in BOOLEAN, UpdateReward(r, c, n, a)
      PROVE  Atomic!PutReward(r, c, n, a)
  BY <1>3 DEF UpdateReward, Atomic!PutReward
<1>4. DeleteReward(r) => Atomic!DeleteReward(r)
  BY DEF DeleteReward, Atomic!DeleteReward
<1>5. QED
  BY <1>1, <1>2, <1>3, <1>4 DEF Atomic!Next

LEMMA StepIsAtomic ==
  ASSUME IInv, [Next]_vars
  PROVE  [Atomic!Next]_Atomic!ledger
<1>1. ASSUME NEW p \in Request, Proceed(p)
      PROVE  [Atomic!Next]_Atomic!ledger
  BY <1>1, RedemptionIsAtomic, RecordIsAtomic
  DEF Proceed, LockReward, LockBalance, Write, LockForRecord, Atomic!ledger
<1>2. ASSUME NEW u \in User, CreditBonus(u)
      PROVE  Atomic!Next
  BY <1>2 DEF CreditBonus, Atomic!GrantBonus, Atomic!Next
<1>3. CASE UNCHANGED vars
  BY <1>3 DEF vars, Atomic!ledger
<1>4. QED
  BY <1>1, <1>2, <1>3, AdministerIsAtomic
  DEF Next, CheckKey, Record, Rollback, StartDailyBonus, MarkGranted, BonusFails, Crash,
      Atomic!ledger

\* redemptionRepository.js promises to redeem atomically: although requests read,
\* wait and write in several statements, each redemption, recorded transaction
\* and change by an administrator appears to happen at the moment it commits.
THEOREM LedgerAppearsAtomic == Spec => AppearsAtomic
<1>1. Init => IInv /\ Atomic!Init
  BY InvariantStarts DEF Init, Atomic!Init
<1>2. IInv /\ [Next]_vars => IInv'
  BY InvariantKept
<1>3. IInv /\ [Next]_vars => [Atomic!Next]_Atomic!ledger
  BY StepIsAtomic
<1>4. QED
  BY <1>1, <1>2, <1>3, PTL DEF Spec, AppearsAtomic, Atomic!Spec

=============================================================================
