----------------------------- MODULE NovaRewards -----------------------------
(***************************************************************************)
(* The core rewards contract (contracts/nova-rewards): point balances,     *)
(* staking with a yield, swaps, the three ways to pause it, and the        *)
(* recovery operations with their operation ids.  One action is one        *)
(* invocation; a panic undoes it, so every panic is a guard.  Left out,    *)
(* since nothing below reads it: who signs, the router's address, the name *)
(* of the recovery procedure, and the version counters of an upgrade.      *)
(***************************************************************************)
EXTENDS Integers, TLC, TLAPS

CONSTANTS User,
          Operation,      \* operation ids
          Amounts,        \* i128 arguments
          SetAmounts,     \* arguments of set_balance
          Rates,          \* arguments of set_annual_rate
          Periods,        \* arguments of set_cooldown_period and emergency_pause
          MaxAmount,      \* i128::MAX
          MaxTime,        \* bound on the ledger time explored
          MaxU64,         \* u64::MAX
          BpsDivisor,     \* BASIS_POINTS_DIVISOR and MAX_ANNUAL_RATE_BPS
          SecondsPerYear, \* SECONDS_PER_YEAR
          NoStake,        \* no stake record is stored
          NoSnapshot      \* no snapshot is stored

MinAmount == -MaxAmount - 1

Stake == [amount : 1..MaxAmount, staked_at : 0..MaxTime, last_claimed_at : 0..MaxTime]
Snapshot == [balance : MinAmount..MaxAmount, stake : Stake \cup {NoStake},
             credited : Int, earned : Nat]    \* the last two are history

ASSUME RewardsAssumption ==
  /\ MaxAmount \in Nat \ {0} /\ MaxU64 \in Nat /\ MaxTime \in 0..MaxU64
  /\ Amounts \cup SetAmounts \cup Rates \subseteq MinAmount..MaxAmount
  /\ Periods \subseteq 0..MaxU64
  /\ BpsDivisor \in Nat \ {0} /\ SecondsPerYear \in Nat \ {0}
  /\ NoStake \notin Stake /\ NoSnapshot \notin Snapshot

VARIABLES initialized,  \* DataKey::Admin is stored
          balances,     \* DataKey::Balance(user), unwrap_or(0)
          stakes,       \* DataKey::Stake(user)
          snapshots,    \* DataKey::Snapshot(user)
          operations,   \* the ids stored as DataKey::RecoveryOperation(id)
          annual_rate,  \* DataKey::AnnualRate, unwrap_or(0)
          cooldown,     \* DataKey::CooldownPeriod, unwrap_or(0)
          paused,       \* DataKey::Paused, unwrap_or(false)
          expiry,       \* DataKey::EmergencyPauseExpiry, unwrap_or(0)
          now,          \* env.ledger().timestamp()
          credited,     \* history: what each account was given less what it gave
          overdrawn,    \* history: set_balance has made a balance negative
          earned        \* history: the yield the open stake has been paid

points == <<balances, stakes, credited, overdrawn, earned>>
recovery == <<snapshots, operations>>
config == <<initialized, annual_rate, cooldown>>
pause == <<paused, expiry>>
vars == <<points, recovery, config, pause, now>>

-----------------------------------------------------------------------------
Staked == {u \in User : stakes[u] # NoStake}

\* What calculate_yield, a claim and unstake compute: truncated, at the rate of now.
calculate_yield(u) ==
  IF annual_rate > 0
  THEN (stakes[u].amount * annual_rate * (now - stakes[u].last_claimed_at))
         \div (BpsDivisor * SecondsPerYear)
  ELSE 0

\* Its two multiplications are checked.
YieldComputes(u) ==
  annual_rate > 0 /\ now > stakes[u].last_claimed_at =>
    stakes[u].amount * annual_rate * (now - stakes[u].last_claimed_at) <= MaxAmount

\* The view is_paused: an emergency pause is over when its time is.
is_paused == paused /\ (expiry = 0 \/ now < expiry)

Principal(s) == IF s = NoStake THEN 0 ELSE s.amount

-----------------------------------------------------------------------------
Init ==
  /\ initialized = FALSE
  /\ balances = [u \in User |-> 0]
  /\ stakes = [u \in User |-> NoStake]
  /\ snapshots = [u \in User |-> NoSnapshot]
  /\ operations = {}
  /\ annual_rate = 0 /\ cooldown = 0
  /\ paused = FALSE /\ expiry = 0
  /\ now = 0
  /\ credited = [u \in User |-> 0]
  /\ overdrawn = FALSE
  /\ earned = [u \in User |-> 0]

\* The event configuration's version is not zero.
Initialize ==
  /\ ~initialized
  /\ initialized' = TRUE
  /\ paused' = FALSE
  /\ UNCHANGED <<points, recovery, annual_rate, cooldown, expiry, now>>

-----------------------------------------------------------------------------
Pause ==
  /\ initialized
  /\ paused' = TRUE /\ expiry' = 0
  /\ UNCHANGED <<points, recovery, config, now>>

Unpause ==
  /\ initialized
  /\ paused' = FALSE /\ expiry' = 0
  /\ UNCHANGED <<points, recovery, config, now>>

EmergencyPause(duration) ==
  /\ initialized
  /\ duration > 0
  /\ now + duration <= MaxU64
  /\ paused' = TRUE /\ expiry' = now + duration
  /\ UNCHANGED <<points, recovery, config, now>>

\* The expiry of an earlier emergency pause stays.
PauseForRecovery ==
  /\ initialized
  /\ paused' = TRUE
  /\ UNCHANGED <<points, recovery, config, expiry, now>>

Resume ==
  /\ initialized
  /\ paused' = FALSE
  /\ UNCHANGED <<points, recovery, config, expiry, now>>

-----------------------------------------------------------------------------
SetCooldownPeriod(seconds) ==
  /\ initialized
  /\ cooldown' = seconds
  /\ UNCHANGED <<points, recovery, pause, now, initialized, annual_rate>>

\* Applies to the whole time since the last claim of every open stake.
SetAnnualRate(rate) ==
  /\ initialized
  /\ rate \in 0..BpsDivisor
  /\ annual_rate' = rate
  /\ UNCHANGED <<points, recovery, pause, now, initialized, cooldown>>

\* Described as a test helper, but a public invocation without any guard: it
\* stores any amount, a negative one too.
SetBalance(u, amount) ==
  /\ balances' = [balances EXCEPT ![u] = amount]
  /\ credited' = [credited EXCEPT ![u] = amount + Principal(stakes[u])]
  /\ overdrawn' = (overdrawn \/ amount < 0)
  /\ UNCHANGED <<stakes, earned, recovery, config, pause, now>>

-----------------------------------------------------------------------------
StakePoints(u, amount) ==
  /\ ~paused
  /\ amount > 0
  /\ u \notin Staked
  /\ balances[u] >= amount
  /\ balances' = [balances EXCEPT ![u] = @ - amount]
  /\ stakes' = [stakes EXCEPT ![u] =
                  [amount |-> amount, staked_at |-> now, last_claimed_at |-> now]]
  /\ earned' = [earned EXCEPT ![u] = 0]
  /\ UNCHANGED <<credited, overdrawn, recovery, config, pause, now>>

\* Variant: every claim counts from when the stake was made.
ClaimStakingReward_SinceStaked(u) ==
  /\ ~paused
  /\ u \in Staked
  /\ YieldComputes(u)
  /\ calculate_yield(u) > 0
  /\ balances[u] + calculate_yield(u) <= MaxAmount
  /\ balances' = [balances EXCEPT ![u] = @ + calculate_yield(u)]
  /\ credited' = [credited EXCEPT ![u] = @ + calculate_yield(u)]
  /\ earned' = [earned EXCEPT ![u] = @ + calculate_yield(u)]
  /\ UNCHANGED <<stakes, overdrawn, recovery, config, pause, now>>

\* Variant: the sum is not checked against the i128 maximum.
ClaimStakingReward_Unchecked(u) ==
  /\ ~paused
  /\ u \in Staked
  /\ YieldComputes(u)
  /\ calculate_yield(u) > 0
  /\ balances' = [balances EXCEPT ![u] = @ + calculate_yield(u)]
  /\ stakes' = [stakes EXCEPT ![u].last_claimed_at = now]
  /\ credited' = [credited EXCEPT ![u] = @ + calculate_yield(u)]
  /\ earned' = [earned EXCEPT ![u] = @ + calculate_yield(u)]
  /\ UNCHANGED <<overdrawn, recovery, config, pause, now>>

\* A claim of nothing leaves the time of the last claim alone, so small yields
\* add up to the next claim.
ClaimStakingReward(u) ==
  /\ ~paused
  /\ u \in Staked
  /\ YieldComputes(u)
  /\ calculate_yield(u) > 0
  /\ balances[u] + calculate_yield(u) <= MaxAmount
  /\ balances' = [balances EXCEPT ![u] = @ + calculate_yield(u)]
  /\ stakes' = [stakes EXCEPT ![u].last_claimed_at = now]
  /\ credited' = [credited EXCEPT ![u] = @ + calculate_yield(u)]
  /\ earned' = [earned EXCEPT ![u] = @ + calculate_yield(u)]
  /\ UNCHANGED <<overdrawn, recovery, config, pause, now>>

\* The principal and the yield are added before the balance is.
Unstake(u) ==
  /\ ~paused
  /\ u \in Staked
  /\ cooldown > 0 => /\ stakes[u].staked_at + cooldown <= MaxU64
                     /\ now >= stakes[u].staked_at + cooldown
  /\ YieldComputes(u)
  /\ stakes[u].amount + calculate_yield(u) <= MaxAmount
  /\ balances[u] + stakes[u].amount + calculate_yield(u) <= MaxAmount
  /\ balances' = [balances EXCEPT ![u] = @ + stakes[u].amount + calculate_yield(u)]
  /\ stakes' = [stakes EXCEPT ![u] = NoStake]
  /\ credited' = [credited EXCEPT ![u] = @ + calculate_yield(u)]
  /\ earned' = [earned EXCEPT ![u] = 0]
  /\ UNCHANGED <<overdrawn, recovery, config, pause, now>>

\* Burns points, after set_swap_config; the router pays at least the minimum or
\* the call traps.
SwapForXlm(u, amount) ==
  /\ ~paused
  /\ amount > 0
  /\ balances[u] >= amount
  /\ balances' = [balances EXCEPT ![u] = @ - amount]
  /\ credited' = [credited EXCEPT ![u] = @ - amount]
  /\ UNCHANGED <<stakes, overdrawn, earned, recovery, config, pause, now>>

-----------------------------------------------------------------------------
\* The recovery operations do nothing if their id is recorded, whatever kind of
\* operation recorded it.
SnapshotAccount(u, id) ==
  /\ initialized
  /\ id \notin operations
  /\ snapshots' = [snapshots EXCEPT ![u] =
                     [balance |-> balances[u], stake |-> stakes[u],
                      credited |-> credited[u], earned |-> earned[u]]]
  /\ operations' = operations \cup {id}
  /\ UNCHANGED <<points, config, pause, now>>

\* Variant: the stake is not part of what is restored.
RestoreAccount_BalanceOnly(u, id) ==
  /\ initialized /\ paused
  /\ id \notin operations
  /\ snapshots[u] # NoSnapshot
  /\ balances' = [balances EXCEPT ![u] = snapshots[u].balance]
  /\ credited' = [credited EXCEPT ![u] = snapshots[u].credited]
  /\ operations' = operations \cup {id}
  /\ UNCHANGED <<stakes, overdrawn, earned, snapshots, config, pause, now>>

\* The account is put back where it was, with all that it was given or gave
\* since: points that were swapped away after the snapshot come back too.
RestoreAccount(u, id) ==
  /\ initialized /\ paused
  /\ id \notin operations
  /\ snapshots[u] # NoSnapshot
  /\ balances' = [balances EXCEPT ![u] = snapshots[u].balance]
  /\ stakes' = [stakes EXCEPT ![u] = snapshots[u].stake]
  /\ earned' = [earned EXCEPT ![u] = snapshots[u].earned]
  /\ credited' = [credited EXCEPT ![u] = snapshots[u].credited]
  /\ operations' = operations \cup {id}
  /\ UNCHANGED <<overdrawn, snapshots, config, pause, now>>

\* Variant: the operation id is not looked up.
RecoverTransaction_Replayed(u, delta, id) ==
  /\ initialized /\ paused
  /\ balances[u] + delta \in 0..MaxAmount
  /\ balances' = [balances EXCEPT ![u] = @ + delta]
  /\ credited' = [credited EXCEPT ![u] = @ + delta]
  /\ operations' = operations \cup {id}
  /\ UNCHANGED <<stakes, overdrawn, earned, snapshots, config, pause, now>>

RecoverTransaction(u, delta, id) ==
  /\ initialized /\ paused
  /\ id \notin operations
  /\ balances[u] + delta \in 0..MaxAmount
  /\ balances' = [balances EXCEPT ![u] = @ + delta]
  /\ credited' = [credited EXCEPT ![u] = @ + delta]
  /\ operations' = operations \cup {id}
  /\ UNCHANGED <<stakes, overdrawn, earned, snapshots, config, pause, now>>

\* Both balances are read before either is written: to itself, an account
\* keeps the credit and loses the debit.
RecoverFunds(from, to, amount, id) ==
  /\ initialized /\ paused
  /\ id \notin operations
  /\ amount > 0
  /\ balances[from] >= amount
  /\ balances[to] + amount <= MaxAmount
  /\ balances' = [balances EXCEPT ![from] = @ - amount, ![to] = balances[to] + amount]
  /\ credited' = IF from = to THEN [credited EXCEPT ![to] = @ + amount]
                 ELSE [credited EXCEPT ![from] = @ - amount, ![to] = @ + amount]
  /\ operations' = operations \cup {id}
  /\ UNCHANGED <<stakes, overdrawn, earned, snapshots, config, pause, now>>

\* A ledger closes.
PassTime ==
  /\ now < MaxTime
  /\ now' = now + 1
  /\ UNCHANGED <<points, recovery, config, pause>>

Next ==
  \/ Initialize
  \/ Pause \/ Unpause \/ PauseForRecovery \/ Resume
  \/ \E d \in Periods : EmergencyPause(d)
  \/ \E s \in Periods : SetCooldownPeriod(s)
  \/ \E r \in Rates : SetAnnualRate(r)
  \/ \E u \in User, n \in SetAmounts : SetBalance(u, n)
  \/ \E u \in User, n \in Amounts : StakePoints(u, n) \/ SwapForXlm(u, n)
  \/ \E u \in User : ClaimStakingReward(u) \/ Unstake(u)
  \/ \E u \in User, id \in Operation : SnapshotAccount(u, id) \/ RestoreAccount(u, id)
  \/ \E u \in User, n \in Amounts, id \in Operation : RecoverTransaction(u, n, id)
  \/ \E u, v \in User, n \in Amounts, id \in Operation : RecoverFunds(u, v, n, id)
  \/ PassTime

Spec == Init /\ [][Next]_vars

-----------------------------------------------------------------------------
\* The stored values have the types the contract stores: no sum leaves its i128.
TypeOK ==
  /\ initialized \in BOOLEAN
  /\ balances \in [User -> MinAmount..MaxAmount]
  /\ stakes \in [User -> Stake \cup {NoStake}]
  /\ snapshots \in [User -> Snapshot \cup {NoSnapshot}]
  /\ operations \subseteq Operation
  /\ annual_rate \in 0..BpsDivisor /\ cooldown \in 0..MaxU64
  /\ paused \in BOOLEAN /\ expiry \in 0..MaxU64
  /\ now \in 0..MaxTime
  /\ credited \in [User -> Int] /\ overdrawn \in BOOLEAN /\ earned \in [User -> Nat]

\* What an account has, staked or not, is what it was given less what it gave: set,
\* earned, swapped and recovered points.  A restore puts it back to what it had been
\* given when the snapshot was taken, so no order of staking, claiming, unstaking,
\* snapshots and restores loses a stake, or leaves one beside the points it was paid
\* back as.  And only set_balance can make a balance negative.
PointsAccounted ==
  \A u \in User :
    /\ balances[u] + Principal(stakes[u]) = credited[u]
    /\ balances[u] < 0 => overdrawn

\* However claims, rate changes, snapshots and restores are ordered, what a
\* stake has earned and would be paid now stays within the maximum annual rate
\* over the time since it was made.  A stake that is restored has earned what it had
\* when its snapshot was taken.
YieldBounded ==
  \A u \in Staked :
    (earned[u] + calculate_yield(u)) * SecondsPerYear
      <= stakes[u].amount * (now - stakes[u].staked_at)

\* While the contract is paused, balances and stakes change only by a recovery
\* operation that was never applied before (or by set_balance): a retry of an
\* operation id changes nothing.
RecoveryRecorded ==
  [][paused /\ <<balances, stakes>>' # <<balances, stakes>> =>
       \/ operations' # operations
       \/ \E u \in User, n \in SetAmounts : SetBalance(u, n)]_vars

\* The comment of emergency_pause: the contract unpauses itself when the time
\* is over, so users are never held up when is_paused denies a pause.
PauseEnds == paused => is_paused

-----------------------------------------------------------------------------
(* Proofs, for any users, operations, amounts, rates and times.            *)

\* The yield of an amount over a time, at a rate that is at most the divisor.
LEMMA YieldOfShare ==
  ASSUME NEW a \in Nat, NEW r \in Nat, NEW t \in Nat,
         NEW b \in Nat \ {0}, NEW y \in Nat \ {0}, r <= b
  PROVE  /\ (a * r * t) \div (b * y) \in Nat
         /\ ((a * r * t) \div (b * y)) * y <= a * t
<1> DEFINE n == a * r * t  d == b * y  q == n \div d
<1>1. n \in Nat /\ d \in Nat \ {0}
  BY SMT
<1> HIDE DEF n, d
<1>2. q \in Nat /\ q * d <= n
  BY <1>1, SMT
<1> HIDE DEF q
<1>3. n <= (a * t) * b
  <2>1. a * t \in Nat /\ n = (a * t) * r
    BY SMT DEF n
  <2>2. (a * t) * r <= (a * t) * b
    BY <2>1, SMT
  <2>3. QED
    BY <2>1, <2>2
<1>4. q * d = (q * y) * b
  BY <1>2, SMT DEF d
<1>5. q * y \in Nat /\ a * t \in Nat
  BY <1>2, SMT
<1>6. q * y <= a * t
  <2> DEFINE x == q * y  z == a * t
  <2>1. x \in Nat /\ z \in Nat /\ x * b <= z * b
    BY <1>1, <1>2, <1>3, <1>4, <1>5, SMT
  <2> HIDE DEF x, z
  <2>2. x <= z
    BY <2>1, SMT
  <2>3. QED
    BY <2>2 DEF x, z
<1>7. QED
  BY <1>2, <1>6 DEF q, n, d

\* What the claims of a stake have paid is within the yield of the time up to
\* the last of them, which is not after now.
Bounded(s, e) ==
  /\ s.staked_at <= s.last_claimed_at /\ s.last_claimed_at <= now
  /\ e * SecondsPerYear <= s.amount * (s.last_claimed_at - s.staked_at)

\* It holds of the open stakes and of those that a restore can bring back.
StakesBounded == \A u \in Staked : Bounded(stakes[u], earned[u])
SnapshotsBounded ==
  \A u \in User : snapshots[u] # NoSnapshot /\ snapshots[u].stake # NoStake =>
    Bounded(snapshots[u].stake, snapshots[u].earned)

\* What a restore can bring back was accounted for when the snapshot was taken.
SnapshotsAccounted ==
  \A u \in User : snapshots[u] # NoSnapshot =>
    /\ snapshots[u].balance + Principal(snapshots[u].stake) = snapshots[u].credited
    /\ snapshots[u].balance < 0 => overdrawn

\* The inductive invariant.
RewardsInv ==
  TypeOK /\ PointsAccounted /\ StakesBounded /\ SnapshotsBounded /\ SnapshotsAccounted

-----------------------------------------------------------------------------
\* What an open stake would be paid now.
LEMMA YieldOfStake ==
  ASSUME TypeOK, NEW u \in Staked, stakes[u].last_claimed_at <= now
  PROVE  /\ stakes[u] \in Stake
         /\ calculate_yield(u) \in Nat
         /\ calculate_yield(u) * SecondsPerYear
              <= stakes[u].amount * (now - stakes[u].last_claimed_at)
<1> DEFINE s == stakes[u]  t == now - s.last_claimed_at
<1>1. s \in Stake /\ u \in User
  BY DEF TypeOK, Staked
<1>2. s.amount \in Nat /\ t \in Nat /\ annual_rate \in Nat /\ annual_rate <= BpsDivisor
      /\ BpsDivisor \in Nat \ {0} /\ SecondsPerYear \in Nat \ {0}
  BY <1>1, RewardsAssumption DEF TypeOK, Stake
<1>3. CASE annual_rate > 0
  <2>1. calculate_yield(u) = (s.amount * annual_rate * t) \div (BpsDivisor * SecondsPerYear)
    BY <1>3 DEF calculate_yield
  <2> HIDE DEF s, t
  <2>2. /\ (s.amount * annual_rate * t) \div (BpsDivisor * SecondsPerYear) \in Nat
        /\ ((s.amount * annual_rate * t) \div (BpsDivisor * SecondsPerYear)) * SecondsPerYear
             <= s.amount * t
    BY <1>2, YieldOfShare, Zenon
  <2>3. /\ calculate_yield(u) \in Nat
        /\ calculate_yield(u) * SecondsPerYear <= s.amount * t
    BY <2>1, <2>2, Zenon
  <2>4. QED
    BY <1>1, <2>3 DEF s, t
<1>4. CASE ~(annual_rate > 0)
  <2>1. calculate_yield(u) = 0
    BY <1>4 DEF calculate_yield
  <2> HIDE DEF s, t
  <2>2. 0 <= s.amount * t
    BY <1>2, SMT
  <2>3. 0 * SecondsPerYear = 0
    BY <1>2
  <2>4. calculate_yield(u) * SecondsPerYear <= s.amount * t
    BY <2>1, <2>2, <2>3
  <2>5. QED
    BY <1>1, <2>1, <2>4 DEF s, t
<1>5. QED
  BY <1>3, <1>4

\* No amount leaves the integers.
LEMMA Amount128 == MinAmount..MaxAmount \subseteq Int /\ 0..MaxAmount \subseteq MinAmount..MaxAmount
BY RewardsAssumption DEF MinAmount

LEMMA PrincipalNat == \A s \in Stake \cup {NoStake} : Principal(s) \in 0..MaxAmount
BY RewardsAssumption DEF Principal, Stake

\* Nobody's points move, and no snapshot.
LEMMA PointsUnmoved ==
  ASSUME PointsAccounted, SnapshotsAccounted, UNCHANGED <<points, snapshots>>
  PROVE  PointsAccounted' /\ SnapshotsAccounted'
BY DEF PointsAccounted, SnapshotsAccounted, points

\* Time passes, but no stake, claim or snapshot changes.
LEMMA BoundsLast ==
  ASSUME TypeOK, StakesBounded, SnapshotsBounded, UNCHANGED <<stakes, earned, snapshots>>,
         now' \in {now, now + 1}
  PROVE  StakesBounded' /\ SnapshotsBounded'
<1>1. ASSUME NEW s \in Stake, NEW e, Bounded(s, e)
      PROVE  Bounded(s, e)'
  <2>1. now \in Nat /\ s.last_claimed_at \in Nat
    BY RewardsAssumption DEF TypeOK, Stake
  <2>2. s.last_claimed_at <= now'
    BY <1>1, <2>1 DEF Bounded
  <2>3. QED
    BY <1>1, <2>2 DEF Bounded
<1>2. StakesBounded'
  <2>1. ASSUME NEW u \in Staked PROVE Bounded(stakes[u], earned[u])'
    BY <1>1 DEF StakesBounded, TypeOK, Staked, Bounded
  <2>2. QED
    BY <2>1 DEF StakesBounded, Staked, Bounded
<1>3. SnapshotsBounded'
  <2>1. ASSUME NEW u \in User, snapshots[u] # NoSnapshot, snapshots[u].stake # NoStake
        PROVE  Bounded(snapshots[u].stake, snapshots[u].earned)'
    <3>1. snapshots[u].stake \in Stake
      BY <2>1 DEF TypeOK, Snapshot
    <3>2. Bounded(snapshots[u].stake, snapshots[u].earned)
      BY <2>1 DEF SnapshotsBounded
    <3>3. QED
      BY <1>1, <3>1, <3>2 DEF Bounded
  <2>2. QED
    BY <2>1 DEF SnapshotsBounded, Bounded
<1>4. QED
  BY <1>2, <1>3

\* One stake changes, and keeps to its bound.
LEMMA OneStakeMoves ==
  ASSUME TypeOK, StakesBounded, SnapshotsBounded, NEW u \in User,
         \A v \in User \ {u} : stakes'[v] = stakes[v] /\ earned'[v] = earned[v],
         stakes'[u] # NoStake => Bounded(stakes'[u], earned'[u]),
         UNCHANGED <<snapshots, now>>
  PROVE  StakesBounded' /\ SnapshotsBounded'
<1>1. StakesBounded'
  <2>1. ASSUME NEW v \in User, stakes'[v] # NoStake PROVE Bounded(stakes'[v], earned'[v])
    BY <2>1 DEF StakesBounded, Staked
  <2>2. QED
    BY <2>1 DEF StakesBounded, Staked, Bounded
<1>2. SnapshotsBounded'
  BY DEF SnapshotsBounded, Bounded
<1>3. QED
  BY <1>1, <1>2

-----------------------------------------------------------------------------
(* One lemma per kind of invocation. *)

\* Configuration, the pauses and time.
LEMMA ConfigurationKeeps ==
  ASSUME RewardsInv,
         \/ Initialize \/ Pause \/ Unpause \/ PauseForRecovery \/ Resume \/ PassTime
         \/ \E d \in Periods : EmergencyPause(d)
         \/ \E d \in Periods : SetCooldownPeriod(d)
         \/ \E r \in Rates : SetAnnualRate(r)
  PROVE  RewardsInv'
<1> USE DEF RewardsInv
<1>1. UNCHANGED points /\ snapshots' = snapshots /\ now' \in {now, now + 1}
  BY DEF Initialize, Pause, Unpause, PauseForRecovery, Resume, PassTime, EmergencyPause,
         SetCooldownPeriod, SetAnnualRate, points, recovery
<1>2. TypeOK'
  <2>1. CASE Initialize \/ Pause \/ Unpause \/ PauseForRecovery \/ Resume
    <3>1. /\ UNCHANGED <<points, recovery, annual_rate, cooldown, now>>
          /\ initialized' \in {initialized, TRUE} /\ paused' \in {FALSE, TRUE}
          /\ expiry' \in {expiry, 0}
      BY <2>1 DEF Initialize, Pause, Unpause, PauseForRecovery, Resume, config, pause
    <3>2. 0 \in 0..MaxU64
      BY RewardsAssumption
    <3>3. QED
      BY <3>1, <3>2 DEF TypeOK, points, recovery
  <2>2. CASE PassTime
    BY <2>2, RewardsAssumption DEF TypeOK, PassTime, points, recovery, config, pause
  <2>3. ASSUME NEW d \in Periods, EmergencyPause(d)
        PROVE  TypeOK'
    <3>1. now + d \in 0..MaxU64
      BY <2>3, RewardsAssumption DEF TypeOK, EmergencyPause
    <3>2. QED
      BY <2>3, <3>1 DEF TypeOK, EmergencyPause, points, recovery, config
  <2>4. ASSUME NEW d \in Periods, SetCooldownPeriod(d)
        PROVE  TypeOK'
    BY <2>4, RewardsAssumption DEF TypeOK, SetCooldownPeriod, points, recovery, pause
  <2>5. ASSUME NEW r \in Rates, SetAnnualRate(r)
        PROVE  TypeOK'
    BY <2>5 DEF TypeOK, SetAnnualRate, points, recovery, pause
  <2>6. QED
    BY <2>1, <2>2, <2>3, <2>4, <2>5
<1>3. PointsAccounted' /\ SnapshotsAccounted'
  BY <1>1, PointsUnmoved
<1>4. StakesBounded' /\ SnapshotsBounded'
  BY <1>1, BoundsLast DEF points
<1>5. QED
  BY <1>2, <1>3, <1>4

\* An invocation that writes the balance and the stake of one account.
LEMMA OneAccountKeeps ==
  ASSUME RewardsInv, NEW u \in User,
         NEW n \in MinAmount..MaxAmount, NEW s \in Stake \cup {NoStake}, NEW e \in Nat,
         NEW c \in Int, n + Principal(s) = c,
         s # NoStake => Bounded(s, e),
         n < 0 => overdrawn',
         overdrawn => overdrawn', overdrawn' \in BOOLEAN,
         balances' = [balances EXCEPT ![u] = n],
         stakes' = [stakes EXCEPT ![u] = s],
         earned' = [earned EXCEPT ![u] = e],
         credited' = [credited EXCEPT ![u] = c],
         operations' \subseteq Operation,
         UNCHANGED <<snapshots, config, pause, now>>
  PROVE  RewardsInv'
<1>1. /\ balances \in [User -> MinAmount..MaxAmount] /\ stakes \in [User -> Stake \cup {NoStake}]
      /\ earned \in [User -> Nat] /\ credited \in [User -> Int]
  BY DEF RewardsInv, TypeOK
<1>2. /\ balances'[u] = n /\ stakes'[u] = s /\ earned'[u] = e /\ credited'[u] = c
      /\ \A v \in User \ {u} : /\ balances'[v] = balances[v] /\ stakes'[v] = stakes[v]
                               /\ earned'[v] = earned[v] /\ credited'[v] = credited[v]
  BY <1>1
<1>3. TypeOK'
  <2>1. /\ balances' \in [User -> MinAmount..MaxAmount] /\ stakes' \in [User -> Stake \cup {NoStake}]
        /\ earned' \in [User -> Nat] /\ credited' \in [User -> Int]
    BY <1>1
  <2>2. QED
    BY <2>1 DEF RewardsInv, TypeOK, config, pause
<1>4. PointsAccounted'
  <2>1. ASSUME NEW v \in User
        PROVE  /\ balances'[v] + Principal(stakes'[v]) = credited'[v]
               /\ balances'[v] < 0 => overdrawn'
    <3>1. CASE v = u
      BY <1>2, <3>1
    <3>2. CASE v # u
      <4>1. /\ balances'[v] = balances[v] /\ stakes'[v] = stakes[v] /\ credited'[v] = credited[v]
        BY <1>2, <3>2
      <4>2. /\ balances[v] + Principal(stakes[v]) = credited[v]
            /\ balances[v] < 0 => overdrawn
        BY DEF RewardsInv, PointsAccounted
      <4>3. QED
        BY <4>1, <4>2
    <3>3. QED
      BY <3>1, <3>2
  <2>2. QED
    BY <2>1 DEF PointsAccounted, Principal
<1>5. StakesBounded' /\ SnapshotsBounded'
  BY <1>2, OneStakeMoves DEF RewardsInv
<1>6. SnapshotsAccounted'
  BY DEF RewardsInv, SnapshotsAccounted, Principal
<1>7. QED
  BY <1>3, <1>4, <1>5, <1>6 DEF RewardsInv

\* set_balance, a swap and recover_transaction write one balance.
LEMMA OneBalanceKeeps ==
  ASSUME RewardsInv, NEW u \in User, NEW n \in MinAmount..MaxAmount, NEW c \in Int,
         balances' = [balances EXCEPT ![u] = n],
         credited' = [credited EXCEPT ![u] = c],
         n + Principal(stakes[u]) = c,
         n < 0 => overdrawn',
         overdrawn => overdrawn', overdrawn' \in BOOLEAN,
         operations' \subseteq Operation,
         UNCHANGED <<stakes, earned, snapshots, config, pause, now>>
  PROVE  RewardsInv'
<1>1. /\ stakes[u] \in Stake \cup {NoStake} /\ earned[u] \in Nat
      /\ stakes' = [stakes EXCEPT ![u] = stakes[u]]
      /\ earned' = [earned EXCEPT ![u] = earned[u]]
  BY DEF RewardsInv, TypeOK
<1>2. stakes[u] # NoStake => Bounded(stakes[u], earned[u])
  BY DEF RewardsInv, StakesBounded, Staked
<1>3. QED
  BY <1>1, <1>2, OneAccountKeeps

LEMMA BalanceWritesKeep ==
  ASSUME RewardsInv, NEW u \in User, NEW n \in Int,
         \/ n \in SetAmounts /\ SetBalance(u, n)
         \/ SwapForXlm(u, n)
         \/ \E id \in Operation : RecoverTransaction(u, n, id)
  PROVE  RewardsInv'
<1> DEFINE p == Principal(stakes[u])
<1>1. /\ balances \in [User -> MinAmount..MaxAmount] /\ credited \in [User -> Int]
      /\ operations \subseteq Operation /\ overdrawn \in BOOLEAN
      /\ balances[u] \in Int /\ p \in Int /\ balances[u] + p = credited[u]
  BY Amount128, PrincipalNat DEF RewardsInv, TypeOK, PointsAccounted
<1>2. CASE n \in SetAmounts /\ SetBalance(u, n)
  <2>1. /\ n \in MinAmount..MaxAmount /\ n + p \in Int
        /\ balances' = [balances EXCEPT ![u] = n]
        /\ credited' = [credited EXCEPT ![u] = n + p]
        /\ operations' \subseteq Operation
        /\ UNCHANGED <<stakes, earned, snapshots, config, pause, now>>
    BY <1>1, <1>2, RewardsAssumption DEF SetBalance, recovery
  <2>2. /\ n < 0 => overdrawn'
        /\ overdrawn => overdrawn'
        /\ overdrawn' \in BOOLEAN
    <3>1. overdrawn' = (overdrawn \/ n < 0)
      BY <1>2, Zenon DEF SetBalance
    <3>2. QED
      BY <3>1, Zenon
  <2>3. QED
    BY <2>1, <2>2, OneBalanceKeeps
<1>3. CASE SwapForXlm(u, n)
  <2>1. /\ balances[u] - n \in 0..MaxAmount /\ credited[u] - n \in Int
        /\ balances' = [balances EXCEPT ![u] = balances[u] - n]
        /\ credited' = [credited EXCEPT ![u] = credited[u] - n]
        /\ operations' \subseteq Operation /\ overdrawn' = overdrawn
        /\ UNCHANGED <<stakes, earned, snapshots, config, pause, now>>
    BY <1>1, <1>3, RewardsAssumption DEF SwapForXlm, recovery, RewardsInv, TypeOK
  <2>2. /\ balances[u] - n \in MinAmount..MaxAmount /\ ~(balances[u] - n < 0)
        /\ (balances[u] - n) + p = credited[u] - n
    BY <1>1, <2>1, Amount128
  <2>3. QED
    BY <1>1, <2>1, <2>2, OneBalanceKeeps
<1>4. ASSUME NEW id \in Operation, RecoverTransaction(u, n, id)
      PROVE  RewardsInv'
  <2>1. /\ balances[u] + n \in 0..MaxAmount /\ credited[u] + n \in Int
        /\ balances' = [balances EXCEPT ![u] = balances[u] + n]
        /\ credited' = [credited EXCEPT ![u] = credited[u] + n]
        /\ operations' \subseteq Operation /\ overdrawn' = overdrawn
        /\ UNCHANGED <<stakes, earned, snapshots, config, pause, now>>
    BY <1>1, <1>4 DEF RecoverTransaction
  <2>2. /\ balances[u] + n \in MinAmount..MaxAmount /\ ~(balances[u] + n < 0)
        /\ (balances[u] + n) + p = credited[u] + n
    BY <1>1, <2>1, Amount128
  <2>3. QED
    BY <1>1, <2>1, <2>2, OneBalanceKeeps
<1>5. QED
  BY <1>2, <1>3, <1>4

\* recover_funds moves points from one account to another; to itself, an account
\* gains them.
LEMMA RecoverFundsKeeps ==
  ASSUME RewardsInv, NEW u \in User, NEW v \in User, NEW n \in Amounts, NEW id \in Operation,
         RecoverFunds(u, v, n, id)
  PROVE  RewardsInv'
<1>1. /\ balances \in [User -> MinAmount..MaxAmount] /\ credited \in [User -> Int]
      /\ operations' \subseteq Operation /\ overdrawn' = overdrawn /\ overdrawn \in BOOLEAN
      /\ n > 0 /\ balances[u] >= n /\ balances[v] + n <= MaxAmount
      /\ balances' = [balances EXCEPT ![u] = @ - n, ![v] = balances[v] + n]
      /\ UNCHANGED <<stakes, earned, snapshots, config, pause, now>>
  BY DEF RewardsInv, TypeOK, RecoverFunds
<1>2. n \in Int /\ MaxAmount \in Nat /\ MinAmount \in Int
  BY RewardsAssumption DEF MinAmount
<1>3. ASSUME NEW w \in User
      PROVE  /\ balances[w] \in Int /\ MinAmount <= balances[w] /\ balances[w] <= MaxAmount
             /\ Principal(stakes[w]) \in Int /\ credited[w] \in Int
             /\ balances[w] + Principal(stakes[w]) = credited[w]
             /\ balances[w] < 0 => overdrawn
  BY <1>1, <1>2, PrincipalNat DEF RewardsInv, TypeOK, PointsAccounted
<1>4. balances[v] + n \in MinAmount..MaxAmount
  BY <1>1, <1>2, <1>3
<1>5. CASE u = v
  <2>1. /\ balances' = [balances EXCEPT ![v] = balances[v] + n]
        /\ credited' = [credited EXCEPT ![v] = credited[v] + n]
    BY <1>1, <1>5, Zenon DEF RecoverFunds
  <2>2. /\ credited[v] + n \in Int /\ (balances[v] + n) + Principal(stakes[v]) = credited[v] + n
        /\ balances[v] + n < 0 => overdrawn
    BY <1>1, <1>2, <1>3
  <2>3. QED
    BY <1>1, <1>4, <2>1, <2>2, OneBalanceKeeps
<1>6. CASE u # v
  <2>1. /\ balances'[u] = balances[u] - n /\ balances'[v] = balances[v] + n
        /\ \A w \in User \ {u, v} : balances'[w] = balances[w]
        /\ balances[u] - n \in 0..MaxAmount
    BY <1>1, <1>2, <1>3, <1>6
  <2>2. credited' = [credited EXCEPT ![u] = @ - n, ![v] = @ + n]
    BY <1>6 DEF RecoverFunds
  <2>3. /\ credited'[u] = credited[u] - n /\ credited'[v] = credited[v] + n
        /\ \A w \in User \ {u, v} : credited'[w] = credited[w]
        /\ credited' \in [User -> Int]
    BY <1>1, <1>2, <1>6, <2>2
  <2>4. balances' \in [User -> MinAmount..MaxAmount]
    BY <1>1, <1>4, <2>1, Amount128
  <2>5. TypeOK'
    BY <1>1, <2>3, <2>4 DEF RewardsInv, TypeOK, config, pause
  <2>6. ASSUME NEW w \in User
        PROVE  /\ balances'[w] + Principal(stakes[w]) = credited'[w]
               /\ balances'[w] < 0 => overdrawn
    <3>1. CASE w = u
      BY <1>2, <1>3, <2>1, <2>3, <3>1
    <3>2. CASE w = v
      BY <1>1, <1>2, <1>3, <2>1, <2>3, <3>2
    <3>3. CASE w \notin {u, v}
      BY <1>3, <2>1, <2>3, <3>3
    <3>4. QED
      BY <3>1, <3>2, <3>3
  <2>7. PointsAccounted'
    BY <1>1, <2>6 DEF PointsAccounted, Principal
  <2>8. StakesBounded' /\ SnapshotsBounded'
    BY <1>1, BoundsLast DEF RewardsInv
  <2>9. SnapshotsAccounted'
    BY <1>1 DEF RewardsInv, SnapshotsAccounted, Principal
  <2>10. QED
    BY <2>5, <2>7, <2>8, <2>9 DEF RewardsInv
<1>7. QED
  BY <1>5, <1>6

\* A new stake has earned nothing.
LEMMA StakePointsKeeps ==
  ASSUME RewardsInv, NEW u \in User, NEW n \in Amounts, StakePoints(u, n)
  PROVE  RewardsInv'
<1> DEFINE s == [amount |-> n, staked_at |-> now, last_claimed_at |-> now]
<1>1. balances \in [User -> MinAmount..MaxAmount] /\ now \in 0..MaxTime
      /\ credited \in [User -> Int] /\ operations \subseteq Operation /\ overdrawn \in BOOLEAN
  BY DEF RewardsInv, TypeOK
<1>2. n \in 1..MaxAmount /\ balances[u] - n \in 0..MaxAmount /\ stakes[u] = NoStake
  BY <1>1, RewardsAssumption DEF StakePoints, Staked, MinAmount
<1>3. s \in Stake /\ s # NoStake
  BY <1>1, <1>2, RewardsAssumption DEF Stake
<1>4. Bounded(s, 0)
  <2>1. now - now = 0 /\ n * 0 = 0 /\ 0 * SecondsPerYear = 0 /\ now <= now /\ 0 <= 0
    BY <1>1, <1>2, RewardsAssumption
  <2>2. QED
    BY <2>1 DEF Bounded
<1>5. (balances[u] - n) + Principal(s) = credited[u]
  <2>1. Principal(s) = n /\ Principal(stakes[u]) = 0
    BY <1>2, <1>3 DEF Principal
  <2>2. balances[u] + Principal(stakes[u]) = credited[u] /\ n \in Int /\ balances[u] \in Int
    BY <1>1, <1>2, Amount128, RewardsAssumption DEF RewardsInv, PointsAccounted
  <2>3. QED
    BY <1>1, <2>1, <2>2
<1>6. /\ balances' = [balances EXCEPT ![u] = balances[u] - n]
      /\ stakes' = [stakes EXCEPT ![u] = s]
      /\ earned' = [earned EXCEPT ![u] = 0]
      /\ credited' = [credited EXCEPT ![u] = credited[u]]
      /\ UNCHANGED <<snapshots, config, pause, now>>
      /\ operations' \subseteq Operation /\ overdrawn' = overdrawn
  BY <1>1 DEF StakePoints, recovery
<1> HIDE DEF s
<1>7. balances[u] - n \in MinAmount..MaxAmount /\ ~(balances[u] - n < 0)
      /\ credited[u] \in Int /\ 0 \in Nat
  BY <1>1, <1>2, Amount128
<1>8. QED
  BY <1>1, <1>3, <1>4, <1>5, <1>6, <1>7, OneAccountKeeps

\* What two stretches of time yield is within the yield of both.
LEMMA YieldsAdd ==
  ASSUME NEW a \in Nat, NEW p \in Nat, NEW q \in Nat, NEW y \in Nat, NEW t \in Nat, NEW l \in Nat,
         NEW m \in Nat, t <= l, l <= m, p * y <= a * (l - t), q * y <= a * (m - l)
  PROVE  (p + q) * y <= a * (m - t)
<1>1. (p + q) * y = p * y + q * y
  BY SMT
<1>2. a * (m - t) = a * (l - t) + a * (m - l)
  BY SMT
<1> DEFINE py == p * y  qy == q * y  al == a * (l - t)  am == a * (m - l)
<1>3. py \in Int /\ qy \in Int /\ al \in Int /\ am \in Int /\ py <= al /\ qy <= am
  BY SMT
<1> HIDE DEF py, qy, al, am
<1>4. py + qy <= al + am
  BY <1>3
<1>5. QED
  BY <1>1, <1>2, <1>4 DEF py, qy, al, am

\* What an open stake has earned and would be paid now.
LEMMA EarnedWithYield ==
  ASSUME TypeOK, NEW u \in Staked, Bounded(stakes[u], earned[u])
  PROVE  /\ calculate_yield(u) \in Nat
         /\ (earned[u] + calculate_yield(u)) * SecondsPerYear
              <= stakes[u].amount * (now - stakes[u].staked_at)
<1> DEFINE s == stakes[u]  e == earned[u]  c == calculate_yield(u)
<1>1. /\ s.staked_at <= s.last_claimed_at /\ s.last_claimed_at <= now
      /\ e * SecondsPerYear <= s.amount * (s.last_claimed_at - s.staked_at)
  BY DEF Bounded
<1>2. /\ s \in Stake /\ c \in Nat
      /\ c * SecondsPerYear <= s.amount * (now - s.last_claimed_at)
  BY <1>1, YieldOfStake
<1>3. u \in User
  BY DEF Staked
<1>4. /\ s.amount \in Nat /\ s.staked_at \in Nat /\ s.last_claimed_at \in Nat
      /\ now \in Nat /\ e \in Nat /\ SecondsPerYear \in Nat
  BY <1>2, <1>3, RewardsAssumption DEF TypeOK, Stake
<1> HIDE DEF s, e, c
<1>5. (e + c) * SecondsPerYear <= s.amount * (now - s.staked_at)
  BY <1>1, <1>2, <1>4, YieldsAdd
<1>6. QED
  BY <1>2, <1>5 DEF s, e, c

\* A claim pays the yield since the last one.
LEMMA ClaimKeeps ==
  ASSUME RewardsInv, NEW u \in User, ClaimStakingReward(u)
  PROVE  RewardsInv'
<1> DEFINE s == [stakes[u] EXCEPT !.last_claimed_at = now]
           c == calculate_yield(u)
<1>1. /\ u \in Staked /\ Bounded(stakes[u], earned[u])
      /\ balances \in [User -> MinAmount..MaxAmount] /\ now \in 0..MaxTime
      /\ credited \in [User -> Int] /\ overdrawn \in BOOLEAN
      /\ earned \in [User -> Nat] /\ operations \subseteq Operation
      /\ stakes[u] \in Stake
  BY DEF ClaimStakingReward, RewardsInv, StakesBounded, TypeOK, Staked
<1>2. /\ c \in Nat
      /\ (earned[u] + c) * SecondsPerYear <= stakes[u].amount * (now - stakes[u].staked_at)
  BY <1>1, EarnedWithYield DEF RewardsInv
<1>3. /\ c > 0 /\ balances[u] + c <= MaxAmount
      /\ balances' = [balances EXCEPT ![u] = balances[u] + c]
      /\ stakes' = [stakes EXCEPT ![u] = s]
      /\ earned' = [earned EXCEPT ![u] = earned[u] + c]
      /\ credited' = [credited EXCEPT ![u] = credited[u] + c]
      /\ UNCHANGED <<snapshots, config, pause, now>>
      /\ operations' \subseteq Operation /\ overdrawn' = overdrawn
  BY <1>1 DEF ClaimStakingReward, recovery
<1>4. /\ s \in Stake /\ s # NoStake
      /\ s.amount = stakes[u].amount /\ s.staked_at = stakes[u].staked_at
      /\ s.last_claimed_at = now
  BY <1>1, RewardsAssumption DEF Stake
<1> HIDE DEF s, c
<1>5. /\ balances[u] \in Int /\ stakes[u].amount \in Int
      /\ balances[u] + c \in MinAmount..MaxAmount /\ earned[u] + c \in Nat
      /\ credited[u] + c \in Int
  BY <1>1, <1>2, <1>3, RewardsAssumption DEF MinAmount, Stake
<1>6. Bounded(s, earned[u] + c)
  <2>1. s.staked_at <= now /\ now <= now
    BY <1>1, <1>4, RewardsAssumption DEF Bounded, Stake
  <2>2. QED
    BY <1>2, <1>4, <2>1 DEF Bounded
<1>7. (balances[u] + c) + Principal(s) = credited[u] + c
  <2>1. Principal(s) = stakes[u].amount /\ Principal(stakes[u]) = stakes[u].amount
    BY <1>1, <1>4, RewardsAssumption DEF Principal
  <2>2. balances[u] + Principal(stakes[u]) = credited[u]
    BY DEF RewardsInv, PointsAccounted
  <2>3. QED
    BY <1>1, <1>2, <1>5, <2>1, <2>2
<1>8. balances[u] + c < 0 => overdrawn
  BY <1>2, <1>5 DEF RewardsInv, PointsAccounted
<1>9. QED
  BY <1>1, <1>3, <1>4, <1>5, <1>6, <1>7, <1>8, OneAccountKeeps

\* The principal goes back to the balance, with the yield since the last claim.
LEMMA UnstakeKeeps ==
  ASSUME RewardsInv, NEW u \in User, Unstake(u)
  PROVE  RewardsInv'
<1> DEFINE c == calculate_yield(u)  a == stakes[u].amount
<1>1. /\ u \in Staked /\ Bounded(stakes[u], earned[u]) /\ stakes[u] \in Stake
      /\ balances \in [User -> MinAmount..MaxAmount] /\ credited \in [User -> Int]
      /\ operations \subseteq Operation /\ overdrawn \in BOOLEAN
  BY DEF Unstake, RewardsInv, StakesBounded, TypeOK, Staked
<1>2. c \in Nat
  BY <1>1, EarnedWithYield DEF RewardsInv
<1>3. a \in Nat /\ balances[u] \in Int /\ balances[u] >= MinAmount
  BY <1>1, RewardsAssumption DEF Stake, MinAmount
<1>4. /\ balances[u] + a + c <= MaxAmount
      /\ balances' = [balances EXCEPT ![u] = balances[u] + a + c]
      /\ stakes' = [stakes EXCEPT ![u] = NoStake]
      /\ earned' = [earned EXCEPT ![u] = 0]
      /\ credited' = [credited EXCEPT ![u] = credited[u] + c]
      /\ UNCHANGED <<snapshots, config, pause, now>>
      /\ operations' \subseteq Operation /\ overdrawn' = overdrawn
  BY <1>1 DEF Unstake, recovery
<1>5. Principal(stakes[u]) = a /\ Principal(NoStake) = 0
  BY <1>1 DEF Principal, Staked
<1> HIDE DEF a, c
<1>6. balances[u] + a + c \in MinAmount..MaxAmount /\ credited[u] + c \in Int
  BY <1>1, <1>2, <1>3, <1>4, RewardsAssumption DEF MinAmount
<1>7. balances[u] + a = credited[u] /\ (balances[u] < 0 => overdrawn)
  BY <1>5 DEF RewardsInv, PointsAccounted
<1>8. /\ (balances[u] + a + c) + Principal(NoStake) = credited[u] + c
      /\ balances[u] + a + c < 0 => overdrawn
  BY <1>1, <1>2, <1>3, <1>5, <1>7
<1>9. NoStake \in Stake \cup {NoStake} /\ 0 \in Nat
  OBVIOUS
<1>10. QED
  BY <1>1, <1>4, <1>6, <1>8, <1>9, OneAccountKeeps

\* A snapshot holds a balance, and a stake with what it has been paid.
LEMMA SnapshotKeeps ==
  ASSUME RewardsInv, NEW u \in User, NEW id \in Operation, SnapshotAccount(u, id)
  PROVE  RewardsInv'
<1> DEFINE r == [balance |-> balances[u], stake |-> stakes[u],
                 credited |-> credited[u], earned |-> earned[u]]
<1>1. /\ snapshots' = [snapshots EXCEPT ![u] = r]
      /\ UNCHANGED <<points, config, pause, now>> /\ operations' = operations \cup {id}
  BY DEF SnapshotAccount
<1>2. r \in Snapshot
  BY DEF RewardsInv, TypeOK, Snapshot
<1>3. TypeOK'
  BY <1>1, <1>2 DEF RewardsInv, TypeOK, points, config, pause
<1>4. PointsAccounted'
  BY <1>1 DEF RewardsInv, PointsAccounted, points
<1>5. StakesBounded'
  BY <1>1 DEF RewardsInv, StakesBounded, Staked, Bounded, points
<1>6. /\ snapshots'[u] = r
      /\ \A v \in User \ {u} : snapshots'[v] = snapshots[v]
  BY <1>1 DEF RewardsInv, TypeOK
<1>7. /\ r.balance = balances[u] /\ r.stake = stakes[u]
      /\ r.credited = credited[u] /\ r.earned = earned[u]
  OBVIOUS
<1>8. SnapshotsBounded'
  <2>1. ASSUME NEW v \in User, snapshots'[v] # NoSnapshot, snapshots'[v].stake # NoStake
        PROVE  Bounded(snapshots'[v].stake, snapshots'[v].earned)
    <3>1. CASE v = u
      BY <1>6, <1>7, <2>1, <3>1 DEF RewardsInv, StakesBounded, Staked
    <3>2. CASE v # u
      BY <1>6, <2>1, <3>2 DEF RewardsInv, SnapshotsBounded
    <3>3. QED
      BY <3>1, <3>2
  <2>2. now' = now
    BY <1>1
  <2>3. QED
    BY <2>1, <2>2 DEF SnapshotsBounded, Bounded
<1>9. SnapshotsAccounted'
  <2>1. ASSUME NEW v \in User, snapshots'[v] # NoSnapshot
        PROVE  /\ snapshots'[v].balance + Principal(snapshots'[v].stake) = snapshots'[v].credited
               /\ snapshots'[v].balance < 0 => overdrawn
    <3>1. CASE v = u
      BY <1>6, <1>7, <3>1 DEF RewardsInv, PointsAccounted
    <3>2. CASE v # u
      BY <1>6, <2>1, <3>2 DEF RewardsInv, SnapshotsAccounted
    <3>3. QED
      BY <3>1, <3>2
  <2>2. QED
    BY <1>1, <2>1 DEF SnapshotsAccounted, Principal, points
<1>10. QED
  BY <1>3, <1>4, <1>5, <1>8, <1>9 DEF RewardsInv

\* A restore brings back the balance, the stake and what it has been paid.
LEMMA RestoreKeeps ==
  ASSUME RewardsInv, NEW u \in User, NEW id \in Operation, RestoreAccount(u, id)
  PROVE  RewardsInv'
<1> DEFINE n == snapshots[u].balance  s == snapshots[u].stake  e == snapshots[u].earned
           c == snapshots[u].credited
<1>1. /\ snapshots[u] \in Snapshot /\ snapshots[u] # NoSnapshot
      /\ operations \subseteq Operation /\ overdrawn \in BOOLEAN
  BY DEF RestoreAccount, RewardsInv, TypeOK
<1>2. n \in MinAmount..MaxAmount /\ s \in Stake \cup {NoStake} /\ e \in Nat /\ c \in Int
  BY <1>1 DEF Snapshot
<1>3. s # NoStake => Bounded(s, e)
  BY <1>1 DEF RewardsInv, SnapshotsBounded
<1>4. /\ balances' = [balances EXCEPT ![u] = n]
      /\ stakes' = [stakes EXCEPT ![u] = s]
      /\ earned' = [earned EXCEPT ![u] = e]
      /\ credited' = [credited EXCEPT ![u] = c]
      /\ operations' \subseteq Operation /\ overdrawn' = overdrawn
      /\ UNCHANGED <<snapshots, config, pause, now>>
  BY <1>1 DEF RestoreAccount
<1>5. n + Principal(s) = c /\ (n < 0 => overdrawn)
  BY <1>1 DEF RewardsInv, SnapshotsAccounted
<1> HIDE DEF n, s, e, c
<1>6. QED
  BY <1>1, <1>2, <1>3, <1>4, <1>5, OneAccountKeeps

-----------------------------------------------------------------------------
LEMMA RewardsInit == Init => RewardsInv
<1> SUFFICES ASSUME Init PROVE RewardsInv
  OBVIOUS
<1>1. TypeOK
  <2>1. /\ 0 \in MinAmount..MaxAmount /\ 0 \in 0..MaxU64 /\ 0 \in 0..MaxTime
        /\ 0 \in 0..BpsDivisor
    BY RewardsAssumption DEF MinAmount
  <2>2. /\ balances \in [User -> MinAmount..MaxAmount] /\ stakes \in [User -> Stake \cup {NoStake}]
        /\ snapshots \in [User -> Snapshot \cup {NoSnapshot}] /\ earned \in [User -> Nat]
        /\ credited \in [User -> Int]
    BY <2>1 DEF Init
  <2>3. /\ annual_rate \in 0..BpsDivisor /\ cooldown \in 0..MaxU64 /\ expiry \in 0..MaxU64
        /\ now \in 0..MaxTime
    BY <2>1 DEF Init
  <2>4. /\ initialized \in BOOLEAN /\ paused \in BOOLEAN /\ overdrawn \in BOOLEAN
        /\ operations \subseteq Operation
    BY DEF Init
  <2>5. QED
    BY <2>2, <2>3, <2>4 DEF TypeOK
<1>2. PointsAccounted /\ SnapshotsAccounted
  <2>1. \A u \in User : /\ balances[u] = 0 /\ stakes[u] = NoStake /\ credited[u] = 0
                        /\ snapshots[u] = NoSnapshot
    BY DEF Init
  <2>2. QED
    BY <2>1 DEF PointsAccounted, SnapshotsAccounted, Principal
<1>3. StakesBounded /\ SnapshotsBounded
  BY DEF Init, StakesBounded, SnapshotsBounded, Staked
<1>4. QED
  BY <1>1, <1>2, <1>3 DEF RewardsInv

LEMMA RewardsStep == RewardsInv /\ [Next]_vars => RewardsInv'
<1> SUFFICES ASSUME RewardsInv, [Next]_vars PROVE RewardsInv'
  OBVIOUS
<1>1. CASE UNCHANGED vars
  <2>1. TypeOK' /\ PointsAccounted'
    BY <1>1 DEF RewardsInv, TypeOK, PointsAccounted, vars, points, recovery, config, pause
  <2>2. StakesBounded' /\ SnapshotsBounded' /\ SnapshotsAccounted'
    BY <1>1 DEF RewardsInv, StakesBounded, SnapshotsBounded, SnapshotsAccounted, Staked, Bounded,
                vars, points, recovery, config, pause
  <2>3. QED
    BY <2>1, <2>2 DEF RewardsInv
<1>2. CASE \/ Initialize \/ Pause \/ Unpause \/ PauseForRecovery \/ Resume \/ PassTime
           \/ \E d \in Periods : EmergencyPause(d)
           \/ \E d \in Periods : SetCooldownPeriod(d)
           \/ \E r \in Rates : SetAnnualRate(r)
  BY <1>2, ConfigurationKeeps
<1>3. ASSUME NEW u \in User, NEW n \in Int,
             \/ n \in SetAmounts /\ SetBalance(u, n)
             \/ SwapForXlm(u, n)
             \/ \E id \in Operation : RecoverTransaction(u, n, id)
      PROVE  RewardsInv'
  BY <1>3, BalanceWritesKeep
<1>4. ASSUME NEW u \in User, NEW n \in Amounts, StakePoints(u, n)
      PROVE  RewardsInv'
  BY <1>4, StakePointsKeeps
<1>5. ASSUME NEW u \in User, ClaimStakingReward(u) \/ Unstake(u)
      PROVE  RewardsInv'
  BY <1>5, ClaimKeeps, UnstakeKeeps
<1>6. ASSUME NEW u \in User, NEW id \in Operation, SnapshotAccount(u, id) \/ RestoreAccount(u, id)
      PROVE  RewardsInv'
  BY <1>6, SnapshotKeeps, RestoreKeeps
<1>7. ASSUME NEW u \in User, NEW v \in User, NEW n \in Amounts, NEW id \in Operation,
             RecoverFunds(u, v, n, id)
      PROVE  RewardsInv'
  BY <1>7, RecoverFundsKeeps
<1>8. Amounts \subseteq Int /\ SetAmounts \subseteq Int
  BY RewardsAssumption
<1>9. QED
  BY <1>1, <1>2, <1>3, <1>4, <1>5, <1>6, <1>7, <1>8 DEF Next

LEMMA RewardsInvariant == Spec => []RewardsInv
BY RewardsInit, RewardsStep, PTL DEF Spec

\* The stored values keep the types the contract stores, whatever is invoked in
\* whatever order and whatever i128 set_balance stores: no sum leaves its width.
THEOREM RewardsTypeCorrect == Spec => []TypeOK
<1>1. RewardsInv => TypeOK
  BY DEF RewardsInv
<1>2. QED
  BY <1>1, RewardsInvariant, PTL

\* No order of staking, claims, unstaking, swaps, snapshots, restores and
\* recoveries loses a point of an account, leaves a stake beside the points it was
\* paid back as, or overdraws a balance; set_balance alone makes one negative.
THEOREM PointsAlwaysAccounted == Spec => []PointsAccounted
<1>1. RewardsInv => PointsAccounted
  BY DEF RewardsInv
<1>2. QED
  BY <1>1, RewardsInvariant, PTL

\* However claims, changes of the rate, snapshots and restores are ordered, no
\* stake earns more than the maximum rate over the time it is open.
THEOREM YieldAlwaysBounded == Spec => []YieldBounded
<1>1. RewardsInv => YieldBounded
  BY EarnedWithYield DEF RewardsInv, StakesBounded, YieldBounded
<1>2. QED
  BY <1>1, RewardsInvariant, PTL

\* While the contract is paused, a balance or a stake changes only by a recovery
\* operation whose id is new, or by set_balance.
THEOREM RecoveryAlwaysRecorded == Spec => RecoveryRecorded
<1> DEFINE Recorded ==
      paused /\ <<balances, stakes>>' # <<balances, stakes>> =>
        \/ operations' # operations
        \/ \E u \in User, n \in SetAmounts : SetBalance(u, n)
<1>1. [Next]_vars => [Recorded]_vars
  <2> SUFFICES ASSUME Next, paused, <<balances, stakes>>' # <<balances, stakes>>
               PROVE  Recorded
    OBVIOUS
  <2>1. ASSUME NEW u \in User, NEW n \in SetAmounts, SetBalance(u, n)
        PROVE  Recorded
    BY <2>1
  <2>2. ASSUME NEW u \in User, NEW n \in Amounts, NEW id \in Operation,
               \/ RestoreAccount(u, id) \/ RecoverTransaction(u, n, id)
               \/ \E v \in User : RecoverFunds(u, v, n, id)
        PROVE  Recorded
    BY <2>2 DEF RestoreAccount, RecoverTransaction, RecoverFunds
  <2>3. ASSUME NEW u \in User, NEW id \in Operation, RestoreAccount(u, id)
        PROVE  Recorded
    BY <2>3 DEF RestoreAccount
  <2>4. QED
    BY <2>1, <2>2, <2>3
       DEF Next, Initialize, Pause, Unpause, PauseForRecovery, Resume, EmergencyPause,
           SetCooldownPeriod, SetAnnualRate, StakePoints, SwapForXlm, ClaimStakingReward, Unstake,
           SnapshotAccount, PassTime, points
<1>2. QED
  BY <1>1, PTL DEF Spec, RecoveryRecorded

-----------------------------------------------------------------------------
(* What TLC is given: arguments with a negative one, which is refused, and the *)
(* symmetry of users and of operation ids.                                     *)

SmallAmounts == {-1, 1, 2}
SmallSetAmounts == {-1, 2}
SmallRates == {-1, 1}
Symmetry == Permutations(User) \cup Permutations(Operation)

=============================================================================
