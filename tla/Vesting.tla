------------------------------- MODULE Vesting -------------------------------
(***************************************************************************)
(* Linear vesting with a cliff and revocation (contracts/vesting).  One    *)
(* action is one invocation; an Err or a panic discards the invocation, so *)
(* every error path is a guard.  Amounts are i128 and times u64: checked   *)
(* and trapping arithmetic appears as bounds MaxAmount and MaxTime.        *)
(***************************************************************************)
EXTENDS Totals

CONSTANTS Address,       \* possible callers
          NoAddress,     \* the admin key before initialize
          Beneficiary,   \* accounts that receive schedules
          NoSchedule,    \* value of a schedule key that was never written
          MaxSchedules,  \* bound on the schedules of one beneficiary
          Amounts,       \* i128 arguments
          Times,         \* u64 arguments of create_schedule
          MaxAmount,     \* i128::MAX
          MaxTime,       \* u64::MAX
          Horizon        \* bound on the ledger time explored

Key == Beneficiary \X (0..MaxSchedules - 1)

Schedule == [total_amount : 1..MaxAmount, start_time : 0..MaxTime,
             cliff_duration : 0..MaxTime, total_duration : 1..MaxTime,
             released : 0..MaxAmount, revoked : BOOLEAN, revoked_amount : 0..MaxAmount]

VestingAssumption ==
  /\ NoAddress \notin Address
  /\ NoSchedule \notin Schedule
  /\ IsFiniteSet(Beneficiary)
  /\ MaxSchedules \in Nat
  /\ MaxAmount \in Nat \ {0} /\ MaxTime \in Nat \ {0}
  /\ Amounts \subseteq -MaxAmount - 1..MaxAmount
  /\ Times \subseteq 0..MaxTime
  /\ Horizon \in 0..MaxTime

VARIABLES admin,      \* DataKey::Admin
          pool,       \* DataKey::PoolBalance
          schedules,  \* DataKey::Schedule(beneficiary, id)
          nextId,     \* DataKey::NextId(beneficiary)
          now,        \* env.ledger().timestamp()
          signers,    \* who passed require_auth in the last invocation
          funded      \* history: everything fund_pool ever deposited

vars == <<admin, pool, schedules, nextId, now, signers, funded>>

-----------------------------------------------------------------------------
Created == {k \in Key : schedules[k] # NoSchedule}

SaturateTime(t) == IF t > MaxTime THEN MaxTime ELSE t

\* Vested at time t, counted from the start and not from the end of the cliff.
vested_amount(s, t) ==
  IF s.revoked THEN s.revoked_amount
  ELSE IF t < SaturateTime(s.start_time + s.cliff_duration) THEN 0
  ELSE IF t - s.start_time >= s.total_duration THEN s.total_amount
  ELSE (s.total_amount * (t - s.start_time)) \div s.total_duration

Vested(k) == vested_amount(schedules[k], now)
Releasable(k) == Vested(k) - schedules[k].released

\* require_auth of every address in S.
Authorized(S) == signers' = S

RequireAdmin(caller) ==
  /\ admin # NoAddress
  /\ caller = admin
  /\ Authorized({caller})

\* The overflow guards of create_schedule.
ArithmeticFits(total, start, cliff, duration) ==
  /\ start + cliff <= MaxTime
  /\ start + duration <= MaxTime
  /\ total * duration <= MaxAmount

-----------------------------------------------------------------------------
Init ==
  /\ admin = NoAddress
  /\ pool = 0
  /\ schedules = [k \in Key |-> NoSchedule]
  /\ nextId = [b \in Beneficiary |-> 0]
  /\ now = 0
  /\ signers = {}
  /\ funded = 0

Initialize(a) ==
  /\ admin = NoAddress
  /\ Authorized({})
  /\ admin' = a
  /\ pool' = 0
  /\ UNCHANGED <<schedules, nextId, now, funded>>

FundPool(caller, amount) ==
  /\ RequireAdmin(caller)
  /\ amount > 0
  /\ pool + amount <= MaxAmount
  /\ pool' = pool + amount
  /\ funded' = funded + amount
  /\ UNCHANGED <<admin, schedules, nextId, now>>

\* Nothing is set aside in the pool for the new schedule.
CreateSchedule(caller, b, total, start, cliff, duration) ==
  /\ RequireAdmin(caller)
  /\ duration > 0 /\ total > 0
  /\ ArithmeticFits(total, start, cliff, duration)
  /\ nextId[b] < MaxSchedules
  /\ schedules' = [schedules EXCEPT ![<<b, nextId[b]>>] =
                     [total_amount |-> total, start_time |-> start,
                      cliff_duration |-> cliff, total_duration |-> duration,
                      released |-> 0, revoked |-> FALSE, revoked_amount |-> 0]]
  /\ nextId' = [nextId EXCEPT ![b] = @ + 1]
  /\ UNCHANGED <<admin, pool, now, funded>>

\* Variant: the whole vested amount is paid again on every claim.
ClaimVested_NotNet(k) ==
  /\ admin # NoAddress
  /\ Authorized({})
  /\ k \in Created
  /\ Vested(k) > 0
  /\ pool >= Vested(k)
  /\ pool' = pool - Vested(k)
  /\ schedules' = [schedules EXCEPT ![k].released = @ + Vested(k)]
  /\ UNCHANGED <<admin, nextId, now, funded>>

\* Anyone may trigger the claim: the code demands no signature.
ClaimVested(k) ==
  /\ admin # NoAddress
  /\ Authorized({})
  /\ k \in Created
  /\ Releasable(k) > 0
  /\ pool >= Releasable(k)
  /\ pool' = pool - Releasable(k)
  /\ schedules' = [schedules EXCEPT ![k].released = @ + Releasable(k)]
  /\ UNCHANGED <<admin, nextId, now, funded>>

Revoke(caller, k) ==
  /\ RequireAdmin(caller)
  /\ k \in Created
  /\ ~schedules[k].revoked
  /\ LET unvested == schedules[k].total_amount - Vested(k)
     IN  /\ pool + unvested <= MaxAmount
         /\ pool' = pool + unvested
  /\ schedules' = [schedules EXCEPT ![k].revoked = TRUE, ![k].revoked_amount = Vested(k)]
  /\ UNCHANGED <<admin, nextId, now, funded>>

\* A ledger closes with a later timestamp.
PassTime ==
  /\ now < Horizon
  /\ now' = now + 1
  /\ UNCHANGED <<admin, pool, schedules, nextId, signers, funded>>

Next ==
  \/ \E a \in Address : Initialize(a)
  \/ \E a \in Address, n \in Amounts : FundPool(a, n)
  \/ \E a \in Address, b \in Beneficiary, n \in Amounts, s, c, d \in Times :
       CreateSchedule(a, b, n, s, c, d)
  \/ \E k \in Key : ClaimVested(k)
  \/ \E a \in Address, k \in Key : Revoke(a, k)
  \/ PassTime

Spec == Init /\ [][Next]_vars

-----------------------------------------------------------------------------
TypeOK ==
  /\ admin \in Address \cup {NoAddress}
  /\ pool \in 0..MaxAmount
  /\ schedules \in [Key -> Schedule \cup {NoSchedule}]
  /\ nextId \in [Beneficiary -> 0..MaxSchedules]
  /\ now \in 0..Horizon
  /\ signers \subseteq Address
  /\ funded \in Nat

\* Paid out never exceeds what has vested by now, nor that the grant: also
\* after a revocation, which freezes the entitlement at or above the payouts.
ReleasedWithinVested ==
  \A k \in Created : /\ schedules[k].released <= Vested(k)
                     /\ Vested(k) <= schedules[k].total_amount

\* What was paid to a schedule, and what its revocation gave back to the pool.
Released == [k \in Key |-> IF k \in Created THEN schedules[k].released ELSE 0]
Returned == [k \in Key |-> IF k \in Created /\ schedules[k].revoked
                           THEN schedules[k].total_amount - schedules[k].revoked_amount
                           ELSE 0]

\* The accounts of the pool balance: deposits and returns in, claims out.
PoolAccounted == pool + Total(Released, Key) = funded + Total(Returned, Key)

\* The comment in vested_amount: no stored schedule can make its multiplication
\* overflow i128, so neither claim_vested nor revoke can trap on it.
VestingNeverTraps ==
  \A k \in Created : \A t \in now..MaxTime :
    LET s == schedules[k]
    IN  ~s.revoked /\ t >= SaturateTime(s.start_time + s.cliff_duration)
                   /\ t - s.start_time < s.total_duration
          => s.total_amount * (t - s.start_time) <= MaxAmount

\* What was paid is within what has vested and that within the grant, the pool
\* accounts for deposits, payouts and returns, and the arithmetic of a schedule
\* fits at every time.
VestingAccounted == ReleasedWithinVested /\ PoolAccounted /\ VestingNeverTraps

\* No step, revocation included, takes back what had vested, and after a
\* revocation the entitlement is frozen.
EntitlementNeverShrinks ==
  [][\A k \in Created :
       /\ vested_amount(schedules'[k], now') >= Vested(k)
       /\ schedules[k].revoked => vested_amount(schedules'[k], now') = Vested(k)]_vars

\* The documentation of revoke and of the pool speak of unvested tokens being
\* returned to the pool: it would never hold more than was put into it.
PoolWithinFunding == pool + Total(Released, Key) <= funded

=============================================================================
