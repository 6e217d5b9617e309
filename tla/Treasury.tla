------------------------------ MODULE Treasury -------------------------------
(***************************************************************************)
(* The treasury (contracts/treasury): withdrawals by the admin, limited by *)
(* a cap per period.  One action is one invocation; an Err or a panic      *)
(* undoes the invocation, the rolled-over period included.                 *)
(***************************************************************************)
EXTENDS Totals

CONSTANTS Caps,        \* caps passed to initialize and set_period_cap
          Durations,   \* durations passed to initialize and set_period_duration
          Amounts,     \* amounts deposited and withdrawn
          MaxAmount,   \* i128::MAX
          MaxTime,     \* bound on the ledger time explored
          MaxU64       \* u64::MAX

\* Assumed of the constants.
TreasuryAssumption ==
  /\ Caps \subseteq Int /\ Amounts \subseteq Int
  /\ Durations \subseteq 0..MaxU64
  /\ MaxAmount \in Nat /\ MaxU64 \in Nat
  /\ MaxTime \in 0..MaxU64

VARIABLES configured,           \* DataKey::Admin is stored
          period_cap,           \* DataKey::PeriodCap
          period_duration,      \* DataKey::PeriodDuration
          period_start,         \* DataKey::PeriodStart
          withdrawn,            \* DataKey::WithdrawnThisPeriod
          total_released,       \* DataKey::TotalReleased
          balance,              \* the token balance of the treasury
          now,                  \* env.ledger().timestamp()
          released,             \* history: what was withdrawn at each time
          deposited,            \* history: what was transferred to the treasury
          reconfigured          \* history: cap or duration was changed

config == <<configured, period_cap, period_duration, reconfigured>>
vars == <<config, period_start, withdrawn, total_released, balance, now,
          released, deposited>>

Times == 0..MaxTime

-----------------------------------------------------------------------------
Init ==
  /\ configured = FALSE
  /\ period_cap = 0 /\ period_duration = 0 /\ period_start = 0
  /\ withdrawn = 0 /\ total_released = 0
  /\ balance = 0
  /\ now = 0
  /\ released = [t \in Times |-> 0]
  /\ deposited = 0
  /\ reconfigured = FALSE

Initialize(cap, duration) ==
  /\ ~configured
  /\ cap > 0
  /\ duration > 0
  /\ configured' = TRUE
  /\ period_cap' = cap
  /\ period_duration' = duration
  /\ period_start' = now
  /\ withdrawn' = 0
  /\ total_released' = 0
  /\ UNCHANGED <<balance, now, released, deposited, reconfigured>>

\* A transfer of the token contract to the treasury's address.
Deposit(amount) ==
  /\ amount > 0
  /\ balance + amount <= MaxAmount
  /\ deposited + amount <= MaxAmount
  /\ balance' = balance + amount
  /\ deposited' = deposited + amount
  /\ UNCHANGED <<config, period_start, withdrawn, total_released, now, released>>

\* Variant: the period is over one second early.
PeriodOver_Early == now + 1 >= period_start + period_duration

\* refresh_period starts a new period.
PeriodOver == now >= period_start + period_duration

\* Signed by the admin.  The recipient may be the treasury itself: the token
\* contract lets an account transfer to itself.
Withdraw(amount, toItself) ==
  LET spent == IF PeriodOver THEN 0 ELSE withdrawn
  IN  /\ configured
      /\ amount > 0
      /\ balance >= amount
      /\ period_start + period_duration <= MaxU64
      /\ spent + amount <= period_cap
      /\ period_start' = IF PeriodOver THEN now ELSE period_start
      /\ withdrawn' = spent + amount
      /\ total_released + amount <= MaxAmount
      /\ total_released' = total_released + amount
      /\ released' = [released EXCEPT ![now] = @ + amount]
      /\ balance' = IF toItself THEN balance ELSE balance - amount
      /\ deposited' = IF toItself THEN deposited + amount ELSE deposited
      /\ UNCHANGED <<config, now>>

SetPeriodCap(cap) ==
  /\ configured
  /\ cap > 0
  /\ period_cap' = cap
  /\ reconfigured' = TRUE
  /\ UNCHANGED <<configured, period_duration, period_start, withdrawn,
                 total_released, balance, now, released, deposited>>

\* Takes effect at once, in the current period.
SetPeriodDuration(duration) ==
  /\ configured
  /\ duration > 0
  /\ period_duration' = duration
  /\ reconfigured' = TRUE
  /\ UNCHANGED <<configured, period_cap, period_start, withdrawn,
                 total_released, balance, now, released, deposited>>

PassTime ==
  /\ now < MaxTime
  /\ now' = now + 1
  /\ UNCHANGED <<config, period_start, withdrawn, total_released, balance,
                 released, deposited>>

Next ==
  \/ \E cap \in Caps, d \in Durations : Initialize(cap, d)
  \/ \E n \in Amounts : Deposit(n)
  \/ \E n \in Amounts, self \in BOOLEAN : Withdraw(n, self)
  \/ \E cap \in Caps : SetPeriodCap(cap)
  \/ \E d \in Durations : SetPeriodDuration(d)
  \/ PassTime

Spec == Init /\ [][Next]_vars

-----------------------------------------------------------------------------
\* The stored values have the types the contract stores.
TypeOK ==
  /\ configured \in BOOLEAN
  /\ period_cap \in Int /\ (configured => period_cap > 0)
  /\ period_duration \in 0..MaxU64 /\ (configured => period_duration > 0)
  /\ period_start \in 0..now
  /\ withdrawn \in 0..MaxAmount /\ total_released \in 0..MaxAmount
  /\ balance \in 0..MaxAmount /\ deposited \in Nat
  /\ now \in Times
  /\ released \in [Times -> Nat]
  /\ reconfigured \in BOOLEAN

\* The period's counter is exactly what was withdrawn since the period began,
\* over every rollover.  (A shorter duration can end a period in the second of
\* its last withdrawal: then the new period's counter starts after it.)
PeriodAccounted ==
  LET since == Total(released, period_start..now)
  IN  withdrawn <= since /\ (reconfigured \/ withdrawn = since)

\* TotalReleased is everything ever withdrawn, and with the balance it is
\* everything ever transferred to the treasury: no token is lost or counted twice.
ReleasesAccounted ==
  /\ total_released = Total(released, Times)
  /\ total_released + balance = deposited

\* With an unchanged configuration no window as long as a period, wherever it
\* starts, sees more than two caps: the price of fixed periods, and no more.
BurstBounded ==
  configured /\ ~reconfigured =>
    \A t \in Times :
      Total(released, {u \in Times : t <= u /\ u < t + period_duration}) <= 2 * period_cap

=============================================================================
