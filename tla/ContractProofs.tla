--------------------------- MODULE ContractProofs ---------------------------
(***************************************************************************)
(* What holds of the contracts for every value of their constants: of each *)
(* contract the inductive invariant with its lemmas, then their            *)
(* composition and what the runs check of it.                              *)
(***************************************************************************)
EXTENDS Contracts, TotalTheorems

-----------------------------------------------------------------------------
(* treasury *)

\* Finite sets and sums are the library's.
LEMMA TreasuryTotals ==
  /\ \A S : Treasury!IsFiniteSet(S) <=> IsFiniteSet(S)
  /\ \A f, S : Treasury!Total(f, S) = Total(f, S)
BY Zenon DEF Treasury!IsFiniteSet, Treasury!Total, Treasury!Units, Treasury!Cardinality,
   IsFiniteSet, Total, Units, Cardinality

\* The window of one period's length that starts at t.
PeriodWindow(t) == {u \in Treasury!Times : t <= u /\ u < t + period_duration}

\* The time before the current period in which a window that reaches into it
\* can start.
BeforePeriod == {u \in Treasury!Times : period_start <= u + period_duration /\ u < period_start}

\* The inductive invariant: nothing is recorded ahead of time or before
\* initialize, and as long as the configuration is unchanged a period, and any
\* stretch of its length that ends where it begins, has seen at most one cap.
TreasuryInv ==
  /\ Treasury!TypeOK
  /\ Treasury!PeriodAccounted
  /\ Treasury!ReleasesAccounted
  /\ \A t \in Treasury!Times : t > now => released[t] = 0
  /\ ~configured => \A t \in Treasury!Times : released[t] = 0
  /\ configured /\ ~reconfigured =>
       /\ \A t \in Treasury!Times : t >= period_start + period_duration => released[t] = 0
       /\ withdrawn <= period_cap
       /\ Treasury!Total(released, BeforePeriod) <= period_cap
  /\ Treasury!BurstBounded

LEMMA TimesFinite ==
  ASSUME Treasury!TreasuryAssumption
  PROVE  /\ Treasury!IsFiniteSet(Treasury!Times)
         /\ \A S : S \subseteq Treasury!Times => Treasury!IsFiniteSet(S)
         /\ Treasury!Times \subseteq Nat /\ 0 \in Treasury!Times
<1>1. TreasuryMaxTime \in Nat
  BY DEF Treasury!TreasuryAssumption
<1>2. Treasury!IsFiniteSet(Treasury!Times)
  BY <1>1, FS_Interval, TreasuryTotals DEF Treasury!Times
<1>3. QED
  BY <1>1, <1>2, FS_Subset, TreasuryTotals DEF Treasury!Times

LEMMA TreasuryInit ==
  ASSUME Treasury!TreasuryAssumption, Treasury!Init
  PROVE  TreasuryInv
<1>1. \A t \in Treasury!Times : released[t] = 0
  BY DEF Treasury!Init
<1>2. \A S : S \subseteq Treasury!Times => Treasury!Total(released, S) = 0
  <2> SUFFICES ASSUME NEW S, S \subseteq Treasury!Times PROVE Treasury!Total(released, S) = 0
    OBVIOUS
  <2>1. QED
    BY <1>1, TotalZero, TreasuryTotals
<1>3. Treasury!TypeOK
  <2>1. 0 \in 0..TreasuryMaxAmount /\ 0 \in 0..TreasuryMaxU64 /\ 0 \in Treasury!Times
    BY TimesFinite DEF Treasury!TreasuryAssumption
  <2>2. released \in [Treasury!Times -> Nat] /\ ~configured /\ configured \in BOOLEAN
        /\ reconfigured \in BOOLEAN
    BY DEF Treasury!Init
  <2>3. /\ period_cap \in Int /\ period_duration \in 0..TreasuryMaxU64 /\ period_start \in 0..now
        /\ withdrawn \in 0..TreasuryMaxAmount /\ total_released \in 0..TreasuryMaxAmount
        /\ balance \in 0..TreasuryMaxAmount /\ deposited \in Nat /\ now \in Treasury!Times
    BY <2>1 DEF Treasury!Init
  <2>4. QED
    BY <2>2, <2>3 DEF Treasury!TypeOK
<1>4. Treasury!PeriodAccounted
  <2>1. period_start..now \subseteq Treasury!Times
    BY <1>3, TimesFinite DEF Treasury!Init, Treasury!Times, Treasury!TreasuryAssumption
  <2>2. QED
    BY <1>2, <2>1 DEF Treasury!PeriodAccounted, Treasury!Init
<1>5. Treasury!ReleasesAccounted
  BY <1>2 DEF Treasury!ReleasesAccounted, Treasury!Init
<1>6. QED
  BY <1>1, <1>3, <1>4, <1>5 DEF TreasuryInv, Treasury!BurstBounded, Treasury!Init

\* The amounts of two stretches of time that cover a third bound its amount.
LEMMA TwoStretches ==
  ASSUME Treasury!TreasuryAssumption, NEW f, \A t \in Treasury!Times : f[t] \in Nat,
         NEW S, S \subseteq Treasury!Times, NEW A, A \subseteq Treasury!Times, NEW B, B \subseteq Treasury!Times,
         \A t \in S \ (A \cup B) : f[t] = 0
  PROVE  /\ Treasury!Total(f, S) <= Treasury!Total(f, A) + Treasury!Total(f, B)
         /\ Treasury!Total(f, S) \in Nat /\ Treasury!Total(f, A) \in Nat /\ Treasury!Total(f, B) \in Nat
<1> DEFINE C == S \ (A \cup B)
<1>1. /\ Treasury!IsFiniteSet(S) /\ Treasury!IsFiniteSet(A) /\ Treasury!IsFiniteSet(B) /\ Treasury!IsFiniteSet(C)
      /\ Treasury!IsFiniteSet(A \cup B) /\ Treasury!IsFiniteSet((A \cup B) \cup C)
      /\ \A t \in (A \cup B) \cup C : f[t] \in Nat
      /\ S \subseteq (A \cup B) \cup C
      /\ S \cup ((A \cup B) \cup C) \subseteq Treasury!Times
  <2>1. C \subseteq Treasury!Times /\ A \cup B \subseteq Treasury!Times /\ (A \cup B) \cup C \subseteq Treasury!Times
    OBVIOUS
  <2>2. QED
    BY <2>1, TimesFinite
<1>2. Treasury!Total(f, S) <= Treasury!Total(f, (A \cup B) \cup C)
  BY <1>1, TotalBounds, TreasuryTotals
<1>3. Treasury!Total(f, (A \cup B) \cup C) <= Treasury!Total(f, A \cup B) + Treasury!Total(f, C)
  BY <1>1, TotalBounds, TreasuryTotals
<1>4. Treasury!Total(f, A \cup B) <= Treasury!Total(f, A) + Treasury!Total(f, B)
  BY <1>1, TotalBounds, TreasuryTotals
<1>5. Treasury!Total(f, C) = 0
  BY TotalZero, TreasuryTotals
<1>6. /\ Treasury!Total(f, S) \in Nat /\ Treasury!Total(f, A) \in Nat /\ Treasury!Total(f, B) \in Nat
      /\ Treasury!Total(f, A \cup B) \in Nat /\ Treasury!Total(f, (A \cup B) \cup C) \in Nat
  BY <1>1, TotalNat, TreasuryTotals
<1>7. QED
  BY <1>2, <1>3, <1>4, <1>5, <1>6

\* The facts about numbers that the steps use.
LEMMA TreasuryNumbers ==
  ASSUME Treasury!TreasuryAssumption, Treasury!TypeOK
  PROVE  /\ now \in Nat /\ now \in Treasury!Times /\ period_start \in Nat /\ period_start <= now
         /\ period_duration \in Nat /\ period_cap \in Int
         /\ withdrawn \in Nat /\ total_released \in Nat /\ balance \in Nat /\ deposited \in Nat
         /\ released \in [Treasury!Times -> Nat]
         /\ period_start..now \subseteq Treasury!Times
         /\ configured => period_cap > 0 /\ period_duration > 0
<1>1. now \in Nat /\ now <= TreasuryMaxTime /\ TreasuryMaxTime \in Nat
  BY DEF Treasury!TypeOK, Treasury!Times, Treasury!TreasuryAssumption
<1>2. period_start \in Nat /\ period_start <= now /\ period_start..now \subseteq Treasury!Times
  BY <1>1 DEF Treasury!TypeOK, Treasury!Times
<1>3. QED
  BY <1>1, <1>2 DEF Treasury!TypeOK, Treasury!TreasuryAssumption

\* initialize finds nothing withdrawn.
LEMMA TreasuryInitializeKeeps ==
  ASSUME Treasury!TreasuryAssumption, TreasuryInv, NEW cap \in TreasuryCaps, NEW d \in TreasuryDurations,
         Treasury!Initialize(cap, d)
  PROVE  TreasuryInv'
<1>1. /\ ~configured /\ cap > 0 /\ d > 0 /\ configured' = TRUE /\ period_cap' = cap
      /\ period_duration' = d /\ period_start' = now /\ withdrawn' = 0 /\ total_released' = 0
      /\ UNCHANGED <<balance, now, released, deposited, reconfigured>>
      /\ cap \in Int /\ d \in 0..TreasuryMaxU64 /\ d \in Nat
  BY DEF Treasury!Initialize, Treasury!TreasuryAssumption
<1>2. /\ Treasury!TypeOK /\ Treasury!ReleasesAccounted /\ \A t \in Treasury!Times : released[t] = 0
  BY <1>1 DEF TreasuryInv
<1>3. \A S : S \subseteq Treasury!Times => Treasury!Total(released, S) = 0
  <2> SUFFICES ASSUME NEW S, S \subseteq Treasury!Times PROVE Treasury!Total(released, S) = 0
    OBVIOUS
  <2>1. QED
    BY <1>2, TotalZero, TreasuryTotals
<1>4. /\ now \in Nat /\ now \in Treasury!Times /\ 0 \in 0..TreasuryMaxAmount /\ now..now \subseteq Treasury!Times
  <2>1. now \in Nat /\ now \in Treasury!Times
    BY <1>2, TreasuryNumbers
  <2>2. QED
    BY <2>1 DEF Treasury!TreasuryAssumption
<1>5. Treasury!TypeOK'
  BY <1>1, <1>2, <1>4 DEF Treasury!TypeOK
<1>6. Treasury!PeriodAccounted'
  BY <1>1, <1>3, <1>4 DEF Treasury!PeriodAccounted
<1>7. Treasury!ReleasesAccounted'
  <2>1. Treasury!Total(released, Treasury!Times) = 0
    BY <1>3
  <2>2. QED
    BY <1>1, <1>2, <2>1 DEF Treasury!ReleasesAccounted
<1>8. BeforePeriod' \subseteq Treasury!Times /\ \A t : PeriodWindow(t)' \subseteq Treasury!Times
  BY <1>1 DEF BeforePeriod, PeriodWindow, Treasury!Times
<1>9. Treasury!Total(released, BeforePeriod)' = 0 /\ \A t : Treasury!Total(released, PeriodWindow(t))' = 0
  BY <1>1, <1>3, <1>8
<1>10. Treasury!BurstBounded'
  <2>1. \A t \in Treasury!Times : Treasury!Total(released, PeriodWindow(t))' <= 2 * period_cap'
    BY <1>1, <1>9
  <2>2. QED
    BY <1>1, <2>1 DEF Treasury!BurstBounded, PeriodWindow, Treasury!Times
<1>11. QED
  BY <1>1, <1>2, <1>5, <1>6, <1>7, <1>9, <1>10 DEF TreasuryInv, Treasury!Times

\* What an invocation that withdraws nothing leaves of the invariant.
LEMMA NothingWithdrawn ==
  ASSUME Treasury!TreasuryAssumption, TreasuryInv,
         UNCHANGED <<Treasury!config, period_start, withdrawn, total_released, now, released>>,
         balance' \in 0..TreasuryMaxAmount, deposited' \in Nat, deposited' + balance = deposited + balance'
  PROVE  TreasuryInv'
<1>1. UNCHANGED <<configured, period_cap, period_duration, reconfigured>>
  BY DEF Treasury!config
<1>2. Treasury!TypeOK'
  BY <1>1 DEF TreasuryInv, Treasury!TypeOK, Treasury!Times
<1>3. Treasury!PeriodAccounted'
  BY <1>1 DEF TreasuryInv, Treasury!PeriodAccounted
<1>4. Treasury!ReleasesAccounted'
  <2>1. /\ total_released \in Nat /\ balance \in Nat /\ deposited \in Nat
        /\ total_released + balance = deposited /\ total_released = Treasury!Total(released, Treasury!Times)
    BY TreasuryNumbers DEF TreasuryInv, Treasury!ReleasesAccounted
  <2>2. Treasury!Total(released, Treasury!Times)' = Treasury!Total(released, Treasury!Times)
    BY DEF Treasury!Times
  <2>3. balance' \in Int /\ total_released' = total_released
    OBVIOUS
  <2>4. QED
    BY <2>1, <2>2, <2>3 DEF Treasury!ReleasesAccounted
<1>5. Treasury!BurstBounded'
  BY <1>1 DEF TreasuryInv, Treasury!BurstBounded, Treasury!Times
<1>6. Treasury!Total(released, BeforePeriod)' = Treasury!Total(released, BeforePeriod)
  BY <1>1 DEF BeforePeriod, Treasury!Times
<1>7. QED
  BY <1>1, <1>2, <1>3, <1>4, <1>5, <1>6 DEF TreasuryInv, Treasury!Times

\* Withdrawing adds the amount to the current time and to the counter of the
\* current period, which starts now if the last one is over.
LEMMA WithdrawnNow ==
  ASSUME Treasury!TreasuryAssumption, TreasuryInv, NEW n \in TreasuryAmounts, NEW self \in BOOLEAN,
         Treasury!Withdraw(n, self)
  PROVE  /\ n \in Nat /\ n > 0 /\ configured /\ configured' /\ now' = now
         /\ UNCHANGED <<period_cap, period_duration, reconfigured>>
         /\ released' \in [Treasury!Times -> Nat] /\ released'[now] = released[now] + n
         /\ \A t \in Treasury!Times \ {now} : released'[t] = released[t]
         /\ \/ Treasury!PeriodOver /\ period_start' = now /\ withdrawn' = n
            \/ ~Treasury!PeriodOver /\ period_start' = period_start /\ withdrawn' = withdrawn + n
         /\ withdrawn' <= period_cap
         /\ total_released' = total_released + n /\ total_released' <= TreasuryMaxAmount
         /\ total_released' + balance' + deposited = total_released + balance + deposited'
         /\ balance' \in 0..TreasuryMaxAmount /\ deposited' \in Nat
<1>1. /\ Treasury!TypeOK /\ n \in Int /\ TreasuryMaxAmount \in Nat
  BY DEF TreasuryInv, Treasury!TreasuryAssumption
<1>2. /\ now \in Treasury!Times /\ now \in Nat /\ released \in [Treasury!Times -> Nat] /\ balance \in 0..TreasuryMaxAmount
      /\ deposited \in Nat /\ total_released \in Nat /\ withdrawn \in Nat
  BY <1>1, TreasuryNumbers DEF Treasury!TypeOK
<1>3. n \in Nat /\ n > 0
  BY <1>1 DEF Treasury!Withdraw
<1>4. /\ configured /\ UNCHANGED <<Treasury!config, now>>
      /\ released' = [released EXCEPT ![now] = @ + n]
  BY DEF Treasury!Withdraw
<1>5. /\ released' \in [Treasury!Times -> Nat] /\ released'[now] = released[now] + n
      /\ \A t \in Treasury!Times \ {now} : released'[t] = released[t]
  BY <1>2, <1>3, <1>4
<1>6. /\ \/ Treasury!PeriodOver /\ period_start' = now /\ withdrawn' = n
         \/ ~Treasury!PeriodOver /\ period_start' = period_start /\ withdrawn' = withdrawn + n
      /\ withdrawn' <= period_cap
  <2>1. CASE Treasury!PeriodOver
    BY <1>3, <2>1 DEF Treasury!Withdraw
  <2>2. CASE ~Treasury!PeriodOver
    BY <2>2 DEF Treasury!Withdraw
  <2>3. QED
    BY <2>1, <2>2
<1>7. /\ total_released' = total_released + n /\ total_released' <= TreasuryMaxAmount
      /\ total_released' + balance' + deposited = total_released + balance + deposited'
      /\ balance' \in 0..TreasuryMaxAmount /\ deposited' \in Nat
  <2>1. /\ total_released' = total_released + n /\ total_released' <= TreasuryMaxAmount /\ balance >= n
        /\ \/ balance' = balance /\ deposited' = deposited + n
           \/ balance' = balance - n /\ deposited' = deposited
    BY DEF Treasury!Withdraw
  <2>2. QED
    BY <1>1, <1>2, <1>3, <2>1
<1>8. QED
  BY <1>3, <1>4, <1>5, <1>6, <1>7 DEF Treasury!config

\* What was withdrawn since the period began, after a withdrawal.
LEMMA SinceAfterWithdrawal ==
  ASSUME Treasury!TreasuryAssumption, TreasuryInv, NEW n \in TreasuryAmounts, NEW self \in BOOLEAN,
         Treasury!Withdraw(n, self)
  PROVE  /\ Treasury!PeriodAccounted'
         /\ Treasury!Total(released', Treasury!Times) = Treasury!Total(released, Treasury!Times) + n
         /\ withdrawn' <= Treasury!Total(released, Treasury!Times) + n
         /\ ~reconfigured => Treasury!Total(released', period_start'..now) = withdrawn'
<1> DEFINE since == period_start..now
           since2 == period_start'..now
<1>1. /\ Treasury!TypeOK /\ n \in Nat /\ now' = now /\ now \in Treasury!Times /\ now \in Nat
      /\ period_start \in Nat /\ period_start <= now /\ withdrawn \in Nat
      /\ released \in [Treasury!Times -> Nat] /\ released' \in [Treasury!Times -> Nat]
      /\ released'[now] = released[now] + n
      /\ \A t \in Treasury!Times \ {now} : released'[t] = released[t]
      /\ reconfigured' = reconfigured /\ configured
  BY WithdrawnNow, TreasuryNumbers DEF TreasuryInv
<1>2. /\ \A S : S \subseteq Treasury!Times => Treasury!IsFiniteSet(S)
      /\ \A t \in Treasury!Times : released[t] \in Nat /\ released'[t] \in Nat
      /\ Treasury!IsFiniteSet(Treasury!Times)
  BY <1>1, TimesFinite
<1>3. ASSUME NEW S, S \subseteq Treasury!Times, now \in S
      PROVE  Treasury!Total(released', S) = Treasury!Total(released, S) + n /\ Treasury!Total(released, S) \in Nat
  <2>1. /\ Treasury!IsFiniteSet(S) /\ \A t \in S : released[t] \in Nat
        /\ \A t \in S : released'[t] \in Nat
        /\ \A t \in S \ {now} : released'[t] = released[t]
    BY <1>1, <1>2, <1>3
  <2>2. Treasury!Total(released', S) = Treasury!Total(released, S) - released[now] + released'[now]
    BY <1>3, <2>1, TotalChange, TreasuryTotals
  <2>3. Treasury!Total(released, S) \in Nat /\ released[now] \in Nat
    BY <1>3, <2>1, TotalNat, TreasuryTotals
  <2>4. QED
    BY <1>1, <2>2, <2>3
<1>4. /\ since \subseteq Treasury!Times /\ now \in since
      /\ withdrawn <= Treasury!Total(released, since)
      /\ reconfigured \/ withdrawn = Treasury!Total(released, since)
  BY <1>1, TreasuryNumbers DEF TreasuryInv, Treasury!PeriodAccounted
<1>5. Treasury!Total(released, since) <= Treasury!Total(released, Treasury!Times)
  BY <1>2, <1>4, TotalBounds, TreasuryTotals
<1>6. Treasury!Total(released', Treasury!Times) = Treasury!Total(released, Treasury!Times) + n /\ Treasury!Total(released, Treasury!Times) \in Nat
  BY <1>1, <1>3
<1>7. CASE ~Treasury!PeriodOver /\ period_start' = period_start /\ withdrawn' = withdrawn + n
  <2>1. since2 = since
    BY <1>7
  <2>2. Treasury!Total(released', since) = Treasury!Total(released, since) + n /\ Treasury!Total(released, since) \in Nat
    BY <1>3, <1>4
  <2>3. /\ withdrawn' <= Treasury!Total(released', since2)
        /\ reconfigured \/ withdrawn' = Treasury!Total(released', since2)
        /\ withdrawn' <= Treasury!Total(released, Treasury!Times) + n
    <3> HIDE DEF since, since2
    <3>1. QED
      BY <1>1, <1>4, <1>5, <1>6, <1>7, <2>1, <2>2
  <2>4. QED
    BY <1>1, <1>6, <2>3 DEF Treasury!PeriodAccounted
<1>8. CASE Treasury!PeriodOver /\ period_start' = now /\ withdrawn' = n
  <2>1. since2 = {now} /\ {now} \subseteq Treasury!Times
    BY <1>1, <1>8
  <2>2. Treasury!Total(released', {now}) = Treasury!Total(released, {now}) + n /\ Treasury!Total(released, {now}) \in Nat
    BY <1>3, <2>1
  <2>3. ~reconfigured => Treasury!Total(released, {now}) = 0
    <3>1. ASSUME ~reconfigured PROVE released[now] = 0
      BY <1>1, <1>8, <3>1 DEF Treasury!PeriodOver, TreasuryInv
    <3>2. QED
      BY <3>1, TotalZero, TreasuryTotals
  <2>4. /\ withdrawn' <= Treasury!Total(released', since2)
        /\ reconfigured \/ withdrawn' = Treasury!Total(released', since2)
        /\ withdrawn' <= Treasury!Total(released, Treasury!Times) + n
    <3> HIDE DEF since2
    <3>1. QED
      BY <1>1, <1>6, <1>8, <2>1, <2>2, <2>3
  <2>5. QED
    BY <1>1, <1>6, <2>4 DEF Treasury!PeriodAccounted
<1>9. QED
  BY <1>7, <1>8, WithdrawnNow

\* With an unchanged configuration, the stretch before the period of a
\* withdrawal has seen one cap at most: a new period starts where the last one,
\* of at most one cap, is over.
LEMMA BeforeAfterWithdrawal ==
  ASSUME Treasury!TreasuryAssumption, TreasuryInv, ~reconfigured, NEW n \in TreasuryAmounts, NEW self \in BOOLEAN,
         Treasury!Withdraw(n, self)
  PROVE  /\ Treasury!Total(released', BeforePeriod') <= period_cap
         /\ \A t \in Treasury!Times : t >= period_start' + period_duration => released'[t] = 0
<1>1. /\ Treasury!TypeOK /\ n \in Nat /\ now' = now /\ now \in Treasury!Times /\ now \in Nat
      /\ period_start \in Nat /\ period_start <= now /\ period_start' \in Nat
      /\ period_duration \in Nat /\ period_duration > 0 /\ period_duration' = period_duration
      /\ released \in [Treasury!Times -> Nat] /\ released' \in [Treasury!Times -> Nat] /\ withdrawn \in Nat
      /\ \A t \in Treasury!Times \ {now} : released'[t] = released[t]
      /\ configured /\ period_cap \in Int
  BY WithdrawnNow, TreasuryNumbers DEF TreasuryInv
<1>2. /\ \A t \in Treasury!Times : t > now => released[t] = 0
      /\ \A t \in Treasury!Times : t >= period_start + period_duration => released[t] = 0
      /\ withdrawn <= period_cap /\ Treasury!Total(released, BeforePeriod) <= period_cap
      /\ withdrawn = Treasury!Total(released, period_start..now)
  BY <1>1 DEF TreasuryInv, Treasury!PeriodAccounted
<1>3. Treasury!Times \subseteq Nat /\ BeforePeriod \subseteq Treasury!Times
  BY TimesFinite DEF BeforePeriod
<1>4. CASE ~Treasury!PeriodOver /\ period_start' = period_start
  <2>1. BeforePeriod' = BeforePeriod /\ now < period_start + period_duration
    BY <1>1, <1>4 DEF BeforePeriod, Treasury!PeriodOver, Treasury!Times
  <2>2. now \notin BeforePeriod
    BY <1>1 DEF BeforePeriod
  <2>3. Treasury!Total(released', BeforePeriod) = Treasury!Total(released, BeforePeriod)
    BY <1>1, <1>3, <2>2, TotalSame, TreasuryTotals
  <2>4. ASSUME NEW t \in Treasury!Times, t >= period_start + period_duration
        PROVE  released'[t] = 0
    BY <1>1, <1>2, <1>3, <2>1, <2>4
  <2>5. QED
    BY <1>2, <1>4, <2>1, <2>3, <2>4
<1>5. CASE Treasury!PeriodOver /\ period_start' = now
  <2>1. now >= period_start + period_duration
    BY <1>5 DEF Treasury!PeriodOver
  <2>2. BeforePeriod' = {u \in Treasury!Times : now <= u + period_duration /\ u < now}
    BY <1>1, <1>5 DEF BeforePeriod, Treasury!Times
  <2>3. BeforePeriod' \subseteq period_start..now /\ BeforePeriod' \subseteq Treasury!Times /\ now \notin BeforePeriod'
    <3>1. ASSUME NEW u \in BeforePeriod' PROVE u \in Treasury!Times /\ u \in period_start..now /\ u # now
      <4>1. u \in Treasury!Times /\ u \in Nat /\ now <= u + period_duration /\ u < now
        BY <1>3, <2>2
      <4>2. QED
        BY <1>1, <2>1, <4>1
    <3>2. QED
      BY <3>1
  <2>4. Treasury!Total(released', BeforePeriod') = Treasury!Total(released, BeforePeriod')
    BY <1>1, <2>3, TotalSame, TreasuryTotals
  <2>5. Treasury!Total(released, BeforePeriod') <= Treasury!Total(released, period_start..now)
    <3>1. period_start..now \subseteq Treasury!Times
      BY <1>1, TreasuryNumbers
    <3>2. /\ Treasury!IsFiniteSet(period_start..now) /\ Treasury!IsFiniteSet(BeforePeriod')
          /\ \A t \in BeforePeriod' \cup (period_start..now) : released[t] \in Nat
      BY <1>1, <2>3, <3>1, TimesFinite
    <3>3. QED
      BY <2>3, <3>2, TotalBounds, TreasuryTotals
  <2>6. Treasury!Total(released', BeforePeriod') <= period_cap
    <3>1. Treasury!Total(released, BeforePeriod') <= withdrawn
      BY <1>2, <2>5
    <3>2. Treasury!Total(released, BeforePeriod') \in Nat
      <4>1. Treasury!IsFiniteSet(BeforePeriod') /\ \A t \in BeforePeriod' : released[t] \in Nat
        BY <1>1, <2>3, TimesFinite
      <4>2. QED
        BY <4>1, TotalNat, TreasuryTotals
    <3>3. QED
      BY <1>1, <1>2, <2>4, <3>1, <3>2
  <2>7. ASSUME NEW t \in Treasury!Times, t >= now + period_duration
        PROVE  released'[t] = 0
    BY <1>1, <1>2, <1>3, <2>7
  <2>8. QED
    BY <1>5, <2>6, <2>7
<1>6. QED
  BY <1>4, <1>5, WithdrawnNow

\* No window of a period's length sees more than two caps: a window that ends
\* before now is as it was, and one that reaches now lies in the current period
\* and the stretch before it.
LEMMA BurstAfterWithdrawal ==
  ASSUME Treasury!TreasuryAssumption, TreasuryInv, NEW n \in TreasuryAmounts, NEW self \in BOOLEAN,
         Treasury!Withdraw(n, self)
  PROVE  Treasury!BurstBounded'
<1> SUFFICES ASSUME ~reconfigured, NEW t \in Treasury!Times
             PROVE  Treasury!Total(released', PeriodWindow(t)) <= 2 * period_cap
  <2>1. /\ UNCHANGED <<period_cap, period_duration, reconfigured>> /\ Treasury!Times' = Treasury!Times
    BY WithdrawnNow DEF Treasury!Times
  <2>2. QED
    BY <2>1 DEF Treasury!BurstBounded, PeriodWindow
<1>0. /\ now \in Nat /\ period_start' \in Nat /\ period_start' <= now
      /\ period_duration \in Nat /\ t \in Nat
  BY WithdrawnNow, TreasuryNumbers, TimesFinite DEF TreasuryInv
<1>1. /\ Treasury!TypeOK /\ n \in Nat /\ now \in Treasury!Times /\ now \in Nat
      /\ period_duration' = period_duration
      /\ released' \in [Treasury!Times -> Nat]
      /\ \A u \in Treasury!Times \ {now} : released'[u] = released[u]
      /\ configured /\ period_cap \in Int
      /\ \A u \in Treasury!Times : u > now => released[u] = 0
      /\ t \in Nat /\ Treasury!Times \subseteq Nat
  BY WithdrawnNow, TreasuryNumbers, TimesFinite DEF TreasuryInv
<1>2. PeriodWindow(t) \subseteq Treasury!Times /\ BeforePeriod' \subseteq Treasury!Times /\ period_start'..now \subseteq Treasury!Times
  <2>1. PeriodWindow(t) \subseteq Treasury!Times /\ BeforePeriod' \subseteq Treasury!Times
    <3>1. BeforePeriod' = {u \in Treasury!Times : period_start' <= u + period_duration' /\ u < period_start'}
      BY DEF BeforePeriod, Treasury!Times
    <3>2. QED
      BY <3>1 DEF PeriodWindow
  <2>2. now <= TreasuryMaxTime /\ TreasuryMaxTime \in Nat
    BY <1>1 DEF Treasury!Times, Treasury!TreasuryAssumption
  <2>3. period_start'..now \subseteq Treasury!Times
    BY <1>0, <2>2 DEF Treasury!Times
  <2>4. QED
    BY <2>1, <2>3
<1>3. CASE now \notin PeriodWindow(t)
  <2>1. Treasury!Total(released', PeriodWindow(t)) = Treasury!Total(released, PeriodWindow(t))
    BY <1>1, <1>2, <1>3, TotalSame, TreasuryTotals
  <2>2. Treasury!Total(released, PeriodWindow(t)) <= 2 * period_cap
    BY <1>1 DEF TreasuryInv, Treasury!BurstBounded, PeriodWindow
  <2>3. QED
    BY <2>1, <2>2
<1>4. CASE now \in PeriodWindow(t)
  <2>1. t <= now /\ now < t + period_duration
    BY <1>4 DEF PeriodWindow
  <2>2. \A u \in PeriodWindow(t) \ (BeforePeriod' \cup (period_start'..now)) : released'[u] = 0
    <3> SUFFICES ASSUME NEW u \in PeriodWindow(t), u \notin BeforePeriod', u \notin period_start'..now
                 PROVE  released'[u] = 0
      OBVIOUS
    <3>1. u \in Treasury!Times /\ u \in Nat /\ t <= u
      BY <1>1 DEF PeriodWindow
    <3>2. BeforePeriod' = {v \in Treasury!Times : period_start' <= v + period_duration /\ v < period_start'}
      BY <1>1 DEF BeforePeriod, Treasury!Times
    <3>3. u > now
      <4>1. period_start' <= u + period_duration
        BY <1>0, <2>1, <3>1
      <4>2. u >= period_start'
        BY <1>0, <3>1, <3>2, <4>1
      <4>3. QED
        BY <1>0, <3>1, <4>2
    <3>4. QED
      BY <1>1, <3>1, <3>3
  <2>3. /\ Treasury!Total(released', PeriodWindow(t)) <= Treasury!Total(released', BeforePeriod')
                                            + Treasury!Total(released', period_start'..now)
        /\ Treasury!Total(released', PeriodWindow(t)) \in Nat /\ Treasury!Total(released', BeforePeriod') \in Nat
        /\ Treasury!Total(released', period_start'..now) \in Nat
    <3>1. \A u \in Treasury!Times : released'[u] \in Nat
      BY <1>1
    <3>2. QED
      BY <1>2, <2>2, <3>1, TwoStretches
  <2>4. Treasury!Total(released', BeforePeriod') <= period_cap
    BY BeforeAfterWithdrawal
  <2>5. Treasury!Total(released', period_start'..now) <= period_cap
    BY WithdrawnNow, SinceAfterWithdrawal
  <2>6. QED
    BY <1>1, <2>3, <2>4, <2>5
<1>5. QED
  BY <1>3, <1>4

LEMMA WithdrawKeeps ==
  ASSUME Treasury!TreasuryAssumption, TreasuryInv, NEW n \in TreasuryAmounts, NEW self \in BOOLEAN,
         Treasury!Withdraw(n, self)
  PROVE  TreasuryInv'
<1>1. /\ Treasury!TypeOK /\ now' = now /\ now \in Treasury!Times /\ now \in Nat
      /\ UNCHANGED <<period_cap, period_duration, reconfigured>> /\ Treasury!Times' = Treasury!Times
      /\ configured /\ configured'
  BY WithdrawnNow, TreasuryNumbers DEF TreasuryInv, Treasury!TreasuryAssumption, Treasury!Times
<1>0. /\ withdrawn \in Nat /\ period_start \in Nat /\ period_start <= now /\ n \in Nat
      /\ total_released \in Nat /\ balance \in Nat /\ deposited \in Nat /\ now \in Nat
      /\ total_released' = total_released + n /\ total_released' <= TreasuryMaxAmount
      /\ total_released' + balance' + deposited = total_released + balance + deposited'
      /\ balance' \in 0..TreasuryMaxAmount /\ deposited' \in Nat /\ TreasuryMaxAmount \in Nat
  BY WithdrawnNow, TreasuryNumbers DEF TreasuryInv, Treasury!TreasuryAssumption
<1>2. Treasury!ReleasesAccounted'
  <2>1. /\ total_released = Treasury!Total(released, Treasury!Times) /\ total_released + balance = deposited
    BY DEF TreasuryInv, Treasury!ReleasesAccounted
  <2>2. Treasury!Total(released', Treasury!Times) = Treasury!Total(released, Treasury!Times) + n
    BY SinceAfterWithdrawal
  <2>3. total_released' + balance' = deposited'
    BY <1>0, <2>1
  <2>4. QED
    BY <1>0, <1>1, <2>1, <2>2, <2>3 DEF Treasury!ReleasesAccounted
<1>3. withdrawn' \in 0..TreasuryMaxAmount
  <2>1. withdrawn' <= Treasury!Total(released, Treasury!Times) + n /\ total_released = Treasury!Total(released, Treasury!Times)
    BY SinceAfterWithdrawal DEF TreasuryInv, Treasury!ReleasesAccounted
  <2>2. withdrawn' = n \/ withdrawn' = withdrawn + n
    BY WithdrawnNow
  <2>3. QED
    BY <1>0, <2>1, <2>2
<1>4. period_start' \in 0..now'
  <2>1. period_start' = period_start \/ period_start' = now
    BY WithdrawnNow
  <2>2. QED
    BY <1>0, <1>1, <2>1
<1>5. Treasury!TypeOK'
  <2>1. released' \in [Treasury!Times -> Nat] /\ total_released' \in 0..TreasuryMaxAmount
    <3>1. total_released' \in 0..TreasuryMaxAmount
      BY <1>0
    <3>2. QED
      BY <3>1, WithdrawnNow
  <2>2. QED
    BY <1>0, <1>1, <1>3, <1>4, <2>1 DEF TreasuryInv, Treasury!TypeOK
<1>6. \A t \in Treasury!Times : t > now => released'[t] = 0
  <2>1. \A t \in Treasury!Times : t > now => released[t] = 0
    BY DEF TreasuryInv
  <2>2. \A t \in Treasury!Times \ {now} : released'[t] = released[t]
    BY WithdrawnNow
  <2>3. QED
    BY <1>1, <2>1, <2>2
<1>7. Treasury!PeriodAccounted' /\ Treasury!BurstBounded'
  BY SinceAfterWithdrawal, BurstAfterWithdrawal
<1>8. ~reconfigured =>
        /\ \A t \in Treasury!Times : t >= period_start' + period_duration => released'[t] = 0
        /\ withdrawn' <= period_cap
        /\ Treasury!Total(released', BeforePeriod') <= period_cap
  BY BeforeAfterWithdrawal, WithdrawnNow
<1>9. QED
  BY <1>1, <1>2, <1>5, <1>6, <1>7, <1>8 DEF TreasuryInv

\* Time passes into a second in which nothing is recorded yet.
LEMMA TreasuryTimeKeeps ==
  ASSUME Treasury!TreasuryAssumption, TreasuryInv, Treasury!PassTime
  PROVE  TreasuryInv'
<1>1. /\ Treasury!TypeOK /\ now' = now + 1 /\ now < TreasuryMaxTime /\ TreasuryMaxTime \in Nat
      /\ UNCHANGED <<configured, period_cap, period_duration, reconfigured>>
      /\ UNCHANGED <<period_start, withdrawn, total_released, balance, released, deposited>>
  BY DEF Treasury!PassTime, Treasury!config, TreasuryInv, Treasury!TreasuryAssumption
<1>2. /\ now \in Nat /\ now \in Treasury!Times /\ period_start \in Nat /\ period_start <= now
      /\ released \in [Treasury!Times -> Nat] /\ period_start..now \subseteq Treasury!Times
  BY <1>1, TreasuryNumbers
<1>3. now' \in Treasury!Times /\ now' \in Nat /\ Treasury!Times \subseteq Nat /\ period_start \in 0..now'
  BY <1>1, <1>2, TimesFinite DEF Treasury!Times
<1>4. Treasury!TypeOK'
  BY <1>1, <1>3 DEF Treasury!TypeOK, Treasury!Times
<1>5. Treasury!PeriodAccounted'
  <2> DEFINE since == period_start..now
  <2>1. period_start..now' = since \cup {now'} /\ now' \notin since
    BY <1>1, <1>2
  <2>2. released[now'] = 0
    BY <1>1, <1>2, <1>3 DEF TreasuryInv
  <2>3. Treasury!IsFiniteSet(since) /\ \A u \in since \cup {now'} : released[u] \in Nat
    BY <1>2, <1>3, TimesFinite
  <2>4. Treasury!Total(released, since) \in Nat
    BY <2>3, TotalNat, TreasuryTotals
  <2>5. Treasury!Total(released, since \cup {now'}) = Treasury!Total(released, since) + released[now']
    <3> HIDE DEF since
    <3>1. QED
      BY <2>1, <2>3, TotalInsert, TreasuryTotals
  <2>6. withdrawn <= Treasury!Total(released, since) /\ (reconfigured \/ withdrawn = Treasury!Total(released, since))
    BY DEF TreasuryInv, Treasury!PeriodAccounted
  <2>7. Treasury!Total(released, period_start..now') = Treasury!Total(released, since)
    <3>1. Treasury!Total(released, since \cup {now'}) = Treasury!Total(released, since)
      BY <2>2, <2>4, <2>5
    <3>2. QED
      BY <2>1, <3>1, Zenon
  <2>8. QED
    BY <1>1, <2>6, <2>7 DEF Treasury!PeriodAccounted
<1>6. Treasury!ReleasesAccounted' /\ Treasury!BurstBounded'
  BY <1>1 DEF TreasuryInv, Treasury!ReleasesAccounted, Treasury!BurstBounded, Treasury!Times
<1>7. \A t \in Treasury!Times : t > now' => released[t] = 0
  BY <1>1, <1>2, <1>3 DEF TreasuryInv
<1>8. Treasury!Total(released, BeforePeriod)' = Treasury!Total(released, BeforePeriod)
  BY <1>1 DEF BeforePeriod, Treasury!Times
<1>9. QED
  BY <1>1, <1>4, <1>5, <1>6, <1>7, <1>8 DEF TreasuryInv, Treasury!Times

LEMMA TreasuryStep ==
  ASSUME Treasury!TreasuryAssumption, TreasuryInv, [Treasury!Next]_treasuryVars
  PROVE  TreasuryInv'
<1>1. CASE \E cap \in TreasuryCaps, d \in TreasuryDurations : Treasury!Initialize(cap, d)
  BY <1>1, TreasuryInitializeKeeps
<1>2. ASSUME NEW n \in TreasuryAmounts, Treasury!Deposit(n)
      PROVE  TreasuryInv'
  <2>1. /\ n \in Int /\ n > 0 /\ balance + n <= TreasuryMaxAmount /\ balance' = balance + n
        /\ deposited' = deposited + n
        /\ UNCHANGED <<Treasury!config, period_start, withdrawn, total_released, now, released>>
    BY <1>2 DEF Treasury!Deposit, Treasury!TreasuryAssumption
  <2>2. balance \in Nat /\ deposited \in Nat /\ TreasuryMaxAmount \in Nat
    BY TreasuryNumbers DEF TreasuryInv, Treasury!TreasuryAssumption
  <2>3. balance' \in 0..TreasuryMaxAmount /\ deposited' \in Nat /\ deposited' + balance = deposited + balance'
    BY <2>1, <2>2
  <2>4. QED
    BY <2>1, <2>3, NothingWithdrawn
<1>3. CASE \E n \in TreasuryAmounts, self \in BOOLEAN : Treasury!Withdraw(n, self)
  BY <1>3, WithdrawKeeps
<1>4. CASE \/ \E cap \in TreasuryCaps : Treasury!SetPeriodCap(cap)
           \/ \E d \in TreasuryDurations : Treasury!SetPeriodDuration(d)
  <2>1. /\ configured /\ configured' = configured /\ reconfigured' = TRUE
        /\ period_cap' \in Int /\ period_cap' > 0
        /\ period_duration' \in 0..TreasuryMaxU64 /\ period_duration' > 0
        /\ UNCHANGED <<period_start, withdrawn, total_released, balance, now, released, deposited>>
    <3>1. Treasury!TypeOK /\ TreasuryCaps \subseteq Int /\ TreasuryDurations \subseteq 0..TreasuryMaxU64
      BY DEF TreasuryInv, Treasury!TreasuryAssumption
    <3>2. CASE \E cap \in TreasuryCaps : Treasury!SetPeriodCap(cap)
      BY <3>1, <3>2 DEF Treasury!SetPeriodCap, Treasury!TypeOK
    <3>3. CASE \E d \in TreasuryDurations : Treasury!SetPeriodDuration(d)
      BY <3>1, <3>3 DEF Treasury!SetPeriodDuration, Treasury!TypeOK
    <3>4. QED
      BY <1>4, <3>2, <3>3
  <2>2. Treasury!TypeOK' /\ Treasury!PeriodAccounted' /\ Treasury!ReleasesAccounted'
    BY <2>1 DEF TreasuryInv, Treasury!TypeOK, Treasury!PeriodAccounted,
       Treasury!ReleasesAccounted, Treasury!Times
  <2>3. QED
    BY <2>1, <2>2 DEF TreasuryInv, Treasury!BurstBounded, Treasury!Times
<1>5. CASE Treasury!PassTime
  BY <1>5, TreasuryTimeKeeps
<1>6. CASE UNCHANGED treasuryVars
  <2>1. /\ UNCHANGED <<Treasury!config, period_start, withdrawn, total_released, now, released>>
        /\ balance' = balance /\ deposited' = deposited
    BY <1>6 DEF treasuryVars, Treasury!config
  <2>2. balance' \in 0..TreasuryMaxAmount /\ deposited' \in Nat /\ deposited' + balance = deposited + balance'
    BY <2>1, TreasuryNumbers DEF TreasuryInv, Treasury!TypeOK
  <2>3. QED
    BY <2>1, <2>2, NothingWithdrawn
<1>7. QED
  BY <1>1, <1>2, <1>3, <1>4, <1>5, <1>6 DEF Treasury!Next

-----------------------------------------------------------------------------
(* reward_pool and its token *)

\* Finite sets and sums are the library's.
LEMMA PoolTotals ==
  /\ \A S : Pool!IsFiniteSet(S) <=> IsFiniteSet(S)
  /\ \A f, S : Pool!Total(f, S) = Total(f, S)
BY Zenon DEF Pool!IsFiniteSet, Pool!Total, Pool!Units, Pool!Cardinality,
   IsFiniteSet, Total, Units, Cardinality

\* The inductive invariant: the rate in force is within the highest one, and a
\* token that is not initialized yet has no supply for initialize to reset.
PoolInv ==
  /\ Pool!TypeOK
  /\ Pool!TokensConserved
  /\ Pool!FeesBounded
  /\ fee_bps <= highest
  /\ tokenAdmin = None => supply = 0

\* What the assumptions and the types say of the numbers.
LEMMA PoolNumbers ==
  ASSUME Pool!PoolAssumption, Pool!TypeOK
  PROVE  /\ Pool!IsFiniteSet(PoolAddress) /\ PoolAccount \in PoolAddress
         /\ PoolMaxAmount \in Nat \ {0} /\ PoolMaxGross \in Nat /\ PoolBpsDenominator \in Nat \ {0}
         /\ balances \in [PoolAddress -> 0..PoolMaxAmount] /\ \A a \in PoolAddress : balances[a] \in Nat
         /\ supply \in Int /\ Pool!Total(balances, PoolAddress) \in Nat
         /\ fee_bps \in Nat /\ fee_bps <= PoolBpsDenominator /\ highest \in Nat
         /\ gross \in Nat /\ fees \in Nat
<1>1. /\ Pool!IsFiniteSet(PoolAddress) /\ PoolAccount \in PoolAddress
      /\ PoolMaxAmount \in Nat \ {0} /\ PoolMaxGross \in Nat /\ PoolBpsDenominator \in Nat \ {0}
  BY DEF Pool!PoolAssumption
<1>2. /\ balances \in [PoolAddress -> 0..PoolMaxAmount] /\ supply \in Int
  BY <1>1 DEF Pool!TypeOK, Pool!Token!TypeOK, Pool!Token!MinAmount
<1>3. \A a \in PoolAddress : balances[a] \in Nat
  BY <1>1, <1>2
<1>4. Pool!Total(balances, PoolAddress) \in Nat
  BY <1>1, <1>3, TotalNat, PoolTotals
<1>5. QED
  BY <1>1, <1>2, <1>3, <1>4 DEF Pool!TypeOK

LEMMA PoolInit ==
  ASSUME Pool!PoolAssumption, Pool!Init
  PROVE  PoolInv
<1>1. /\ balances = [a \in PoolAddress |-> 0] /\ supply = 0 /\ tokenAdmin = None
      /\ allowances = [g \in {} |-> None] /\ tokenLedger = 1 /\ tokenSigners = {} /\ saturated = FALSE
      /\ initialized = FALSE /\ fee_bps = 0 /\ treasury = None /\ locked_until = 0
      /\ gross = 0 /\ fees = 0 /\ highest = 0
  BY DEF Pool!Init, Pool!Token!Init
<1>2. /\ 0 \in 0..PoolMaxAmount /\ 0 \in 0..PoolMaxGross /\ 0 \in 0..PoolBpsDenominator
      /\ 1 \in 1..PoolMaxLedger /\ 0 \in Pool!Token!MinAmount..PoolMaxAmount
  BY DEF Pool!PoolAssumption, Pool!Token!MinAmount
<1>3. Pool!Token!TypeOK
  BY <1>1, <1>2 DEF Pool!Token!TypeOK
<1>4. Pool!TypeOK
  BY <1>1, <1>2, <1>3 DEF Pool!TypeOK
<1>5. Pool!Total(balances, PoolAddress) = 0
  BY <1>1, TotalZero, PoolTotals
<1>6. Pool!TokensConserved
  BY <1>1, <1>5 DEF Pool!TokensConserved
<1>7. Pool!FeesBounded
  BY <1>1 DEF Pool!FeesBounded, Pool!PoolAssumption
<1>8. QED
  BY <1>1, <1>4, <1>6, <1>7 DEF PoolInv

\* A transfer moves its amount from the sender to the recipient and creates
\* or loses nothing, also when the two are the same.
LEMMA DebitedMoves ==
  ASSUME Pool!PoolAssumption, NEW bal \in [PoolAddress -> 0..PoolMaxAmount], NEW from \in PoolAddress,
         NEW to \in PoolAddress, NEW n \in Int, Pool!Transferable(bal, from, to, n)
  PROVE  /\ Pool!Debited(bal, from, to, n) \in [PoolAddress -> 0..PoolMaxAmount]
         /\ Pool!Total(Pool!Debited(bal, from, to, n), PoolAddress) = Pool!Total(bal, PoolAddress)
         /\ \A a \in PoolAddress \ {from} : Pool!Debited(bal, from, to, n)[a] >= bal[a]
         /\ bal[from] <= Pool!Debited(bal, from, to, n)[from] + n
<1> DEFINE less == [bal EXCEPT ![from] = @ - n]  after == [less EXCEPT ![to] = @ + n]
<1>1. /\ n > 0 /\ bal[from] >= n /\ Pool!Debited(bal, from, to, n) = after /\ after[to] <= PoolMaxAmount
      /\ PoolMaxAmount \in Nat /\ n \in Nat /\ Pool!IsFiniteSet(PoolAddress)
  BY DEF Pool!Transferable, Pool!Debited, Pool!PoolAssumption
<1>2. less \in [PoolAddress -> 0..PoolMaxAmount] /\ less[from] = bal[from] - n
      /\ \A a \in PoolAddress \ {from} : less[a] = bal[a]
  BY <1>1
<1> HIDE DEF less
<1>3. /\ after \in [PoolAddress -> Int] /\ after[to] = less[to] + n
      /\ \A a \in PoolAddress \ {to} : after[a] = less[a]
  BY <1>1, <1>2
<1> HIDE DEF after
<1>4. after \in [PoolAddress -> 0..PoolMaxAmount]
  <2>1. \A a \in PoolAddress : after[a] \in 0..PoolMaxAmount
    BY <1>1, <1>2, <1>3
  <2>2. QED
    BY <1>3, <2>1
<1>5. \A a \in PoolAddress : bal[a] \in Nat /\ after[a] \in Nat
  BY <1>1, <1>4
<1>6. CASE from = to
  <2>1. \A a \in PoolAddress : after[a] = bal[a]
    BY <1>1, <1>2, <1>3, <1>5, <1>6
  <2>2. Pool!Total(after, PoolAddress) = Pool!Total(bal, PoolAddress)
    BY <2>1, TotalSame, PoolTotals
  <2>3. bal[from] <= after[from] + n
    BY <1>1, <1>5, <2>1
  <2>4. \A a \in PoolAddress : after[a] >= bal[a]
    BY <1>5, <2>1
  <2>5. QED
    BY <1>1, <1>4, <2>2, <2>3, <2>4
<1>7. CASE from # to
  <2>1. /\ after[from] = bal[from] - n /\ after[to] = bal[to] + n
        /\ \A a \in PoolAddress \ {from, to} : after[a] = bal[a]
    BY <1>1, <1>2, <1>3, <1>7
  <2>2. Pool!Total(after, PoolAddress) = Pool!Total(bal, PoolAddress)
    BY <1>1, <1>5, <1>7, <2>1, TotalMove, PoolTotals
  <2>3. bal[from] <= after[from] + n
    BY <1>1, <1>5, <2>1
  <2>4. \A a \in PoolAddress \ {from} : after[a] >= bal[a]
    BY <1>1, <1>5, <2>1
  <2>5. QED
    BY <1>1, <1>4, <2>2, <2>3, <2>4
<1>8. QED
  BY <1>6, <1>7

\* An invocation that redistributes the balances, or leaves them.
LEMMA Redistributed ==
  ASSUME Pool!PoolAssumption, PoolInv, UNCHANGED <<tokenAdmin, supply, allowances, saturated>>,
         balances' \in [PoolAddress -> 0..PoolMaxAmount],
         Pool!Total(balances', PoolAddress) = Pool!Total(balances, PoolAddress),
         tokenLedger' \in 1..PoolMaxLedger, tokenSigners' \subseteq PoolAddress
  PROVE  /\ Pool!Token!TypeOK' /\ Pool!TokensConserved'
         /\ tokenAdmin' = None => supply' = 0
<1>1. Pool!Token!TypeOK'
  BY DEF PoolInv, Pool!TypeOK, Pool!Token!TypeOK
<1>2. Pool!TokensConserved'
  BY DEF PoolInv, Pool!TokensConserved
<1>3. QED
  BY <1>1, <1>2 DEF PoolInv

\* The settings of the pool.
LEMMA SettingsKeep ==
  ASSUME Pool!PoolAssumption, PoolInv, UNCHANGED Pool!tokenVars, UNCHANGED <<gross, fees>>,
         initialized' \in BOOLEAN, treasury' \in PoolAddress \cup {None}, locked_until' \in Nat,
         fee_bps' \in 0..PoolBpsDenominator, highest' \in 0..PoolBpsDenominator,
         fee_bps' <= highest', highest <= highest'
  PROVE  PoolInv'
<1>1. /\ UNCHANGED <<tokenAdmin, balances, supply, allowances, tokenLedger, tokenSigners, saturated>>
      /\ Pool!Token!TypeOK
  BY DEF Pool!tokenVars, PoolInv, Pool!TypeOK
<1>2. Pool!Token!TypeOK' /\ Pool!TokensConserved' /\ (tokenAdmin' = None => supply' = 0)
  BY <1>1, Redistributed DEF Pool!Token!TypeOK
<1>3. Pool!TypeOK'
  BY <1>2 DEF PoolInv, Pool!TypeOK
<1>4. Pool!FeesBounded'
  <2>1. /\ gross \in Nat /\ fees \in Nat /\ highest \in Nat /\ highest' \in Nat
        /\ PoolBpsDenominator \in Nat /\ fees * PoolBpsDenominator <= gross * highest
    BY <1>3, PoolNumbers DEF PoolInv, Pool!FeesBounded, Pool!TypeOK
  <2> DEFINE h == highest'
  <2>2. h \in Nat /\ highest <= h
    BY <2>1
  <2> HIDE DEF h
  <2>3. gross * highest <= gross * h
    BY <2>1, <2>2
  <2>4. fees * PoolBpsDenominator <= gross * h
    BY <2>1, <2>2, <2>3
  <2>5. QED
    BY <2>4 DEF Pool!FeesBounded, h
<1>5. QED
  BY <1>2, <1>3, <1>4 DEF PoolInv

\* The truncated percentage of an amount.
LEMMA FeeOfAmount ==
  ASSUME Pool!PoolAssumption, PoolInv, NEW n \in Nat
  PROVE  Pool!Fee(n) \in Nat /\ Pool!Fee(n) <= n /\ Pool!Fee(n) * PoolBpsDenominator <= n * highest
<1>1. /\ fee_bps \in Nat /\ highest \in Nat /\ PoolBpsDenominator \in Nat \ {0}
      /\ fee_bps <= PoolBpsDenominator /\ fee_bps <= highest
  BY PoolNumbers DEF PoolInv
<1> DEFINE p == n * fee_bps  q == p \div PoolBpsDenominator
<1>2. p \in Nat
  BY <1>1
<1>3. p <= n * PoolBpsDenominator
  BY <1>1
<1>4. p <= n * highest
  BY <1>1
<1> HIDE DEF p
<1>5. q \in Nat /\ q * PoolBpsDenominator <= p
  BY <1>1, <1>2
<1>6. Pool!Fee(n) = q
  BY DEF Pool!Fee, p, q
<1> HIDE DEF q
<1>7. q <= n
  <2>1. q * PoolBpsDenominator <= n * PoolBpsDenominator
    BY <1>1, <1>2, <1>3, <1>5
  <2>2. QED
    BY <1>1, <1>5, <2>1
<1>8. q * PoolBpsDenominator <= n * highest
  <2> DEFINE x == q * PoolBpsDenominator  y == n * highest
  <2>1. x \in Nat /\ y \in Nat /\ x <= p /\ p <= y
    BY <1>1, <1>4, <1>5
  <2> HIDE DEF x, y
  <2>2. x <= y
    BY <1>2, <2>1
  <2>3. QED
    BY <2>2 DEF x, y
<1>9. QED
  BY <1>5, <1>6, <1>7, <1>8

\* The balances after a withdrawal: no token appears or is lost in the two
\* transfers, and only the pool's own balance can fall, by the amount at most.
LEMMA WithdrawalMoves ==
  ASSUME Pool!PoolAssumption, PoolInv, NEW to \in PoolAddress, NEW n \in PoolAmounts, Pool!Withdraw(to, n)
  PROVE  /\ balances' \in [PoolAddress -> 0..PoolMaxAmount]
         /\ Pool!Total(balances', PoolAddress) = Pool!Total(balances, PoolAddress)
         /\ \A a \in PoolAddress \ {PoolAccount} : balances'[a] >= balances[a]
         /\ balances[PoolAccount] <= balances'[PoolAccount] + n
<1> DEFINE fee == Pool!Fee(n)  mid == Pool!AfterFee(n)
<1>1. /\ n \in Nat /\ n > 0 /\ Pool!Withdrawable(to, n)
      /\ balances' = Pool!Debited(mid, PoolAccount, to, n - fee)
      /\ fee > 0 => treasury # None /\ Pool!Transferable(balances, PoolAccount, treasury, fee)
      /\ Pool!Transferable(mid, PoolAccount, to, n - fee)
  <2>1. Pool!Withdrawable(to, n) /\ balances' = Pool!Debited(mid, PoolAccount, to, n - fee)
    BY DEF Pool!Withdraw
  <2>2. /\ n > 0 /\ Pool!Transferable(mid, PoolAccount, to, n - fee)
        /\ fee > 0 => treasury # None /\ Pool!Transferable(balances, PoolAccount, treasury, fee)
    BY <2>1, Zenon DEF Pool!Withdrawable
  <2>3. n \in Nat
    BY <2>2 DEF Pool!PoolAssumption
  <2>4. QED
    BY <2>1, <2>2, <2>3
<1>2. /\ fee \in Nat /\ fee <= n /\ Pool!TypeOK /\ PoolAccount \in PoolAddress
      /\ balances \in [PoolAddress -> 0..PoolMaxAmount] /\ PoolMaxAmount \in Nat
      /\ treasury # None => treasury \in PoolAddress
  BY <1>1, FeeOfAmount, PoolNumbers DEF PoolInv, Pool!TypeOK
<1>3. mid = IF fee > 0 THEN Pool!Debited(balances, PoolAccount, treasury, fee) ELSE balances
  BY DEF Pool!AfterFee
<1> HIDE DEF fee, mid
<1>4. /\ mid \in [PoolAddress -> 0..PoolMaxAmount] /\ Pool!Total(mid, PoolAddress) = Pool!Total(balances, PoolAddress)
      /\ \A a \in PoolAddress \ {PoolAccount} : mid[a] >= balances[a]
      /\ balances[PoolAccount] <= mid[PoolAccount] + fee
  <2>1. CASE fee > 0
    <3>1. treasury \in PoolAddress /\ Pool!Transferable(balances, PoolAccount, treasury, fee) /\ fee \in Int
          /\ mid = Pool!Debited(balances, PoolAccount, treasury, fee)
      BY <1>1, <1>2, <1>3, <2>1
    <3>2. QED
      BY <1>2, <3>1, DebitedMoves
  <2>2. CASE ~(fee > 0)
    BY <1>2, <1>3, <2>2
  <2>3. QED
    BY <2>1, <2>2
<1> DEFINE after == Pool!Debited(mid, PoolAccount, to, n - fee)
<1>5. /\ after \in [PoolAddress -> 0..PoolMaxAmount] /\ Pool!Total(after, PoolAddress) = Pool!Total(mid, PoolAddress)
      /\ \A a \in PoolAddress \ {PoolAccount} : after[a] >= mid[a]
      /\ mid[PoolAccount] <= after[PoolAccount] + (n - fee)
  BY <1>1, <1>2, <1>4, DebitedMoves
<1>6. balances' = after
  BY <1>1
<1> HIDE DEF after
<1>7. \A a \in PoolAddress : balances[a] \in Nat /\ mid[a] \in Nat /\ after[a] \in Nat
  BY <1>2, <1>4, <1>5
<1>8. \A a \in PoolAddress \ {PoolAccount} : after[a] >= balances[a]
  BY <1>4, <1>5, <1>7
<1>9. balances[PoolAccount] <= after[PoolAccount] + n
  BY <1>1, <1>2, <1>4, <1>5, <1>7
<1>10. QED
  BY <1>4, <1>5, <1>6, <1>8, <1>9

LEMMA WithdrawalKeeps ==
  ASSUME Pool!PoolAssumption, PoolInv, NEW to \in PoolAddress, NEW n \in PoolAmounts, Pool!Withdraw(to, n)
  PROVE  PoolInv'
<1>1. /\ n \in Nat /\ gross' = gross + n /\ fees' = fees + Pool!Fee(n) /\ gross + n <= PoolMaxGross
      /\ UNCHANGED <<initialized, fee_bps, treasury, locked_until, highest,
                     tokenAdmin, supply, allowances, tokenLedger, saturated>>
      /\ tokenSigners' = {}
  BY DEF Pool!Withdraw, Pool!Withdrawable, Pool!PoolAssumption
<1>2. Pool!Token!TypeOK' /\ Pool!TokensConserved' /\ (tokenAdmin' = None => supply' = 0)
  <2>1. tokenLedger' \in 1..PoolMaxLedger /\ tokenSigners' \subseteq PoolAddress
    BY <1>1 DEF PoolInv, Pool!TypeOK, Pool!Token!TypeOK
  <2>2. QED
    BY <1>1, <2>1, WithdrawalMoves, Redistributed
<1>3. /\ gross \in Nat /\ fees \in Nat /\ highest \in Nat /\ PoolBpsDenominator \in Nat \ {0}
      /\ PoolMaxGross \in Nat /\ fees * PoolBpsDenominator <= gross * highest /\ highest <= PoolBpsDenominator
  BY PoolNumbers DEF PoolInv, Pool!FeesBounded, Pool!TypeOK
<1> DEFINE fee == Pool!Fee(n)
<1>4. fee \in Nat /\ fee * PoolBpsDenominator <= n * highest
  BY <1>1, FeeOfAmount
<1>5. fees' = fees + fee
  BY <1>1
<1> HIDE DEF fee
<1>6. (fees + fee) * PoolBpsDenominator <= (gross + n) * highest
  <2>1. /\ (fees + fee) * PoolBpsDenominator = fees * PoolBpsDenominator + fee * PoolBpsDenominator
        /\ (gross + n) * highest = gross * highest + n * highest
    BY <1>1, <1>3, <1>4
  <2> DEFINE a == fees * PoolBpsDenominator  b == fee * PoolBpsDenominator
             c == gross * highest  d == n * highest
  <2>2. a \in Nat /\ b \in Nat /\ c \in Nat /\ d \in Nat /\ a <= c /\ b <= d
    BY <1>1, <1>3, <1>4
  <2> HIDE DEF a, b, c, d
  <2>3. a + b <= c + d
    BY <2>2
  <2>4. QED
    BY <2>1, <2>3 DEF a, b, c, d
<1>7. fees + fee <= gross + n
  <2> DEFINE x == fees + fee  y == gross + n
  <2>1. x \in Nat /\ y \in Nat /\ x * PoolBpsDenominator <= y * highest
    BY <1>1, <1>3, <1>4, <1>6
  <2> HIDE DEF x, y
  <2>2. y * highest <= y * PoolBpsDenominator
    BY <1>3, <2>1
  <2>3. x * PoolBpsDenominator <= y * PoolBpsDenominator
    <3> DEFINE p == x * PoolBpsDenominator  q == y * PoolBpsDenominator  r == y * highest
    <3>1. p \in Nat /\ q \in Nat /\ r \in Nat /\ p <= r /\ r <= q
      BY <1>3, <2>1, <2>2
    <3> HIDE DEF p, q, r
    <3>2. p <= q
      BY <3>1
    <3>3. QED
      BY <3>2 DEF p, q
  <2>4. x <= y
    BY <1>3, <2>1, <2>3
  <2>5. QED
    BY <2>4 DEF x, y
<1>8. gross' \in 0..PoolMaxGross /\ fees' \in 0..PoolMaxGross
  BY <1>1, <1>3, <1>4, <1>5, <1>7
<1>9. Pool!TypeOK'
  BY <1>1, <1>2, <1>8 DEF PoolInv, Pool!TypeOK
<1>10. Pool!FeesBounded'
  BY <1>1, <1>5, <1>6 DEF Pool!FeesBounded
<1>11. QED
  BY <1>1, <1>2, <1>9, <1>10 DEF PoolInv

\* A mint adds as much to the supply as to the holdings, until one of them
\* reaches the ceiling.
LEMMA PoolMintKeeps ==
  ASSUME Pool!PoolAssumption, PoolInv, NEW a \in PoolAddress, NEW n \in PoolAmounts, Pool!Token!Mint(a, n)
  PROVE  /\ Pool!Token!TypeOK' /\ Pool!TokensConserved'
         /\ tokenAdmin' = None => supply' = 0
<1>1. /\ n \in Nat /\ n > 0 /\ tokenAdmin # None /\ tokenSigners' = {tokenAdmin}
      /\ balances' = [balances EXCEPT ![a] = Pool!Token!Saturate(balances[a] + n)]
      /\ supply' = Pool!Token!Saturate(supply + n)
      /\ saturated' = (saturated \/ balances[a] + n > PoolMaxAmount \/ supply + n > PoolMaxAmount)
      /\ UNCHANGED <<tokenAdmin, allowances, tokenLedger>>
  <2>1. /\ n > 0 /\ tokenAdmin # None /\ tokenSigners' = {tokenAdmin}
        /\ balances' = [balances EXCEPT ![a] = Pool!Token!Saturate(balances[a] + n)]
        /\ supply' = Pool!Token!Saturate(supply + n)
        /\ saturated' = (saturated \/ balances[a] + n > PoolMaxAmount \/ supply + n > PoolMaxAmount)
        /\ UNCHANGED <<tokenAdmin, allowances, tokenLedger>>
    BY Zenon DEF Pool!Token!Mint, Pool!Token!Authorized
  <2>2. n \in Nat
    BY <2>1 DEF Pool!PoolAssumption
  <2>3. QED
    BY <2>1, <2>2, Zenon
<1>2. /\ PoolMaxAmount \in Nat \ {0} /\ balances \in [PoolAddress -> 0..PoolMaxAmount] /\ balances[a] \in Nat
      /\ Pool!Token!TypeOK /\ supply \in Pool!Token!MinAmount..PoolMaxAmount /\ Pool!IsFiniteSet(PoolAddress)
      /\ \A x \in PoolAddress : balances[x] \in Nat
      /\ Pool!Token!MinAmount = -PoolMaxAmount - 1
  BY PoolNumbers DEF PoolInv, Pool!TypeOK, Pool!Token!TypeOK, Pool!Token!MinAmount
<1>3. ASSUME NEW m \in Int
      PROVE  /\ Pool!Token!Saturate(m) \in Pool!Token!MinAmount..PoolMaxAmount
             /\ m >= 0 => Pool!Token!Saturate(m) \in 0..PoolMaxAmount
             /\ m <= PoolMaxAmount /\ m >= Pool!Token!MinAmount => Pool!Token!Saturate(m) = m
  BY <1>2 DEF Pool!Token!Saturate
<1>4. balances' \in [PoolAddress -> 0..PoolMaxAmount] /\ balances'[a] = Pool!Token!Saturate(balances[a] + n)
      /\ \A x \in PoolAddress \ {a} : balances'[x] = balances[x]
  <2>1. Pool!Token!Saturate(balances[a] + n) \in 0..PoolMaxAmount
    BY <1>1, <1>2, <1>3
  <2>2. QED
    BY <1>1, <1>2, <2>1
<1>5. Pool!Token!TypeOK'
  <2>1. supply' \in Pool!Token!MinAmount..PoolMaxAmount
    BY <1>1, <1>2, <1>3
  <2>2. saturated' \in BOOLEAN /\ tokenSigners' \subseteq PoolAddress
    BY <1>1, <1>2 DEF Pool!Token!TypeOK
  <2>3. QED
    BY <1>1, <1>2, <1>4, <2>1, <2>2 DEF Pool!Token!TypeOK
<1>6. Pool!TokensConserved'
  <2> SUFFICES ASSUME ~saturated' PROVE supply' = Pool!Total(balances', PoolAddress)
    BY DEF Pool!TokensConserved
  <2>1. ~(saturated \/ balances[a] + n > PoolMaxAmount \/ supply + n > PoolMaxAmount)
    BY <1>1, Zenon
  <2>2. supply = Pool!Total(balances, PoolAddress)
    BY <2>1 DEF PoolInv, Pool!TokensConserved
  <2>3. Pool!Total(balances, PoolAddress) \in Nat /\ supply \in Int
    BY PoolNumbers DEF PoolInv
  <2>4. balances'[a] = balances[a] + n /\ supply' = supply + n
    BY <1>1, <1>2, <1>3, <1>4, <2>1, <2>2, <2>3
  <2>5. Pool!Total(balances', PoolAddress) = Pool!Total(balances, PoolAddress) - balances[a] + balances'[a]
    <3>1. \A x \in PoolAddress : balances'[x] \in Nat
      BY <1>2, <1>4
    <3>2. QED
      BY <1>2, <1>4, <3>1, TotalChange, PoolTotals
  <2>6. QED
    BY <1>1, <1>2, <2>2, <2>3, <2>4, <2>5
<1>7. QED
  BY <1>1, <1>5, <1>6

LEMMA PoolStep ==
  ASSUME Pool!PoolAssumption, PoolInv, [Pool!Next]_poolVars
  PROVE  PoolInv'
<1>1. /\ initialized \in BOOLEAN /\ treasury \in PoolAddress \cup {None} /\ locked_until \in Nat
      /\ fee_bps \in 0..PoolBpsDenominator /\ highest \in 0..PoolBpsDenominator
      /\ fee_bps <= highest /\ highest \in Nat /\ fee_bps \in Nat /\ PoolBpsDenominator \in Nat
      /\ Pool!Token!TypeOK /\ Pool!TypeOK
  BY PoolNumbers DEF PoolInv, Pool!TypeOK
<1>2. CASE Pool!Initialize
  <2>1. 0 \in 0..PoolBpsDenominator /\ 0 <= highest /\ highest <= highest /\ 0 \in Nat
    BY <1>1
  <2>2. QED
    BY <1>1, <1>2, <2>1, SettingsKeep DEF Pool!Initialize
<1>3. ASSUME NEW bps \in PoolFeeRates, Pool!UpdateFee(bps)
      PROVE  PoolInv'
  <2>1. /\ bps \in Nat /\ bps <= PoolBpsDenominator /\ fee_bps' = bps
        /\ highest' = IF bps > highest THEN bps ELSE highest
        /\ UNCHANGED <<initialized, treasury, locked_until, gross, fees, Pool!tokenVars>>
    BY <1>3 DEF Pool!UpdateFee, Pool!PoolAssumption
  <2>2. /\ fee_bps' \in 0..PoolBpsDenominator /\ highest' \in 0..PoolBpsDenominator
        /\ fee_bps' <= highest' /\ highest <= highest'
    BY <1>1, <2>1
  <2>3. QED
    BY <1>1, <2>1, <2>2, SettingsKeep
<1>4. ASSUME NEW a \in PoolAddress, Pool!UpdateTreasury(a)
      PROVE  PoolInv'
  BY <1>1, <1>4, SettingsKeep DEF Pool!UpdateTreasury
<1>5. ASSUME NEW t \in PoolLockTimes, Pool!SetLockedUntil(t)
      PROVE  PoolInv'
  BY <1>1, <1>5, SettingsKeep DEF Pool!SetLockedUntil, Pool!PoolAssumption
<1>6. ASSUME UNCHANGED Pool!poolVars, Pool!Token!TypeOK', Pool!TokensConserved',
             tokenAdmin' = None => supply' = 0
      PROVE  PoolInv'
  BY <1>6 DEF Pool!poolVars, PoolInv, Pool!TypeOK, Pool!FeesBounded
<1>7. ASSUME NEW a \in PoolAddress, NEW n \in PoolAmounts, Pool!Deposit(a, n)
      PROVE  PoolInv'
  <2>1. /\ n \in Int /\ PoolAccount \in PoolAddress /\ balances \in [PoolAddress -> 0..PoolMaxAmount]
    BY <1>1, PoolNumbers DEF Pool!PoolAssumption
  <2>2. /\ UNCHANGED Pool!poolVars /\ tokenSigners' = {a} /\ Pool!Transferable(balances, a, PoolAccount, n)
        /\ balances' = Pool!Debited(balances, a, PoolAccount, n)
        /\ UNCHANGED <<tokenAdmin, supply, allowances, tokenLedger, saturated>>
    <3>1. /\ UNCHANGED Pool!poolVars /\ tokenSigners' = {a} /\ n > 0 /\ Pool!Token!Move(a, PoolAccount, n)
          /\ UNCHANGED <<tokenAdmin, supply, allowances, tokenLedger, saturated>>
      BY <1>7 DEF Pool!Deposit, Pool!Token!Transfer, Pool!Token!Authorized
    <3> DEFINE less == [balances EXCEPT ![a] = @ - n]
    <3>2. /\ balances[a] >= n /\ less[PoolAccount] + n <= PoolMaxAmount
          /\ balances' = [less EXCEPT ![PoolAccount] = @ + n]
      BY <3>1 DEF Pool!Token!Move
    <3>3. less \in [PoolAddress -> Int]
      BY <2>1
    <3>4. Pool!Debited(balances, a, PoolAccount, n) = [less EXCEPT ![PoolAccount] = @ + n]
      BY DEF Pool!Debited
    <3> HIDE DEF less
    <3>5. [less EXCEPT ![PoolAccount] = @ + n][PoolAccount] <= PoolMaxAmount
      BY <2>1, <3>2, <3>3
    <3>6. QED
      BY <3>1, <3>2, <3>4, <3>5 DEF Pool!Transferable
  <2>3. /\ balances' \in [PoolAddress -> 0..PoolMaxAmount]
        /\ Pool!Total(balances', PoolAddress) = Pool!Total(balances, PoolAddress)
    BY <2>1, <2>2, DebitedMoves
  <2>4. tokenLedger' \in 1..PoolMaxLedger /\ tokenSigners' \subseteq PoolAddress
    BY <1>1, <2>2 DEF Pool!Token!TypeOK
  <2>5. QED
    BY <1>6, <2>2, <2>3, <2>4, Redistributed
<1>8. CASE \E a \in PoolAddress, n \in PoolAmounts : Pool!Withdraw(a, n)
  BY <1>8, WithdrawalKeeps
<1>9. ASSUME NEW a \in PoolAddress, Pool!Token!Initialize(a), UNCHANGED Pool!poolVars
      PROVE  PoolInv'
  <2>1. /\ tokenAdmin = None /\ tokenAdmin' = a /\ supply' = 0 /\ tokenSigners' = {}
        /\ UNCHANGED <<balances, allowances, tokenLedger, saturated>>
    BY <1>9 DEF Pool!Token!Initialize, Pool!Token!Authorized
  <2>2. supply' = supply
    BY <2>1 DEF PoolInv
  <2>3. Pool!Token!TypeOK'
    BY <1>1, <2>1, <2>2 DEF Pool!Token!TypeOK
  <2>4. Pool!TokensConserved'
    BY <2>1, <2>2 DEF PoolInv, Pool!TokensConserved
  <2>5. QED
    BY <1>6, <1>9, <2>1, <2>3, <2>4
<1>10. ASSUME NEW a \in PoolAddress, NEW n \in PoolAmounts, Pool!Token!Mint(a, n), UNCHANGED Pool!poolVars
       PROVE  PoolInv'
  BY <1>6, <1>10, PoolMintKeeps
<1>11. ASSUME Pool!Token!CloseLedger, UNCHANGED Pool!poolVars
       PROVE  PoolInv'
  <2>1. /\ tokenLedger' = tokenLedger + 1 /\ tokenLedger < PoolMaxLedger
        /\ UNCHANGED <<tokenAdmin, balances, supply, allowances, tokenSigners, saturated>>
    BY <1>11 DEF Pool!Token!CloseLedger
  <2>2. tokenLedger' \in 1..PoolMaxLedger
    BY <1>1, <2>1 DEF Pool!Token!TypeOK, Pool!PoolAssumption
  <2>3. QED
    BY <1>1, <1>6, <1>11, <2>1, <2>2, Redistributed DEF Pool!Token!TypeOK
<1>12. CASE Pool!TokenStep
  BY <1>9, <1>10, <1>11, <1>12 DEF Pool!TokenStep
<1>13. CASE UNCHANGED poolVars
  BY <1>1, <1>13, SettingsKeep DEF poolVars, Pool!poolVars, Pool!tokenVars
<1>14. QED
  BY <1>2, <1>3, <1>4, <1>5, <1>7, <1>8, <1>12, <1>13 DEF Pool!Next

\* In a step that withdraws, only the pool pays.
OnlyPool ==
  gross' # gross =>
    /\ balances[PoolAccount] - balances'[PoolAccount] <= gross' - gross
    /\ \A a \in PoolAddress \ {PoolAccount} : balances'[a] >= balances[a]

\* A difference is at most another one.
LEMMA Differences ==
  ASSUME NEW u \in Int, NEW v \in Int, NEW w \in Int, NEW x \in Int, NEW y \in Int,
         u <= v + w, x = y + w
  PROVE  u - v <= x - y
OBVIOUS

LEMMA OnlyPoolStep ==
  ASSUME Pool!PoolAssumption, PoolInv, [Pool!Next]_poolVars
  PROVE  OnlyPool
<1>1. ASSUME NEW a \in PoolAddress, NEW n \in PoolAmounts, Pool!Withdraw(a, n)
      PROVE  OnlyPool
  <2>1. /\ gross' = gross + n /\ n \in Int /\ gross \in Int /\ gross' \in Int
        /\ balances[PoolAccount] \in Int /\ balances'[PoolAccount] \in Int
    <3>1. gross' = gross + n /\ n \in Int
      BY <1>1 DEF Pool!Withdraw, Pool!PoolAssumption
    <3>2. gross \in Int /\ balances[PoolAccount] \in Int
      BY PoolNumbers DEF PoolInv
    <3>3. balances'[PoolAccount] \in Int
      BY <1>1, WithdrawalMoves, PoolNumbers DEF PoolInv
    <3>4. QED
      BY <3>1, <3>2, <3>3
  <2>2. balances[PoolAccount] <= balances'[PoolAccount] + n
    BY <1>1, WithdrawalMoves
  <2>3. balances[PoolAccount] - balances'[PoolAccount] <= gross' - gross
    BY <2>1, <2>2, Differences
  <2>4. QED
    BY <1>1, <2>3, WithdrawalMoves DEF OnlyPool
<1>2. CASE gross' = gross
  BY <1>2 DEF OnlyPool
<1>3. CASE ~(\E a \in PoolAddress, n \in PoolAmounts : Pool!Withdraw(a, n))
  <2>1. gross' = gross
    BY <1>3 DEF Pool!Next, poolVars, Pool!poolVars, Pool!Initialize, Pool!UpdateFee,
       Pool!UpdateTreasury, Pool!SetLockedUntil,
                Pool!Deposit, Pool!TokenStep
  <2>2. QED
    BY <1>2, <2>1
<1>4. QED
  BY <1>1, <1>3

-----------------------------------------------------------------------------
(* redemption *)

\* Finite sets and sums are the library's.
LEMMA RedemptionTotals ==
  /\ \A S : Redemption!IsFiniteSet(S) <=> IsFiniteSet(S)
  /\ \A f, S : Redemption!Total(f, S) = Total(f, S)
BY Zenon DEF Redemption!IsFiniteSet, Redemption!Total, Redemption!Units, Redemption!Cardinality,
   IsFiniteSet, Total, Units, Cardinality

\* The last ledger in which a reward issued in the given window can be redeemed.
LastLedger(w) == IF w.offset = 0 \/ w.at + w.offset > RedemptionMaxLedger THEN RedemptionMaxLedger ELSE w.at + w.offset

\* The stored expiry is that of the window in force at the issue.
Windowed == \A k \in Redemption!Stored : rewards[k].expiration_ledger = LastLedger(window[k])

RedemptionInv == Redemption!TypeOK /\ Windowed /\ Redemption!IssuedAccounted

\* The claimable amounts of a campaign are natural numbers.
LEMMA ClaimableNat ==
  ASSUME Redemption!RedemptionAssumption, Redemption!TypeOK
  PROVE  /\ \A k \in Redemption!Key : Redemption!Claimable[k] \in Nat
         /\ \A c \in RedemptionCampaign : /\ Redemption!IsFiniteSet({c} \X RedemptionUser) /\ {c} \X RedemptionUser \subseteq Redemption!Key
                               /\ Redemption!Total(Redemption!Claimable, {c} \X RedemptionUser) \in Nat
<1>1. \A k \in Redemption!Key : Redemption!Claimable[k] \in Nat
  BY DEF Redemption!TypeOK, Redemption!Claimable, Redemption!Unclaimed, Redemption!Stored,
     Redemption!RewardRecord, Redemption!RedemptionAssumption
<1>2. ASSUME NEW c \in RedemptionCampaign
      PROVE  Redemption!IsFiniteSet({c} \X RedemptionUser) /\ {c} \X RedemptionUser \subseteq Redemption!Key
  <2>1. Redemption!IsFiniteSet({c}) /\ Redemption!IsFiniteSet(RedemptionUser)
    BY FS_Singleton, RedemptionTotals DEF Redemption!RedemptionAssumption
  <2>2. Redemption!IsFiniteSet({c} \X RedemptionUser)
    BY <2>1, FS_Product, RedemptionTotals, Zenon
  <2>3. QED
    BY <2>2 DEF Redemption!Key
<1>3. ASSUME NEW c \in RedemptionCampaign PROVE Redemption!Total(Redemption!Claimable, {c} \X RedemptionUser) \in Nat
  <2>1. \A k \in {c} \X RedemptionUser : Redemption!Claimable[k] \in Nat
    BY <1>1, <1>2
  <2> HIDE DEF Redemption!Claimable
  <2>2. QED
    BY <1>2, <2>1, TotalNat, RedemptionTotals
<1>4. QED
  BY <1>1, <1>2, <1>3

\* Writing one reward changes the claimable amount of its campaign only.
LEMMA OneReward ==
  ASSUME Redemption!RedemptionAssumption, Redemption!TypeOK, NEW next, next \in [Redemption!Key -> Nat],
         NEW c \in RedemptionCampaign, NEW u \in RedemptionUser,
         \A k \in Redemption!Key : k # <<c, u>> => next[k] = Redemption!Claimable[k]
  PROVE  /\ Redemption!Total(next, {c} \X RedemptionUser) =
               Redemption!Total(Redemption!Claimable, {c} \X RedemptionUser) - Redemption!Claimable[<<c, u>>] + next[<<c, u>>]
         /\ \A d \in RedemptionCampaign : d # c => Redemption!Total(next, {d} \X RedemptionUser) = Redemption!Total(Redemption!Claimable, {d} \X RedemptionUser)
<1> DEFINE before == Redemption!Claimable  S == {c} \X RedemptionUser  key == <<c, u>>
<1>1. /\ Redemption!IsFiniteSet(S) /\ S \subseteq Redemption!Key /\ key \in S
      /\ \A k \in S : before[k] \in Nat /\ next[k] \in Nat
      /\ \A k \in S \ {key} : next[k] = before[k]
  BY ClaimableNat
<1>2. \A d \in RedemptionCampaign : d # c => \A k \in {d} \X RedemptionUser : next[k] = before[k]
  BY DEF Redemption!Key
<1> HIDE DEF before, S, key
<1>3. Redemption!Total(next, S) = Redemption!Total(before, S) - before[key] + next[key]
  BY <1>1, TotalChange, RedemptionTotals
<1>4. \A d \in RedemptionCampaign : d # c => Redemption!Total(next, {d} \X RedemptionUser) = Redemption!Total(before, {d} \X RedemptionUser)
  BY <1>2, TotalSame, RedemptionTotals
<1>5. QED
  BY <1>3, <1>4 DEF before, S, key

LEMMA RedemptionInit ==
  ASSUME Redemption!RedemptionAssumption, Redemption!Init
  PROVE  RedemptionInv
<1>1. 0 \in 0..RedemptionMaxLedger /\ 0 \in 0..RedemptionMaxAmount /\ 0 \in Nat
  BY DEF Redemption!RedemptionAssumption
<1>2. /\ campaign_expiry \in [RedemptionCampaign -> 0..RedemptionMaxLedger] /\ treasury_pool \in [RedemptionCampaign -> 0..RedemptionMaxAmount]
      /\ issued \in [RedemptionCampaign -> Nat] /\ paid \in [RedemptionCampaign -> Nat] /\ overwritten \in [RedemptionCampaign -> Nat]
      /\ rewards \in [Redemption!Key -> Redemption!RewardRecord \cup {None}] /\ redemptionInitialised \in BOOLEAN /\ ledger \in 0..RedemptionMaxLedger
  BY <1>1 DEF Redemption!Init
<1>3. window \in [Redemption!Key -> [at : 0..RedemptionMaxLedger, offset : 0..RedemptionMaxLedger]]
  BY <1>1 DEF Redemption!Init
<1>4. Redemption!TypeOK
  BY <1>2, <1>3 DEF Redemption!TypeOK
<1>5. Redemption!Stored = {} /\ Redemption!Unclaimed = {}
  BY DEF Redemption!Init, Redemption!Stored, Redemption!Unclaimed
<1>6. Windowed
  BY <1>5 DEF Windowed
<1>7. \A c \in RedemptionCampaign : Redemption!Total(Redemption!Claimable, {c} \X RedemptionUser) = 0
  <2>1. \A c \in RedemptionCampaign : \A k \in {c} \X RedemptionUser : Redemption!Claimable[k] = 0
    BY <1>5 DEF Redemption!Claimable, Redemption!Key
  <2>2. QED
    BY <2>1, TotalZero, RedemptionTotals
<1>8. Redemption!IssuedAccounted
  BY <1>7 DEF Redemption!IssuedAccounted, Redemption!Init
<1>9. QED
  BY <1>4, <1>6, <1>8 DEF RedemptionInv

\* issue_reward: the new amount becomes claimable, an unclaimed one is replaced.
LEMMA IssueRewardKeeps ==
  ASSUME Redemption!RedemptionAssumption, RedemptionInv, NEW c \in RedemptionCampaign, NEW u \in RedemptionUser,
         NEW n \in RedemptionAmounts, Redemption!IssueReward(c, u, n)
  PROVE  RedemptionInv'
<1> DEFINE key == <<c, u>>
           new == [amount |-> n, expiration_ledger |-> Redemption!ExpirationFor(c), redeemed |-> FALSE]
           old == IF key \in Redemption!Unclaimed THEN rewards[key].amount ELSE 0
<1>1. /\ rewards' = [rewards EXCEPT ![key] = new]
      /\ issued' = [issued EXCEPT ![c] = @ + n] /\ n > 0 /\ issued[c] + n <= RedemptionMaxIssued
      /\ overwritten' = IF key \in Redemption!Unclaimed THEN [overwritten EXCEPT ![c] = @ + rewards[key].amount]
                        ELSE overwritten
      /\ window' = [window EXCEPT ![key] = [at |-> ledger, offset |-> campaign_expiry[c]]]
      /\ UNCHANGED <<redemptionInitialised, campaign_expiry, treasury_pool, ledger, paid>>
  BY DEF Redemption!IssueReward
<1>2. /\ key \in Redemption!Key /\ rewards \in [Redemption!Key -> Redemption!RewardRecord \cup {None}]
      /\ ledger \in 0..RedemptionMaxLedger /\ campaign_expiry[c] \in 0..RedemptionMaxLedger
      /\ issued \in [RedemptionCampaign -> Nat] /\ overwritten \in [RedemptionCampaign -> Nat]
      /\ paid \in [RedemptionCampaign -> Nat] /\ treasury_pool \in [RedemptionCampaign -> 0..RedemptionMaxAmount]
      /\ window \in [Redemption!Key -> [at : 0..RedemptionMaxLedger, offset : 0..RedemptionMaxLedger]]
      /\ RedemptionMaxLedger \in Nat /\ RedemptionMaxAmount \in Nat /\ n \in 1..RedemptionMaxAmount /\ RedemptionMaxIssued \in 0..RedemptionMaxAmount
  BY <1>1 DEF RedemptionInv, Redemption!TypeOK, Redemption!Key, Redemption!RedemptionAssumption
<1>3. /\ Redemption!ExpirationFor(c) = LastLedger([at |-> ledger, offset |-> campaign_expiry[c]])
      /\ Redemption!ExpirationFor(c) \in 0..RedemptionMaxLedger
  BY <1>2 DEF Redemption!ExpirationFor, LastLedger
<1>4. new \in Redemption!RewardRecord /\ new # None /\ new.amount = n /\ ~new.redeemed
      /\ new.expiration_ledger = Redemption!ExpirationFor(c)
  <2>1. new \in Redemption!RewardRecord
    BY <1>2, <1>3 DEF Redemption!RewardRecord
  <2>2. new # None
    BY <2>1 DEF Redemption!RedemptionAssumption
  <2>3. QED
    BY <2>1, <2>2
<1> HIDE DEF new
<1>5. /\ rewards'[key] = new /\ \A k \in Redemption!Key : k # key => rewards'[k] = rewards[k]
      /\ rewards' \in [Redemption!Key -> Redemption!RewardRecord \cup {None}]
      /\ window'[key] = [at |-> ledger, offset |-> campaign_expiry[c]]
      /\ \A k \in Redemption!Key : k # key => window'[k] = window[k]
      /\ window' \in [Redemption!Key -> [at : 0..RedemptionMaxLedger, offset : 0..RedemptionMaxLedger]]
  BY <1>1, <1>2, <1>4
<1>6. old \in Nat /\ (key \in Redemption!Unclaimed => rewards[key].amount \in Nat)
  BY <1>2 DEF Redemption!Unclaimed, Redemption!Stored, Redemption!RewardRecord
<1>7. /\ issued' \in [RedemptionCampaign -> Nat] /\ overwritten' \in [RedemptionCampaign -> Nat]
      /\ issued'[c] = issued[c] + n /\ overwritten'[c] = overwritten[c] + old
      /\ \A d \in RedemptionCampaign : d # c => issued'[d] = issued[d] /\ overwritten'[d] = overwritten[d]
  BY <1>1, <1>2, <1>6
<1>8. Redemption!TypeOK'
  BY <1>1, <1>5, <1>7 DEF RedemptionInv, Redemption!TypeOK
<1>9. Windowed'
  BY <1>1, <1>3, <1>4, <1>5 DEF RedemptionInv, Windowed, Redemption!Stored, LastLedger
<1>10. /\ Redemption!Claimable'[key] = n /\ Redemption!Claimable[key] = old
       /\ \A k \in Redemption!Key : k # key => Redemption!Claimable'[k] = Redemption!Claimable[k]
       /\ Redemption!Claimable' \in [Redemption!Key -> Nat]
  <2>1. \A k \in Redemption!Key : Redemption!Claimable'[k] = IF rewards'[k] # None /\ ~rewards'[k].redeemed
                                       THEN rewards'[k].amount ELSE 0
    BY DEF Redemption!Claimable, Redemption!Unclaimed, Redemption!Stored
  <2>2. Redemption!Claimable'[key] = n /\ Redemption!Claimable[key] = old
    BY <1>2, <1>4, <1>5, <2>1 DEF Redemption!Claimable
  <2>3. \A k \in Redemption!Key : k # key => Redemption!Claimable'[k] = Redemption!Claimable[k]
    BY <1>5, <2>1 DEF Redemption!Claimable, Redemption!Unclaimed, Redemption!Stored
  <2>4. \A k \in Redemption!Key : Redemption!Claimable'[k] \in Nat
    <3>1. \A k \in Redemption!Key : Redemption!Claimable[k] \in Nat
      BY ClaimableNat DEF RedemptionInv
    <3>2. Redemption!Claimable'[key] \in Nat
      BY <1>2, <2>2
    <3>3. QED
      BY <2>3, <3>1, <3>2
  <2>5. QED
    BY <2>2, <2>3, <2>4 DEF Redemption!Claimable
<1>11. /\ Redemption!Total(Redemption!Claimable', {c} \X RedemptionUser) = Redemption!Total(Redemption!Claimable, {c} \X RedemptionUser) - old + n
       /\ \A d \in RedemptionCampaign : d # c => Redemption!Total(Redemption!Claimable', {d} \X RedemptionUser) = Redemption!Total(Redemption!Claimable, {d} \X RedemptionUser)
  <2> DEFINE next == Redemption!Claimable'
  <2>1. next \in [Redemption!Key -> Nat] /\ next[key] = n /\ \A k \in Redemption!Key : k # key => next[k] = Redemption!Claimable[k]
    BY <1>10
  <2> HIDE DEF next
  <2>2. /\ Redemption!Total(next, {c} \X RedemptionUser) = Redemption!Total(Redemption!Claimable, {c} \X RedemptionUser) - Redemption!Claimable[key] + next[key]
        /\ \A d \in RedemptionCampaign : d # c => Redemption!Total(next, {d} \X RedemptionUser) = Redemption!Total(Redemption!Claimable, {d} \X RedemptionUser)
    BY <2>1, OneReward DEF RedemptionInv
  <2>3. QED
    BY <1>10, <2>1, <2>2 DEF next
<1>12. Redemption!IssuedAccounted'
  <2> HIDE DEF old
  <2>1. ASSUME NEW d \in RedemptionCampaign
        PROVE  issued'[d] = paid'[d] + treasury_pool'[d] + overwritten'[d] + Redemption!Total(Redemption!Claimable', {d} \X RedemptionUser)
    <3>1. /\ issued[d] = paid[d] + treasury_pool[d] + overwritten[d] + Redemption!Total(Redemption!Claimable, {d} \X RedemptionUser)
          /\ Redemption!Total(Redemption!Claimable, {d} \X RedemptionUser) \in Nat
      BY ClaimableNat DEF RedemptionInv, Redemption!IssuedAccounted
    <3>2. CASE d = c
      BY <1>1, <1>2, <1>6, <1>7, <1>11, <3>1, <3>2
    <3>3. CASE d # c
      BY <1>1, <1>7, <1>11, <3>1, <3>3
    <3>4. QED
      BY <3>2, <3>3
  <2>2. QED
    BY <2>1 DEF Redemption!IssuedAccounted
<1>13. QED
  BY <1>8, <1>9, <1>12 DEF RedemptionInv

\* redeem and reclaim_expired: the amount leaves the claimable ones and arrives
\* in exactly one account.
LEMMA SettleRewardKeeps ==
  ASSUME Redemption!RedemptionAssumption, RedemptionInv, NEW c \in RedemptionCampaign, NEW u \in RedemptionUser,
         Redemption!Redeem(c, u) \/ Redemption!ReclaimExpired(c, u)
  PROVE  RedemptionInv'
<1> DEFINE key == <<c, u>>  amount == rewards[key].amount
<1>1. /\ key \in Redemption!Unclaimed /\ rewards' = [rewards EXCEPT ![key].redeemed = TRUE]
      /\ \/ /\ paid' = [paid EXCEPT ![c] = @ + amount] /\ treasury_pool' = treasury_pool
         \/ /\ treasury_pool' = [treasury_pool EXCEPT ![c] = @ + amount] /\ paid' = paid
            /\ treasury_pool[c] + amount <= RedemptionMaxAmount
      /\ UNCHANGED <<redemptionInitialised, campaign_expiry, ledger, issued, overwritten, window>>
  BY DEF Redemption!Redeem, Redemption!ReclaimExpired
<1>2. /\ key \in Redemption!Key /\ rewards \in [Redemption!Key -> Redemption!RewardRecord \cup {None}]
      /\ rewards[key] \in Redemption!RewardRecord /\ ~rewards[key].redeemed /\ amount \in Nat
      /\ issued \in [RedemptionCampaign -> Nat] /\ overwritten \in [RedemptionCampaign -> Nat]
      /\ paid \in [RedemptionCampaign -> Nat] /\ treasury_pool \in [RedemptionCampaign -> 0..RedemptionMaxAmount]
      /\ RedemptionMaxAmount \in Nat
  BY <1>1 DEF RedemptionInv, Redemption!TypeOK, Redemption!Key, Redemption!RedemptionAssumption,
     Redemption!Unclaimed, Redemption!Stored, Redemption!RewardRecord
<1>3. /\ rewards'[key] = [rewards[key] EXCEPT !.redeemed = TRUE]
      /\ \A k \in Redemption!Key : k # key => rewards'[k] = rewards[k]
  BY <1>1, <1>2
<1>4. /\ rewards'[key] \in Redemption!RewardRecord /\ rewards'[key].redeemed
      /\ rewards'[key].expiration_ledger = rewards[key].expiration_ledger
  BY <1>2, <1>3 DEF Redemption!RewardRecord
<1>5. rewards' \in [Redemption!Key -> Redemption!RewardRecord \cup {None}]
  BY <1>1, <1>2, <1>3, <1>4
<1>6. /\ paid' \in [RedemptionCampaign -> Nat] /\ treasury_pool' \in [RedemptionCampaign -> 0..RedemptionMaxAmount]
      /\ paid'[c] + treasury_pool'[c] = paid[c] + treasury_pool[c] + amount
      /\ \A d \in RedemptionCampaign : d # c => paid'[d] = paid[d] /\ treasury_pool'[d] = treasury_pool[d]
  BY <1>1, <1>2
<1>7. Redemption!TypeOK'
  BY <1>1, <1>5, <1>6 DEF RedemptionInv, Redemption!TypeOK
<1>8. Windowed'
  BY <1>1, <1>2, <1>3, <1>4 DEF RedemptionInv, Windowed, Redemption!Stored, LastLedger,
     Redemption!Unclaimed
<1>9. /\ Redemption!Claimable'[key] = 0 /\ Redemption!Claimable[key] = amount
      /\ \A k \in Redemption!Key : k # key => Redemption!Claimable'[k] = Redemption!Claimable[k]
      /\ Redemption!Claimable' \in [Redemption!Key -> Nat]
  <2>1. \A k \in Redemption!Key : Redemption!Claimable'[k] = IF rewards'[k] # None /\ ~rewards'[k].redeemed
                                       THEN rewards'[k].amount ELSE 0
    BY DEF Redemption!Claimable, Redemption!Unclaimed, Redemption!Stored
  <2>2. Redemption!Claimable'[key] = 0 /\ Redemption!Claimable[key] = amount
    BY <1>1, <1>2, <1>4, <2>1 DEF Redemption!Claimable
  <2>3. \A k \in Redemption!Key : k # key => Redemption!Claimable'[k] = Redemption!Claimable[k]
    BY <1>3, <2>1 DEF Redemption!Claimable, Redemption!Unclaimed, Redemption!Stored
  <2>4. \A k \in Redemption!Key : Redemption!Claimable'[k] \in Nat
    <3>1. \A k \in Redemption!Key : Redemption!Claimable[k] \in Nat
      BY ClaimableNat DEF RedemptionInv
    <3>2. Redemption!Claimable'[key] \in Nat
      BY <1>2, <2>2
    <3>3. QED
      BY <2>3, <3>1, <3>2
  <2>5. QED
    BY <2>2, <2>3, <2>4 DEF Redemption!Claimable
<1>10. /\ Redemption!Total(Redemption!Claimable', {c} \X RedemptionUser) = Redemption!Total(Redemption!Claimable, {c} \X RedemptionUser) - amount
       /\ \A d \in RedemptionCampaign : d # c => Redemption!Total(Redemption!Claimable', {d} \X RedemptionUser) = Redemption!Total(Redemption!Claimable, {d} \X RedemptionUser)
  <2> DEFINE next == Redemption!Claimable'
  <2>1. next \in [Redemption!Key -> Nat] /\ next[key] = 0 /\ \A k \in Redemption!Key : k # key => next[k] = Redemption!Claimable[k]
    BY <1>9
  <2> HIDE DEF next
  <2>2. /\ Redemption!Total(next, {c} \X RedemptionUser) = Redemption!Total(Redemption!Claimable, {c} \X RedemptionUser) - Redemption!Claimable[key] + next[key]
        /\ \A d \in RedemptionCampaign : d # c => Redemption!Total(next, {d} \X RedemptionUser) = Redemption!Total(Redemption!Claimable, {d} \X RedemptionUser)
    BY <2>1, OneReward DEF RedemptionInv
  <2>3. Redemption!Total(Redemption!Claimable, {c} \X RedemptionUser) \in Nat
    BY ClaimableNat DEF RedemptionInv
  <2>4. QED
    BY <1>2, <1>9, <2>1, <2>2, <2>3 DEF next
<1>11. Redemption!IssuedAccounted'
  <2> HIDE DEF amount
  <2>1. ASSUME NEW d \in RedemptionCampaign
        PROVE  issued'[d] = paid'[d] + treasury_pool'[d] + overwritten'[d] + Redemption!Total(Redemption!Claimable', {d} \X RedemptionUser)
    <3>1. /\ issued[d] = paid[d] + treasury_pool[d] + overwritten[d] + Redemption!Total(Redemption!Claimable, {d} \X RedemptionUser)
          /\ Redemption!Total(Redemption!Claimable, {d} \X RedemptionUser) \in Nat
      BY ClaimableNat DEF RedemptionInv, Redemption!IssuedAccounted
    <3>2. CASE d = c
      BY <1>1, <1>2, <1>6, <1>10, <3>1, <3>2
    <3>3. CASE d # c
      BY <1>1, <1>6, <1>10, <3>1, <3>3
    <3>4. QED
      BY <3>2, <3>3
  <2>2. QED
    BY <2>1 DEF Redemption!IssuedAccounted
<1>12. QED
  BY <1>7, <1>8, <1>11 DEF RedemptionInv

LEMMA RedemptionStep ==
  ASSUME Redemption!RedemptionAssumption, RedemptionInv, [Redemption!Next]_redemptionVars
  PROVE  RedemptionInv'
<1>1. ASSUME UNCHANGED <<rewards, treasury_pool, issued, paid, overwritten, window>>, Redemption!TypeOK'
      PROVE  RedemptionInv'
  BY <1>1 DEF RedemptionInv, Windowed, Redemption!IssuedAccounted, Redemption!Claimable,
     Redemption!Unclaimed, Redemption!Stored
<1>2. CASE UNCHANGED redemptionVars
  BY <1>1, <1>2 DEF redemptionVars, RedemptionInv, Redemption!TypeOK
<1>3. CASE Redemption!Initialize
  BY <1>1, <1>3 DEF Redemption!Initialize, RedemptionInv, Redemption!TypeOK
<1>4. CASE \E c \in RedemptionCampaign, n \in RedemptionOffsets : Redemption!SetCampaignExpiry(c, n)
  BY <1>1, <1>4 DEF Redemption!SetCampaignExpiry, RedemptionInv, Redemption!TypeOK,
     Redemption!RedemptionAssumption
<1>5. CASE Redemption!CloseLedger
  BY <1>1, <1>5 DEF Redemption!CloseLedger, RedemptionInv, Redemption!TypeOK,
     Redemption!RedemptionAssumption
<1>6. QED
  BY <1>2, <1>3, <1>4, <1>5, IssueRewardKeeps, SettleRewardKeeps DEF Redemption!Next

\* redeem and reclaim_expired: the window of the issue decides between the user
\* and the administrator, whatever was set since.
WindowDecides ==
  \A c \in RedemptionCampaign, u \in RedemptionUser :
    LET k == <<c, u>>
        closed == window[k].offset > 0 /\ ledger > window[k].at + window[k].offset
    IN  k \in Redemption!Unclaimed /\ rewards'[k] = [rewards[k] EXCEPT !.redeemed = TRUE] =>
          (closed <=> treasury_pool'[c] # treasury_pool[c])

LEMMA WindowStep ==
  ASSUME Redemption!RedemptionAssumption, RedemptionInv, [Redemption!Next]_redemptionVars
  PROVE  WindowDecides
<1> SUFFICES ASSUME NEW c \in RedemptionCampaign, NEW u \in RedemptionUser, <<c, u>> \in Redemption!Unclaimed,
                    rewards'[<<c, u>>] = [rewards[<<c, u>>] EXCEPT !.redeemed = TRUE]
             PROVE  (window[<<c, u>>].offset > 0 /\ ledger > window[<<c, u>>].at + window[<<c, u>>].offset)
                      <=> treasury_pool'[c] # treasury_pool[c]
  BY DEF WindowDecides
<1> DEFINE k == <<c, u>>
<1>1. /\ k \in Redemption!Key /\ rewards[k] \in Redemption!RewardRecord /\ ~rewards[k].redeemed
      /\ rewards[k].amount \in 1..RedemptionMaxAmount
      /\ rewards[k].expiration_ledger = LastLedger(window[k])
      /\ window[k] \in [at : 0..RedemptionMaxLedger, offset : 0..RedemptionMaxLedger]
      /\ treasury_pool \in [RedemptionCampaign -> 0..RedemptionMaxAmount] /\ ledger \in 0..RedemptionMaxLedger /\ RedemptionMaxLedger \in Nat
      /\ rewards \in [Redemption!Key -> Redemption!RewardRecord \cup {None}]
  BY DEF RedemptionInv, Redemption!TypeOK, Windowed, Redemption!Unclaimed, Redemption!Stored,
     Redemption!RewardRecord, Redemption!RedemptionAssumption
<1>2. rewards'[k].redeemed
  BY <1>1 DEF Redemption!RewardRecord
<1>3. rewards' # rewards /\ rewards'[k] # rewards[k]
  BY <1>1, <1>2
<1>4. (window[k].offset > 0 /\ ledger > window[k].at + window[k].offset) <=> ledger > rewards[k].expiration_ledger
  <2>1. window[k].offset \in Nat /\ window[k].at \in Nat
    BY <1>1
  <2>2. QED
    BY <1>1, <2>1 DEF LastLedger
<1>5. ASSUME NEW d \in RedemptionCampaign, NEW v \in RedemptionUser, Redemption!Redeem(d, v) \/ Redemption!ReclaimExpired(d, v)
      PROVE  d = c /\ v = u
  <2>1. rewards' = [rewards EXCEPT ![<<d, v>>].redeemed = TRUE] /\ <<d, v>> \in Redemption!Key
    BY <1>5 DEF Redemption!Redeem, Redemption!ReclaimExpired, Redemption!Key
  <2>2. <<d, v>> = k
    BY <1>1, <1>3, <2>1
  <2>3. QED
    BY <2>2
<1>6. ASSUME NEW d \in RedemptionCampaign, NEW v \in RedemptionUser, Redemption!Redeem(d, v)
      PROVE  (window[k].offset > 0 /\ ledger > window[k].at + window[k].offset)
                <=> treasury_pool'[c] # treasury_pool[c]
  <2>1. d = c /\ v = u
    BY <1>5, <1>6
  <2>2. ledger <= rewards[k].expiration_ledger /\ treasury_pool' = treasury_pool
    BY <1>6, <2>1 DEF Redemption!Redeem
  <2>3. rewards[k].expiration_ledger \in Nat
    BY <1>1 DEF Redemption!RewardRecord
  <2>4. QED
    BY <1>1, <1>4, <2>2, <2>3
<1>7. ASSUME NEW d \in RedemptionCampaign, NEW v \in RedemptionUser, Redemption!ReclaimExpired(d, v)
      PROVE  (window[k].offset > 0 /\ ledger > window[k].at + window[k].offset)
                <=> treasury_pool'[c] # treasury_pool[c]
  <2>1. d = c /\ v = u
    BY <1>5, <1>7
  <2>2. /\ ledger > rewards[k].expiration_ledger
        /\ treasury_pool'[c] = treasury_pool[c] + rewards[k].amount
    BY <1>1, <1>7, <2>1 DEF Redemption!ReclaimExpired
  <2>3. treasury_pool'[c] # treasury_pool[c]
    BY <1>1, <2>2
  <2>4. QED
    BY <1>4, <2>2, <2>3
<1>8. ASSUME NEW d \in RedemptionCampaign, NEW v \in RedemptionUser, NEW n \in RedemptionAmounts, Redemption!IssueReward(d, v, n) PROVE FALSE
  <2> DEFINE new == [amount |-> n, expiration_ledger |-> Redemption!ExpirationFor(d), redeemed |-> FALSE]
  <2>1. rewards' = [rewards EXCEPT ![<<d, v>>] = new] /\ <<d, v>> \in Redemption!Key /\ ~new.redeemed
    BY <1>8 DEF Redemption!IssueReward, Redemption!Key
  <2> HIDE DEF new
  <2>2. rewards'[k] = new \/ rewards'[k] = rewards[k]
    BY <1>1, <2>1
  <2>3. QED
    BY <1>2, <1>3, <2>1, <2>2
<1>9. ~UNCHANGED rewards
  BY <1>3
<1>10. QED
  BY <1>6, <1>7, <1>8, <1>9 DEF Redemption!Next, redemptionVars, Redemption!Initialize,
     Redemption!SetCampaignExpiry, Redemption!CloseLedger

-----------------------------------------------------------------------------
(* referral *)

\* Finite sets and sums are the library's.
LEMMA ReferralTotals ==
  /\ \A S : Referral!IsFiniteSet(S) <=> IsFiniteSet(S)
  /\ \A f, S : Referral!Total(f, S) = Total(f, S)
  /\ \A S : Referral!Cardinality(S) = Cardinality(S)
BY Zenon DEF Referral!IsFiniteSet, Referral!Total, Referral!Units, Referral!Cardinality,
   IsFiniteSet, Total, Units, Cardinality

\* Before initialize resets the pool nothing was paid into it.
ReferralInv ==
  /\ Referral!TypeOK
  /\ ~referralInitialised => pool_balance = 0
  /\ Referral!ReferralsAccounted

\* The referees who name a referrer.
Referees(r) == {a \in ReferralAddress : referral[a] = r}

LEMMA ReferralInit ==
  ASSUME Referral!ReferralAssumption, Referral!Init
  PROVE  ReferralInv
<1>1. Referral!TypeOK
  <2>1. 0 \in 0..ReferralMaxAmount
    BY DEF Referral!ReferralAssumption
  <2>2. /\ referral \in [ReferralAddress -> ReferralAddress \cup {None}]
        /\ total_referrals \in [ReferralAddress -> Nat] /\ payouts \in [ReferralAddress -> Nat]
    BY DEF Referral!Init
  <2>3. QED
    BY <2>1, <2>2 DEF Referral!Init, Referral!TypeOK
<1>2. Referral!CountersAreReferrals
  <2>1. \A r \in ReferralAddress : {a \in ReferralAddress : referral[a] = r} = {}
    BY DEF Referral!Init, Referral!ReferralAssumption
  <2>2. QED
    BY <2>1, FS_EmptySet, ReferralTotals DEF Referral!CountersAreReferrals, Referral!Init
<1>3. Referral!FundingAccounted
  <2>1. Referral!Total(payouts, ReferralAddress) = 0
    BY TotalZero, ReferralTotals DEF Referral!Init
  <2>2. QED
    BY <2>1 DEF Referral!FundingAccounted, Referral!Init
<1>4. QED
  BY <1>1, <1>2, <1>3 DEF ReferralInv, Referral!ReferralsAccounted, Referral!Init

\* A new referral is one more referee of its referrer and of nobody else.
LEMMA RegisterReferralKeeps ==
  ASSUME Referral!ReferralAssumption, ReferralInv, NEW a \in ReferralAddress, NEW b \in ReferralAddress,
         Referral!RegisterReferral(a, b)
  PROVE  Referral!CountersAreReferrals'
<1>1. /\ referral \in [ReferralAddress -> ReferralAddress \cup {None}]
      /\ total_referrals \in [ReferralAddress -> Nat]
      /\ referral' = [referral EXCEPT ![b] = a]
      /\ total_referrals' = [total_referrals EXCEPT ![a] = @ + 1]
      /\ referral[b] = None
  BY DEF ReferralInv, Referral!TypeOK, Referral!RegisterReferral
<1>2. \A r \in ReferralAddress : total_referrals[r] = Referral!Cardinality(Referees(r))
  BY DEF ReferralInv, Referral!ReferralsAccounted, Referral!CountersAreReferrals, Referees
<1>3. SUFFICES ASSUME NEW r \in ReferralAddress
               PROVE  total_referrals'[r] = Referral!Cardinality({x \in ReferralAddress : referral'[x] = r})
  BY DEF Referral!CountersAreReferrals
<1>4. Referral!IsFiniteSet(Referees(r))
  BY FS_Subset, ReferralTotals DEF Referees, Referral!ReferralAssumption
<1>5. CASE r = a
  <2>1. {x \in ReferralAddress : referral'[x] = r} = Referees(r) \cup {b}
    BY <1>1, <1>5 DEF Referees
  <2>2. b \notin Referees(r)
    BY <1>1 DEF Referees, Referral!ReferralAssumption
  <2>3. Referral!Cardinality(Referees(r) \cup {b}) = Referral!Cardinality(Referees(r)) + 1
    BY <1>4, <2>2, FS_AddElement, ReferralTotals
  <2>4. QED
    BY <1>1, <1>2, <1>5, <2>1, <2>3
<1>6. CASE r # a
  <2>1. {x \in ReferralAddress : referral'[x] = r} = Referees(r)
    BY <1>1, <1>6 DEF Referees, Referral!ReferralAssumption
  <2>2. QED
    BY <1>1, <1>2, <1>6, <2>1
<1>7. QED
  BY <1>5, <1>6

\* The two parts of a reward leave the pool together and once.
LEMMA ClaimReferralKeeps ==
  ASSUME Referral!ReferralAssumption, ReferralInv, NEW a \in ReferralAddress, NEW m \in ReferralAmounts,
         NEW n \in ReferralAmounts, Referral!ClaimReferralReward(a, m, n)
  PROVE  Referral!TypeOK' /\ Referral!FundingAccounted'
<1>1. /\ payouts \in [ReferralAddress -> Nat] /\ m \in Nat /\ n \in Nat
      /\ pool_balance \in 0..ReferralMaxAmount /\ funded \in Nat /\ ReferralMaxAmount \in Nat
      /\ payouts' = [payouts EXCEPT ![a] = @ + m + n]
      /\ pool_balance' = pool_balance - (m + n) /\ pool_balance >= m + n
      /\ funded' = funded
  BY DEF ReferralInv, Referral!TypeOK, Referral!ReferralAssumption, Referral!ClaimReferralReward
<1>2. payouts' \in [ReferralAddress -> Nat] /\ pool_balance' \in 0..ReferralMaxAmount
  BY <1>1
<1>3. Referral!Total(payouts', ReferralAddress) = Referral!Total(payouts, ReferralAddress) - payouts[a] + payouts'[a]
  <2>1. /\ \A x \in ReferralAddress : payouts[x] \in Nat /\ payouts'[x] \in Nat
        /\ \A x \in ReferralAddress \ {a} : payouts'[x] = payouts[x]
    BY <1>1, <1>2
  <2>2. QED
    BY <2>1, TotalChange, ReferralTotals DEF Referral!ReferralAssumption
<1>4. Referral!Total(payouts, ReferralAddress) \in Nat
  BY <1>1, TotalNat, ReferralTotals DEF Referral!ReferralAssumption
<1>5. payouts'[a] = payouts[a] + m + n /\ payouts[a] \in Nat
  BY <1>1
<1>6. Referral!FundingAccounted'
  BY <1>1, <1>2, <1>3, <1>4, <1>5 DEF ReferralInv, Referral!ReferralsAccounted,
     Referral!FundingAccounted
<1>7. QED
  BY <1>1, <1>2, <1>6 DEF ReferralInv, Referral!TypeOK, Referral!ClaimReferralReward

LEMMA ReferralStep ==
  ASSUME Referral!ReferralAssumption, ReferralInv, [Referral!Next]_referralVars
  PROVE  ReferralInv'
<1>1. CASE UNCHANGED referralVars
  BY <1>1 DEF referralVars, ReferralInv, Referral!TypeOK, Referral!ReferralsAccounted,
     Referral!CountersAreReferrals, Referral!FundingAccounted
<1>2. CASE Referral!Initialize
  BY <1>2 DEF Referral!Initialize, ReferralInv, Referral!TypeOK, Referral!ReferralsAccounted,
     Referral!CountersAreReferrals,
              Referral!FundingAccounted, Referral!ReferralAssumption
<1>3. ASSUME NEW n \in ReferralAmounts, Referral!FundPool(n) PROVE ReferralInv'
  <2>1. /\ pool_balance' = pool_balance + n /\ funded' = funded + n /\ n \in Nat /\ referralInitialised'
        /\ pool_balance' \in 0..ReferralMaxAmount /\ funded' \in Nat /\ pool_balance \in Nat /\ funded \in Nat
    BY <1>3 DEF Referral!FundPool, ReferralInv, Referral!TypeOK, Referral!ReferralAssumption
  <2>2. Referral!Total(payouts, ReferralAddress) \in Nat /\ payouts' = payouts
    BY <1>3, TotalNat, ReferralTotals DEF Referral!FundPool, ReferralInv, Referral!TypeOK,
       Referral!ReferralAssumption
  <2>3. Referral!FundingAccounted'
    BY <2>1, <2>2 DEF ReferralInv, Referral!ReferralsAccounted, Referral!FundingAccounted
  <2>4. QED
    BY <1>3, <2>1, <2>3 DEF Referral!FundPool, ReferralInv, Referral!TypeOK,
       Referral!ReferralsAccounted, Referral!CountersAreReferrals
<1>4. ASSUME NEW a \in ReferralAddress, NEW b \in ReferralAddress, Referral!RegisterReferral(a, b) PROVE ReferralInv'
  <2>1. Referral!TypeOK'
    BY <1>4 DEF Referral!RegisterReferral, ReferralInv, Referral!TypeOK
  <2>2. Referral!CountersAreReferrals'
    BY <1>4, RegisterReferralKeeps
  <2>3. QED
    BY <1>4, <2>1, <2>2 DEF Referral!RegisterReferral, ReferralInv, Referral!ReferralsAccounted,
       Referral!FundingAccounted
<1>5. ASSUME NEW a \in ReferralAddress, NEW m \in ReferralAmounts, NEW n \in ReferralAmounts,
             Referral!ClaimReferralReward(a, m, n)
      PROVE  ReferralInv'
  <2>1. Referral!TypeOK' /\ Referral!FundingAccounted'
    BY <1>5, ClaimReferralKeeps
  <2>2. QED
    BY <1>5, <2>1 DEF Referral!ClaimReferralReward, ReferralInv, Referral!ReferralsAccounted,
       Referral!CountersAreReferrals
<1>6. QED
  BY <1>1, <1>2, <1>3, <1>4, <1>5 DEF Referral!Next

-----------------------------------------------------------------------------
(* contract_state and its upgrades *)

\* The library's notions of finite set and cardinality do not depend on the
\* module they are taken from.
LEMMA StateSets ==
  ASSUME NEW S
  PROVE  /\ State!IsFiniteSet(S) <=> IsFiniteSet(S)
         /\ State!Cardinality(S) = Cardinality(S)
<1>1. State!IsFiniteSet(S) <=> IsFiniteSet(S)
  BY DEF IsFiniteSet, State!IsFiniteSet
<1>2. State!Cardinality(S) = Cardinality(S)
  BY DEF Cardinality, State!Cardinality
<1>3. QED
  BY <1>1, <1>2

\* The inductive invariant of the multisig: a list that is not empty names each
\* endorser of its hash once, all of them configured signers.
UpgradeInv ==
  /\ State!UpgradeTypeOK
  /\ State!UpgradedByThreshold
  /\ signers = None =>
       upgraded = None /\ threshold = 1 /\ \A h \in StateHash : approvals[h] = <<>>
  /\ \A h \in StateHash : approvals[h] # <<>> =>
       /\ endorsers[h] = State!ToSet(approvals[h])
       /\ Cardinality(endorsers[h]) = Len(approvals[h])
       /\ endorsers[h] \subseteq State!ToSet(signers)

\* The inductive invariant of the store: its version counts from zero, and
\* nothing is snapshot under the empty key, which a recovery would restore.
StateInv ==
  /\ UpgradeInv
  /\ State!TypeOK
  /\ State!SnapshotsFrozen
  /\ signers = None => version = 0
  /\ \A v \in State!Versions : snapshots[StateEmptyKey][v] = None

LEMMA UpgradeInit ==
  ASSUME State!StateAssumption, State!Init
  PROVE  UpgradeInv
<1>1. /\ signers = None /\ threshold = 1 /\ upgraded = None
      /\ \A h \in StateHash : approvals[h] = <<>>
      /\ approvals = [h \in StateHash |-> <<>>] /\ endorsers = [h \in StateHash |-> {}]
  BY DEF State!Init
<1>2. <<>> \in Seq(StateAddress) /\ Len(<<>>) = 0
  OBVIOUS
<1>3. approvals \in [StateHash -> Seq(StateAddress)] /\ \A h \in StateHash : Len(approvals[h]) < threshold
  BY <1>1, <1>2
<1>4. State!UpgradeTypeOK
  BY <1>1, <1>3 DEF State!UpgradeTypeOK
<1>5. State!UpgradedByThreshold
  BY <1>1, <1>3 DEF State!UpgradedByThreshold
<1>6. QED
  BY <1>1, <1>4, <1>5 DEF UpgradeInv

LEMMA StateInit ==
  ASSUME State!StateAssumption, State!Init
  PROVE  StateInv
<1>1. UpgradeInv
  BY UpgradeInit DEF State!Init
<1>2. version = 0 /\ 0 \in State!Versions /\ State!Versions \subseteq Nat
  BY DEF State!Init, State!Versions, State!StateAssumption
<1>3. /\ state = [k \in StateKey |-> None]
      /\ snapshots = [k \in StateKey |-> [v \in State!Versions |-> None]]
      /\ frozen = [v \in State!Versions |-> [k \in StateKey |-> None]]
      /\ StateEmptyKey \in StateKey
  BY DEF State!Init, State!StateAssumption
<1>4. State!TypeOK
  BY <1>1, <1>2, <1>3 DEF UpgradeInv, State!TypeOK
<1>5. State!SnapshotsFrozen
  BY <1>2, <1>3 DEF State!SnapshotsFrozen
<1>6. QED
  BY <1>1, <1>2, <1>3, <1>4, <1>5 DEF StateInv

\* Appending to a list adds to its elements.
LEMMA AppendedSigners ==
  ASSUME NEW S, NEW s \in Seq(S), NEW a \in S
  PROVE  State!ToSet(Append(s, a)) = State!ToSet(s) \cup {a}
<1> DEFINE t == Append(s, a)
<1>1. /\ Len(s) \in Nat /\ Len(t) = Len(s) + 1 /\ t[Len(s) + 1] = a
      /\ \A i \in 1..Len(s) : t[i] = s[i]
      /\ DOMAIN s = 1..Len(s) /\ DOMAIN t = 1..Len(t)
  OBVIOUS
<1> HIDE DEF t
<1>2. 1..Len(t) = 1..Len(s) \cup {Len(s) + 1}
  BY <1>1
<1>3. {t[i] : i \in DOMAIN t} = {s[i] : i \in DOMAIN s} \cup {a}
  BY <1>1, <1>2
<1>4. QED
  BY <1>3 DEF State!ToSet, t

\* The round of approvals after one more signer.
LEMMA ApprovalRound ==
  ASSUME State!StateAssumption, UpgradeInv, NEW a \in StateAddress, NEW h \in StateHash,
         State!ApproveUpgrade(a, h)
  PROVE  /\ Append(approvals[h], a) \in Seq(StateAddress)
         /\ Len(approvals[h]) \in Nat
         /\ Len(Append(approvals[h], a)) = Len(approvals[h]) + 1
         /\ endorsers'[h] = State!ToSet(Append(approvals[h], a))
         /\ Cardinality(endorsers'[h]) = Len(Append(approvals[h], a))
         /\ endorsers'[h] \subseteq State!ToSet(signers)
         /\ endorsers'[h] \subseteq StateAddress
<1>1. /\ approvals[h] \in Seq(StateAddress) /\ endorsers \in [StateHash -> SUBSET StateAddress]
      /\ a \in State!ToSet(signers) /\ a \notin State!ToSet(approvals[h])
      /\ endorsers' = [endorsers EXCEPT ![h] = IF approvals[h] = <<>> THEN {a}
                                               ELSE endorsers[h] \cup {a}]
  BY DEF UpgradeInv, State!UpgradeTypeOK, State!ApproveUpgrade
<1>2. /\ Append(approvals[h], a) \in Seq(StateAddress) /\ Len(approvals[h]) \in Nat
      /\ Len(Append(approvals[h], a)) = Len(approvals[h]) + 1
      /\ State!ToSet(Append(approvals[h], a)) = State!ToSet(approvals[h]) \cup {a}
  BY <1>1, AppendedSigners
<1>3. CASE approvals[h] = <<>>
  <2>1. endorsers'[h] = {a} /\ State!ToSet(<<>>) = {} /\ Len(<<>>) = 0
    BY <1>1, <1>3 DEF State!ToSet
  <2>2. Cardinality({a}) = 1
    BY FS_Singleton
  <2>3. QED
    BY <1>1, <1>2, <1>3, <2>1, <2>2
<1>4. CASE approvals[h] # <<>>
  <2>1. /\ endorsers'[h] = endorsers[h] \cup {a}
        /\ endorsers[h] = State!ToSet(approvals[h])
        /\ Cardinality(endorsers[h]) = Len(approvals[h])
        /\ endorsers[h] \subseteq State!ToSet(signers)
        /\ endorsers[h] \subseteq StateAddress
    BY <1>1, <1>4 DEF UpgradeInv
  <2>2. IsFiniteSet(StateAddress)
    BY StateSets DEF State!StateAssumption
  <2>3. IsFiniteSet(endorsers[h])
    BY <2>1, <2>2, FS_Subset
  <2>4. Cardinality(endorsers[h] \cup {a}) = Cardinality(endorsers[h]) + 1
    <3>1. a \notin endorsers[h]
      BY <1>1, <2>1
    <3>2. QED
      BY <2>3, <3>1, FS_AddElement
  <2>5. QED
    BY <1>1, <1>2, <2>1, <2>4
<1>5. QED
  BY <1>3, <1>4

\* An approval either joins its list or, with enough others, upgrades.
LEMMA ApproveUpgradeKeeps ==
  ASSUME State!StateAssumption, UpgradeInv, NEW a \in StateAddress, NEW h \in StateHash,
         State!ApproveUpgrade(a, h)
  PROVE  UpgradeInv' /\ signers' = signers
<1> DEFINE list == Append(approvals[h], a)
<1>1. /\ signers # None /\ UNCHANGED <<signers, threshold>>
      /\ \/ /\ Len(list) >= threshold
            /\ approvals' = [approvals EXCEPT ![h] = <<>>] /\ upgraded' = h
         \/ /\ ~(Len(list) >= threshold)
            /\ approvals' = [approvals EXCEPT ![h] = list] /\ upgraded' = None
      /\ endorsers' = [endorsers EXCEPT ![h] = IF approvals[h] = <<>> THEN {a}
                                               ELSE endorsers[h] \cup {a}]
  BY Zenon DEF State!ApproveUpgrade, State!initialised
<1>2. /\ list \in Seq(StateAddress) /\ Len(list) \in Nat
      /\ endorsers'[h] = State!ToSet(list) /\ Cardinality(endorsers'[h]) = Len(list)
      /\ endorsers'[h] \subseteq State!ToSet(signers) /\ endorsers'[h] \subseteq StateAddress
  BY ApprovalRound
<1> HIDE DEF list
<1>3. /\ approvals \in [StateHash -> Seq(StateAddress)] /\ endorsers \in [StateHash -> SUBSET StateAddress]
      /\ threshold \in Nat \ {0} /\ <<>> \in Seq(StateAddress) /\ Len(<<>>) = 0 /\ None \notin StateHash
      /\ signers \in Seq(StateAddress) \cup {None}
  BY DEF UpgradeInv, State!UpgradeTypeOK, State!StateAssumption
<1>4. /\ approvals' \in [StateHash -> Seq(StateAddress)] /\ endorsers' \in [StateHash -> SUBSET StateAddress]
      /\ \A g \in StateHash \ {h} : approvals'[g] = approvals[g] /\ endorsers'[g] = endorsers[g]
      /\ upgraded' \in StateHash \cup {None}
  <2>1. endorsers' \in [StateHash -> SUBSET StateAddress]
    <3>1. endorsers' = [endorsers EXCEPT ![h] = endorsers'[h]]
      BY <1>1, <1>3
    <3>2. QED
      BY <1>2, <1>3, <3>1
  <2>2. QED
    BY <1>1, <1>2, <1>3, <2>1, ZenonT(60)
<1>5. State!UpgradeTypeOK'
  BY <1>1, <1>3, <1>4 DEF State!UpgradeTypeOK
<1>6. \A g \in StateHash : Len(approvals'[g]) < threshold
  <2>1. \A g \in StateHash : Len(approvals[g]) < threshold
    BY DEF UpgradeInv, State!UpgradedByThreshold
  <2>2. Len(approvals'[h]) < threshold
    BY <1>1, <1>2, <1>3
  <2>3. QED
    BY <1>4, <2>1, <2>2
<1>7. ASSUME upgraded' # None
      PROVE  /\ Cardinality(endorsers'[upgraded']) >= threshold
             /\ endorsers'[upgraded'] \subseteq State!ToSet(signers)
  <2>1. upgraded' = h /\ Len(list) >= threshold
    BY <1>1, <1>7
  <2>2. QED
    BY <1>2, <2>1
<1>8. State!UpgradedByThreshold'
  <2>1. State!Cardinality(endorsers'[upgraded']) = Cardinality(endorsers'[upgraded'])
    BY StateSets
  <2>2. QED
    BY <1>1, <1>6, <1>7, <2>1 DEF State!UpgradedByThreshold
<1>9. \A g \in StateHash : approvals'[g] # <<>> =>
        /\ endorsers'[g] = State!ToSet(approvals'[g])
        /\ Cardinality(endorsers'[g]) = Len(approvals'[g])
        /\ endorsers'[g] \subseteq State!ToSet(signers)
  <2>1. ASSUME NEW g \in StateHash, approvals'[g] # <<>>, g # h
        PROVE  /\ endorsers'[g] = State!ToSet(approvals'[g])
               /\ Cardinality(endorsers'[g]) = Len(approvals'[g])
               /\ endorsers'[g] \subseteq State!ToSet(signers)
    BY <1>4, <2>1 DEF UpgradeInv
  <2>2. approvals'[h] # <<>> => approvals'[h] = list
    BY <1>1, <1>3
  <2>3. QED
    BY <1>2, <2>1, <2>2
<1>10. QED
  BY <1>1, <1>5, <1>8, <1>9 DEF UpgradeInv

\* initialize of the multisig finds no approvals.
LEMMA UpgradeInitializeKeeps ==
  ASSUME State!StateAssumption, UpgradeInv, NEW s \in StateSignerLists, NEW m \in StateThresholds,
         State!Initialize(s, m)
  PROVE  UpgradeInv' /\ signers = None /\ signers' # None
<1>1. /\ signers = None /\ m >= 1 /\ signers' = s /\ threshold' = m
      /\ upgraded' = None /\ approvals' = approvals /\ endorsers' = endorsers
  BY DEF State!Initialize, State!initialised
<1>2. /\ s \in Seq(StateAddress) /\ m \in Nat /\ None \notin Seq(StateAddress)
  BY DEF State!StateAssumption
<1>3. \A h \in StateHash : approvals[h] = <<>>
  BY <1>1 DEF UpgradeInv
<1>4. State!UpgradeTypeOK'
  <2>1. m \in Nat \ {0}
    BY <1>1, <1>2
  <2>2. QED
    BY <1>1, <1>2, <2>1 DEF UpgradeInv, State!UpgradeTypeOK
<1>5. State!UpgradedByThreshold'
  <2>1. Len(<<>>) < m
    BY <1>1, <1>2
  <2>2. QED
    BY <1>1, <1>3, <2>1 DEF State!UpgradedByThreshold
<1>6. QED
  BY <1>1, <1>2, <1>3, <1>4, <1>5 DEF UpgradeInv

LEMMA UpgradeUnchanged ==
  ASSUME UpgradeInv, UNCHANGED State!upgradeVars
  PROVE  UpgradeInv'
BY DEF State!upgradeVars, UpgradeInv, State!UpgradeTypeOK, State!UpgradedByThreshold

\* What the store's own invocations do to the snapshots.
LEMMA StoreKeeps ==
  ASSUME State!StateAssumption, StateInv, UNCHANGED State!upgradeVars, version' \in State!Versions,
         state' \in [StateKey -> StateValue \cup {None}], state'[StateEmptyKey] = None,
         snapshots' \in [StateKey -> [State!Versions -> StateValue \cup {None}]],
         frozen' \in [State!Versions -> [StateKey -> StateValue \cup {None}]], State!SnapshotsFrozen',
         signers # None, \A v \in State!Versions : snapshots'[StateEmptyKey][v] = None
  PROVE  StateInv'
<1>1. UpgradeInv'
  BY UpgradeUnchanged DEF StateInv
<1>2. State!TypeOK'
  BY <1>1 DEF UpgradeInv, State!TypeOK, State!Versions
<1>3. QED
  BY <1>1, <1>2 DEF StateInv, State!upgradeVars, State!Versions

LEMMA StateStep ==
  ASSUME State!StateAssumption, StateInv, [State!Next]_stateVars
  PROVE  StateInv'
<1>1. /\ State!TypeOK /\ State!SnapshotsFrozen /\ UpgradeInv /\ version \in State!Versions /\ version \in Nat
      /\ StateMaxVersion \in Nat /\ State!Versions \subseteq Nat
      /\ state \in [StateKey -> StateValue \cup {None}] /\ state[StateEmptyKey] = None
      /\ snapshots \in [StateKey -> [State!Versions -> StateValue \cup {None}]]
      /\ frozen \in [State!Versions -> [StateKey -> StateValue \cup {None}]]
      /\ StateEmptyKey \in StateKey /\ \A v \in State!Versions : snapshots[StateEmptyKey][v] = None
  BY DEF StateInv, State!TypeOK, State!Versions, State!StateAssumption
<1>2. ASSUME NEW s \in StateSignerLists, NEW m \in StateThresholds, State!Initialize(s, m)
      PROVE  StateInv'
  <2>1. /\ UpgradeInv' /\ signers = None /\ signers' # None
        /\ version' = 0 /\ UNCHANGED <<state, snapshots, frozen>>
    BY <1>1, <1>2, UpgradeInitializeKeeps DEF State!Initialize
  <2>2. version' = version
    BY <2>1 DEF StateInv
  <2>3. State!TypeOK'
    BY <1>1, <2>1, <2>2 DEF UpgradeInv, State!TypeOK, State!Versions
  <2>4. State!SnapshotsFrozen'
    BY <1>1, <2>1, <2>2 DEF State!SnapshotsFrozen, State!Versions
  <2>5. QED
    BY <1>1, <2>1, <2>3, <2>4 DEF StateInv, State!Versions
<1>3. ASSUME UNCHANGED <<version, snapshots, frozen>>, UNCHANGED State!upgradeVars,
             signers # None,
             state' \in [StateKey -> StateValue \cup {None}], state'[StateEmptyKey] = None
      PROVE  StateInv'
  <2>1. State!SnapshotsFrozen'
    BY <1>1, <1>3 DEF State!SnapshotsFrozen, State!Versions
  <2>2. QED
    BY <1>1, <1>3, <2>1, StoreKeeps
<1>4. ASSUME NEW k \in StateKey, NEW val \in StateValue, State!Set(k, val)
      PROVE  StateInv'
  <2>1. state' \in [StateKey -> StateValue \cup {None}] /\ state'[StateEmptyKey] = None
    BY <1>1, <1>4 DEF State!Set, State!StateAssumption
  <2>2. QED
    BY <1>3, <1>4, <2>1 DEF State!Set, State!initialised
<1>5. ASSUME NEW k \in StateKey, State!Delete(k)
      PROVE  StateInv'
  <2>1. state' \in [StateKey -> StateValue \cup {None}] /\ state'[StateEmptyKey] = None
    BY <1>1, <1>5 DEF State!Delete, State!StateAssumption
  <2>2. QED
    BY <1>3, <1>5, <2>1 DEF State!Delete, State!initialised
<1>6. ASSUME NEW k \in StateKey, NEW v \in State!Versions, State!Recover(k, v)
      PROVE  StateInv'
  <2>1. snapshots[k][v] \in StateValue \cup {None}
    BY <1>1
  <2>2. state' \in [StateKey -> StateValue \cup {None}]
    BY <1>1, <1>6, <2>1 DEF State!Recover
  <2>3. state'[StateEmptyKey] = None
    BY <1>1, <1>6 DEF State!Recover
  <2>4. QED
    BY <1>3, <1>6, <2>2, <2>3 DEF State!Recover, State!initialised
<1>7. ASSUME NEW k \in StateKey, State!Snapshot(k)
      PROVE  StateInv'
  <2>1. /\ signers # None /\ UNCHANGED State!upgradeVars /\ state[k] # None
        /\ UNCHANGED <<version, state, frozen>>
        /\ snapshots' = [snapshots EXCEPT ![k][version] = state[k]]
    BY <1>7 DEF State!Snapshot, State!initialised
  <2>2. /\ state[k] \in StateValue \cup {None} /\ k # StateEmptyKey
        /\ snapshots[k] \in [State!Versions -> StateValue \cup {None}]
    BY <1>1, <2>1
  <2>3. /\ snapshots'[k] \in [State!Versions -> StateValue \cup {None}]
        /\ \A v \in State!Versions : v # version => snapshots'[k][v] = snapshots[k][v]
        /\ \A q \in StateKey : q # k => snapshots'[q] = snapshots[q]
    BY <1>1, <2>1, <2>2
  <2>4. snapshots' \in [StateKey -> [State!Versions -> StateValue \cup {None}]]
    <3>1. snapshots' = [snapshots EXCEPT ![k] = snapshots'[k]]
      BY <1>1, <2>1
    <3>2. QED
      BY <1>1, <2>3, <3>1
  <2>5. State!SnapshotsFrozen'
    <3> SUFFICES ASSUME NEW q \in StateKey, NEW v \in State!Versions
                 PROVE  /\ v < version => snapshots'[q][v] = frozen[v][q]
                        /\ v > version => snapshots'[q][v] = None
      BY <2>1 DEF State!SnapshotsFrozen, State!Versions
    <3>1. /\ v < version => snapshots[q][v] = frozen[v][q]
          /\ v > version => snapshots[q][v] = None
      BY <1>1 DEF State!SnapshotsFrozen
    <3>2. v # version => snapshots'[q][v] = snapshots[q][v]
      BY <2>3
    <3>3. QED
      BY <1>1, <3>1, <3>2
  <2>6. \A v \in State!Versions : snapshots'[StateEmptyKey][v] = None
    BY <1>1, <2>2, <2>3
  <2>7. QED
    BY <1>1, <2>1, <2>4, <2>5, <2>6, StoreKeeps
<1>8. CASE State!Migrate
  <2>1. /\ signers # None /\ UNCHANGED State!upgradeVars /\ UNCHANGED <<state, snapshots>>
        /\ version < StateMaxVersion /\ version' = version + 1
        /\ frozen' = [frozen EXCEPT ![version] = [k \in StateKey |-> snapshots[k][version]]]
    BY <1>8 DEF State!Migrate, State!initialised
  <2>2. version' \in State!Versions
    BY <1>1, <2>1 DEF State!Versions
  <2>3. [k \in StateKey |-> snapshots[k][version]] \in [StateKey -> StateValue \cup {None}]
    BY <1>1
  <2>4. frozen' \in [State!Versions -> [StateKey -> StateValue \cup {None}]]
    BY <1>1, <2>1, <2>3
  <2>5. State!SnapshotsFrozen'
    <3> SUFFICES ASSUME NEW q \in StateKey, NEW v \in State!Versions
                 PROVE  /\ v < version' => snapshots[q][v] = frozen'[v][q]
                        /\ v > version' => snapshots[q][v] = None
      BY <2>1 DEF State!SnapshotsFrozen, State!Versions
    <3>1. /\ v < version => snapshots[q][v] = frozen[v][q]
          /\ v > version => snapshots[q][v] = None
      BY <1>1 DEF State!SnapshotsFrozen
    <3>2. /\ v = version => frozen'[v][q] = snapshots[q][v]
          /\ v # version => frozen'[v] = frozen[v]
      BY <1>1, <2>1
    <3>3. v \in Nat /\ (v < version' <=> v < version \/ v = version) /\ (v > version' => v > version)
      BY <1>1, <2>1
    <3>4. v < version => v # version
      BY <1>1
    <3>5. QED
      BY <3>1, <3>2, <3>3, <3>4
  <2>6. QED
    BY <1>1, <2>1, <2>2, <2>4, <2>5, StoreKeeps
<1>9. ASSUME NEW a \in StateAddress, NEW h \in StateHash, State!ApproveUpgrade(a, h)
      PROVE  StateInv'
  <2>1. UpgradeInv' /\ signers' = signers /\ UNCHANGED <<version, state, snapshots, frozen>>
    BY <1>1, <1>9, ApproveUpgradeKeeps DEF State!ApproveUpgrade, State!storeVars
  <2>2. State!TypeOK' /\ State!SnapshotsFrozen'
    BY <1>1, <2>1 DEF UpgradeInv, State!TypeOK, State!SnapshotsFrozen, State!Versions
  <2>3. QED
    BY <2>1, <2>2 DEF StateInv, State!Versions
<1>10. CASE UNCHANGED stateVars
  <2>1. UNCHANGED State!upgradeVars /\ UNCHANGED <<version, state, snapshots, frozen>>
    BY <1>10 DEF stateVars, State!storeVars, State!upgradeVars
  <2>2. UpgradeInv' /\ signers' = signers
    BY <1>1, <2>1, UpgradeUnchanged DEF State!upgradeVars
  <2>3. State!TypeOK' /\ State!SnapshotsFrozen'
    BY <1>1, <2>1, <2>2 DEF UpgradeInv, State!TypeOK, State!SnapshotsFrozen, State!Versions
  <2>4. QED
    BY <2>1, <2>2, <2>3 DEF StateInv, State!Versions
<1>11. QED
  BY <1>2, <1>4, <1>5, <1>6, <1>7, <1>8, <1>9, <1>10 DEF State!Next

-----------------------------------------------------------------------------
(* vesting *)

\* Finite sets and sums are the library's.
LEMMA VestingTotals ==
  /\ \A S : Vesting!IsFiniteSet(S) <=> IsFiniteSet(S)
  /\ \A f, S : Vesting!Total(f, S) = Total(f, S)
BY Zenon DEF Vesting!IsFiniteSet, Vesting!Total, Vesting!Units, Vesting!Cardinality,
   IsFiniteSet, Total, Units, Cardinality

\* A share of a grant lies between nothing and the grant, and grows with the
\* time that has passed.
LEMMA ShareBounds ==
  ASSUME NEW a \in Nat, NEW d \in Nat \ {0}, NEW x \in Nat, NEW y \in Nat, x <= y
  PROVE  /\ (a * x) \div d \in Nat
         /\ (a * x) \div d <= (a * y) \div d
         /\ y < d => (a * y) \div d <= a
<1>1. a * x \in Nat /\ a * y \in Nat /\ a * d \in Nat
  OBVIOUS
<1>2. a * x <= a * y
  BY SMT
<1>3. (a * x) \div d \in Nat /\ (a * x) \div d <= (a * y) \div d
  BY <1>1, <1>2, SMT
<1>4. ASSUME y < d PROVE (a * y) \div d <= a
  <2>1. a * y <= a * d
    BY <1>4, SMT
  <2>2. (a * y) \div d <= (a * d) \div d
    BY <1>1, <2>1, SMT
  <2>3. (a * d) \div d = a
    BY SMT
  <2>4. QED
    BY <2>2, <2>3
<1>5. QED
  BY <1>3, <1>4

\* The guards of create_schedule, and what revoke leaves behind.
ScheduleSound(s) ==
  /\ s.start_time + s.cliff_duration <= VestingMaxTime
  /\ s.start_time + s.total_duration <= VestingMaxTime
  /\ s.total_amount * s.total_duration <= VestingMaxAmount
  /\ s.revoked_amount <= s.total_amount
  /\ ~s.revoked => s.revoked_amount = 0

\* The entitlement lies between nothing and the grant, and never shrinks.
LEMMA VestedBounds ==
  ASSUME Vesting!VestingAssumption, NEW s \in Vesting!Schedule, ScheduleSound(s),
         NEW t \in Nat, NEW u \in Nat, t <= u
  PROVE  /\ Vesting!vested_amount(s, t) \in 0..s.total_amount
         /\ Vesting!vested_amount(s, t) <= Vesting!vested_amount(s, u)
<1> DEFINE Start == s.start_time  Cliff == s.start_time + s.cliff_duration
           Grant == s.total_amount  Long == s.total_duration
<1>1. /\ Grant \in Nat \ {0} /\ Long \in Nat \ {0} /\ Start \in Nat /\ Cliff \in Nat
      /\ Start <= Cliff /\ Cliff <= VestingMaxTime /\ VestingMaxTime \in Nat
      /\ s.revoked_amount \in Nat /\ s.revoked_amount <= Grant
      /\ s.revoked \in BOOLEAN
  BY DEF Vesting!Schedule, Vesting!VestingAssumption, ScheduleSound
<1>2. Vesting!SaturateTime(Cliff) = Cliff
  BY <1>1 DEF Vesting!SaturateTime
<1>3. CASE s.revoked
  BY <1>1, <1>3 DEF Vesting!vested_amount
<1>4. CASE ~s.revoked
  <2> SUFFICES /\ Vesting!vested_amount(s, t) \in 0..Grant
               /\ Vesting!vested_amount(s, t) <= Vesting!vested_amount(s, u)
    OBVIOUS
  <2> HIDE DEF Start, Cliff, Grant, Long
  <2>1. \A v \in Nat : Vesting!vested_amount(s, v) =
          IF v < Cliff THEN 0
          ELSE IF v - Start >= Long THEN Grant ELSE (Grant * (v - Start)) \div Long
    BY <1>2, <1>4 DEF Vesting!vested_amount, Start, Cliff, Grant, Long
  <2>2. CASE t < Cliff
    <3>1. Vesting!vested_amount(s, t) = 0
      BY <2>1, <2>2
    <3>2. CASE u < Cliff
      BY <1>1, <2>1, <3>1, <3>2
    <3>3. CASE ~(u < Cliff) /\ u - Start >= Long
      BY <1>1, <2>1, <3>1, <3>3
    <3>4. CASE ~(u < Cliff) /\ ~(u - Start >= Long)
      <4>1. u - Start \in Nat
        BY <1>1, <3>4
      <4>2. (Grant * (u - Start)) \div Long \in Nat
        BY <1>1, <4>1, ShareBounds
      <4>3. QED
        BY <1>1, <2>1, <3>1, <3>4, <4>2
    <3>5. QED
      BY <3>2, <3>3, <3>4
  <2>3. CASE ~(t < Cliff) /\ t - Start >= Long
    <3>1. ~(u < Cliff) /\ u - Start >= Long
      BY <1>1, <2>3
    <3>2. QED
      BY <1>1, <2>1, <2>3, <3>1
  <2>4. CASE ~(t < Cliff) /\ ~(t - Start >= Long)
    <3>1. /\ ~(u < Cliff)
          /\ t - Start \in Nat /\ u - Start \in Nat
          /\ t - Start <= u - Start /\ t - Start < Long
      BY <1>1, <2>4
    <3>2. /\ (Grant * (t - Start)) \div Long \in Nat
          /\ (Grant * (t - Start)) \div Long <= Grant
          /\ (Grant * (t - Start)) \div Long <= (Grant * (u - Start)) \div Long
      BY <1>1, <3>1, ShareBounds
    <3>3. CASE u - Start >= Long
      BY <1>1, <2>1, <2>4, <3>1, <3>2, <3>3
    <3>4. CASE ~(u - Start >= Long)
      BY <1>1, <2>1, <2>4, <3>1, <3>2, <3>4
    <3>5. QED
      BY <3>3, <3>4
  <2>5. QED
    BY <2>2, <2>3, <2>4
<1>5. QED
  BY <1>1, <1>3, <1>4

-----------------------------------------------------------------------------
\* What a stored schedule satisfies at all times.
ScheduleKept(k) ==
  /\ ScheduleSound(schedules[k])
  /\ schedules[k].released <= Vesting!Vested(k)
  /\ k[2] < vestingNextId[k[1]]

\* The inductive invariant: the guards of create_schedule still hold of every
\* schedule, what was paid has vested, ids are not given twice, and nothing is
\* in the pool before initialize resets it.
VestingInv ==
  /\ Vesting!TypeOK
  /\ \A k \in Vesting!Created : ScheduleKept(k)
  /\ vestingAdmin = None => vestingPool = 0

LEMMA VestingInit ==
  ASSUME Vesting!VestingAssumption, Vesting!Init
  PROVE  VestingInv
BY DEF Vesting!VestingAssumption, Vesting!Init, VestingInv, Vesting!TypeOK, Vesting!Created

\* What a schedule that is stored has vested, now and later.
LEMMA VestedNow ==
  ASSUME Vesting!VestingAssumption, VestingInv, NEW k \in Vesting!Created
  PROVE  /\ k \in Vesting!Key /\ schedules[k] \in Vesting!Schedule
         /\ Vesting!Vested(k) \in 0..schedules[k].total_amount
         /\ schedules[k].released \in Nat
         /\ schedules[k].total_amount \in 1..VestingMaxAmount
         /\ \A t \in Nat : vestingNow <= t => Vesting!Vested(k) <= Vesting!vested_amount(schedules[k], t)
<1>1. k \in Vesting!Key /\ schedules[k] \in Vesting!Schedule /\ ScheduleSound(schedules[k]) /\ vestingNow \in Nat
  BY DEF VestingInv, Vesting!TypeOK, Vesting!Created, ScheduleKept, Vesting!VestingAssumption
<1>2. \A t \in Nat : vestingNow <= t =>
        /\ Vesting!vested_amount(schedules[k], vestingNow) \in 0..schedules[k].total_amount
        /\ Vesting!vested_amount(schedules[k], vestingNow) <= Vesting!vested_amount(schedules[k], t)
  BY <1>1, VestedBounds
<1>3. Vesting!vested_amount(schedules[k], vestingNow) \in 0..schedules[k].total_amount
  BY <1>1, <1>2
<1>4. schedules[k].released \in Nat /\ schedules[k].total_amount \in 1..VestingMaxAmount
  BY <1>1 DEF Vesting!Schedule, Vesting!VestingAssumption
<1>5. QED
  BY <1>1, <1>2, <1>3, <1>4 DEF Vesting!Vested

\* create_schedule stores a sound schedule under an id that was not used.
LEMMA CreateScheduleKeeps ==
  ASSUME Vesting!VestingAssumption, VestingInv,
         NEW a \in VestingAddress, NEW b \in VestingBeneficiary, NEW n \in VestingAmounts,
         NEW s \in VestingTimes, NEW c \in VestingTimes, NEW d \in VestingTimes,
         Vesting!CreateSchedule(a, b, n, s, c, d)
  PROVE  /\ VestingInv'
         /\ <<b, vestingNextId[b]>> \in Vesting!Key \ Vesting!Created
         /\ Vesting!Created' = Vesting!Created \cup {<<b, vestingNextId[b]>>}
         /\ \A k \in Vesting!Key : k # <<b, vestingNextId[b]>> => schedules'[k] = schedules[k]
         /\ schedules'[<<b, vestingNextId[b]>>].released = 0
         /\ ~schedules'[<<b, vestingNextId[b]>>].revoked
<1> DEFINE key == <<b, vestingNextId[b]>>
           new == [total_amount |-> n, start_time |-> s, cliff_duration |-> c,
                   total_duration |-> d, released |-> 0, revoked |-> FALSE,
                   revoked_amount |-> 0]
<1>1. /\ vestingNextId[b] \in 0..VestingMaxSchedules - 1 /\ key \in Vesting!Key
      /\ schedules \in [Vesting!Key -> Vesting!Schedule \cup {None}]
      /\ vestingNextId \in [VestingBeneficiary -> 0..VestingMaxSchedules] /\ vestingNow \in Nat
  BY DEF VestingInv, Vesting!TypeOK, Vesting!CreateSchedule, Vesting!Key,
     Vesting!VestingAssumption
<1>2. key \notin Vesting!Created
  BY <1>1 DEF VestingInv, ScheduleKept
<1>3. /\ schedules' = [schedules EXCEPT ![key] = new]
      /\ vestingNextId' = [vestingNextId EXCEPT ![b] = @ + 1]
      /\ vestingNow' = vestingNow /\ vestingAdmin' = vestingAdmin /\ vestingPool' = vestingPool /\ vestingFunded' = vestingFunded
      /\ vestingAdmin # None /\ vestingSigners' = {a}
  BY DEF Vesting!CreateSchedule, Vesting!RequireAdmin, Vesting!Authorized
<1>4. new \in Vesting!Schedule /\ ScheduleSound(new) /\ new # None
  <2>1. n \in 1..VestingMaxAmount /\ s \in 0..VestingMaxTime /\ c \in 0..VestingMaxTime /\ d \in 1..VestingMaxTime
    BY DEF Vesting!CreateSchedule, Vesting!VestingAssumption
  <2>2. 0 \in 0..VestingMaxAmount /\ FALSE \in BOOLEAN
    BY DEF Vesting!VestingAssumption
  <2>3. new \in Vesting!Schedule
    BY <2>1, <2>2 DEF Vesting!Schedule
  <2>4. ScheduleSound(new)
    BY <2>1 DEF ScheduleSound, Vesting!CreateSchedule, Vesting!ArithmeticFits
  <2>5. QED
    BY <2>3, <2>4 DEF Vesting!VestingAssumption
<1>5. Vesting!vested_amount(new, vestingNow) >= 0
  <2> HIDE DEF new
  <2>1. vestingNow <= vestingNow
    BY <1>1
  <2>2. Vesting!vested_amount(new, vestingNow) \in 0..new.total_amount
    BY <1>1, <1>4, <2>1, VestedBounds
  <2>3. QED
    BY <2>2
<1> HIDE DEF new
<1>6. /\ schedules'[key] = new
      /\ \A k \in Vesting!Key : k # key => schedules'[k] = schedules[k]
      /\ schedules' \in [Vesting!Key -> Vesting!Schedule \cup {None}]
  BY <1>1, <1>3, <1>4
<1>7. Vesting!Created' = Vesting!Created \cup {key}
  BY <1>1, <1>4, <1>6 DEF Vesting!Created
<1>8. /\ vestingNextId'[b] = vestingNextId[b] + 1
      /\ \A x \in VestingBeneficiary : x # b => vestingNextId'[x] = vestingNextId[x]
      /\ vestingNextId' \in [VestingBeneficiary -> 0..VestingMaxSchedules]
  BY <1>1, <1>3 DEF Vesting!VestingAssumption
<1>9. new.released = 0 /\ ~new.revoked
  BY DEF new
<1>10. ASSUME NEW k \in Vesting!Created' PROVE ScheduleKept(k)'
  <2>1. CASE k = key
    <3>1. ScheduleSound(new) /\ new.released <= Vesting!vested_amount(new, vestingNow) /\ vestingNextId[b] < vestingNextId'[b]
      BY <1>1, <1>4, <1>5, <1>8, <1>9
    <3>2. QED
      BY <1>3, <1>6, <2>1, <3>1 DEF ScheduleKept, Vesting!Vested
  <2>2. CASE k # key
    <3>1. k \in Vesting!Created /\ k \in Vesting!Key /\ schedules'[k] = schedules[k] /\ k[1] \in VestingBeneficiary /\ k[2] \in Int
      BY <1>6, <1>7, <2>2 DEF Vesting!Created, Vesting!Key
    <3>2. ScheduleKept(k)
      BY <3>1 DEF VestingInv
    <3>3. vestingNextId[k[1]] <= vestingNextId'[k[1]] /\ vestingNextId[k[1]] \in Int /\ vestingNextId'[k[1]] \in Int
      BY <1>1, <1>8, <3>1
    <3>4. k[2] < vestingNextId'[k[1]]
      BY <3>1, <3>2, <3>3 DEF ScheduleKept
    <3>5. QED
      BY <1>3, <3>1, <3>2, <3>4 DEF ScheduleKept, Vesting!Vested
  <2>3. QED
    BY <2>1, <2>2
<1>11. Vesting!TypeOK'
  BY <1>3, <1>6, <1>8 DEF VestingInv, Vesting!TypeOK
<1>12. VestingInv'
  BY <1>3, <1>10, <1>11 DEF VestingInv
<1>13. QED
  BY <1>1, <1>2, <1>6, <1>7, <1>9, <1>12

\* claim_vested pays what is releasable out of the pool, once.
LEMMA ClaimVestedKeeps ==
  ASSUME Vesting!VestingAssumption, VestingInv, NEW k \in Vesting!Key, Vesting!ClaimVested(k)
  PROVE  /\ VestingInv'
         /\ Vesting!Created' = Vesting!Created /\ k \in Vesting!Created
         /\ \A x \in Vesting!Key : x # k => schedules'[x] = schedules[x]
         /\ schedules'[k] = [schedules[k] EXCEPT !.released = Vesting!Vested(k)]
         /\ schedules'[k].released - schedules[k].released = vestingPool - vestingPool'
<1>1. /\ k \in Vesting!Created
      /\ vestingPool' = vestingPool - Vesting!Releasable(k) /\ vestingPool >= Vesting!Releasable(k) /\ Vesting!Releasable(k) > 0
      /\ schedules' = [schedules EXCEPT ![k].released = @ + Vesting!Releasable(k)]
      /\ vestingSigners' = {} /\ vestingAdmin # None
      /\ vestingAdmin' = vestingAdmin /\ vestingNextId' = vestingNextId /\ vestingNow' = vestingNow /\ vestingFunded' = vestingFunded
  BY DEF Vesting!ClaimVested, Vesting!Authorized
<1>2. /\ schedules[k] \in Vesting!Schedule /\ Vesting!Vested(k) \in 0..schedules[k].total_amount
      /\ schedules[k].released \in Nat /\ schedules[k].total_amount \in 1..VestingMaxAmount
      /\ vestingPool \in 0..VestingMaxAmount /\ VestingMaxAmount \in Nat
      /\ schedules \in [Vesting!Key -> Vesting!Schedule \cup {None}]
  BY <1>1, VestedNow DEF VestingInv, Vesting!TypeOK, Vesting!VestingAssumption
<1>3. schedules[k].released + Vesting!Releasable(k) = Vesting!Vested(k)
  BY <1>2 DEF Vesting!Releasable
<1>4. /\ schedules'[k] = [schedules[k] EXCEPT !.released = Vesting!Vested(k)]
      /\ \A x \in Vesting!Key : x # k => schedules'[x] = schedules[x]
  BY <1>1, <1>2, <1>3
<1>5. schedules'[k] \in Vesting!Schedule
  BY <1>2, <1>4 DEF Vesting!Schedule
<1>6. schedules' \in [Vesting!Key -> Vesting!Schedule \cup {None}]
  BY <1>1, <1>2, <1>4, <1>5
<1>7. Vesting!Created' = Vesting!Created
  BY <1>1, <1>4, <1>5 DEF Vesting!Created, Vesting!VestingAssumption
<1>8. vestingPool' \in 0..VestingMaxAmount
  BY <1>1, <1>2 DEF Vesting!Releasable
<1>9. ScheduleKept(k)'
  <2>1. ScheduleKept(k)
    BY <1>1 DEF VestingInv
  <2>2. /\ schedules'[k].released = Vesting!Vested(k)
        /\ Vesting!vested_amount(schedules'[k], vestingNow) = Vesting!vested_amount(schedules[k], vestingNow)
        /\ ScheduleSound(schedules[k]) => ScheduleSound(schedules'[k])
    BY <1>2, <1>4 DEF Vesting!Schedule, Vesting!vested_amount, ScheduleSound
  <2>3. QED
    BY <1>1, <1>2, <2>1, <2>2 DEF ScheduleKept, Vesting!Vested
<1>10. \A x \in Vesting!Created' : ScheduleKept(x)'
  BY <1>1, <1>4, <1>7, <1>9 DEF VestingInv, ScheduleKept, Vesting!Vested, Vesting!Created
<1>11. Vesting!TypeOK'
  BY <1>1, <1>6, <1>8 DEF VestingInv, Vesting!TypeOK
<1>12. VestingInv'
  BY <1>1, <1>10, <1>11 DEF VestingInv
<1>13. schedules'[k].released = Vesting!Vested(k)
  BY <1>2, <1>4 DEF Vesting!Schedule
<1>14. QED
  BY <1>1, <1>2, <1>4, <1>7, <1>12, <1>13 DEF Vesting!Releasable

\* revoke freezes the entitlement at what has vested and returns the rest.
LEMMA RevokeKeeps ==
  ASSUME Vesting!VestingAssumption, VestingInv, NEW a \in VestingAddress, NEW k \in Vesting!Key, Vesting!Revoke(a, k)
  PROVE  /\ VestingInv'
         /\ Vesting!Created' = Vesting!Created /\ k \in Vesting!Created /\ ~schedules[k].revoked
         /\ \A x \in Vesting!Key : x # k => schedules'[x] = schedules[x]
         /\ schedules'[k] = [schedules[k] EXCEPT !.revoked = TRUE, !.revoked_amount = Vesting!Vested(k)]
         /\ vestingPool' - vestingPool = schedules[k].total_amount - Vesting!Vested(k)
<1>1. /\ k \in Vesting!Created /\ ~schedules[k].revoked
      /\ vestingPool' = vestingPool + (schedules[k].total_amount - Vesting!Vested(k)) /\ vestingPool' <= VestingMaxAmount
      /\ schedules' = [schedules EXCEPT ![k].revoked = TRUE, ![k].revoked_amount = Vesting!Vested(k)]
      /\ vestingSigners' = {a} /\ vestingAdmin # None
      /\ vestingAdmin' = vestingAdmin /\ vestingNextId' = vestingNextId /\ vestingNow' = vestingNow /\ vestingFunded' = vestingFunded
  BY DEF Vesting!Revoke, Vesting!RequireAdmin, Vesting!Authorized
<1>2. /\ schedules[k] \in Vesting!Schedule /\ Vesting!Vested(k) \in 0..schedules[k].total_amount
      /\ schedules[k].released \in Nat /\ schedules[k].total_amount \in 1..VestingMaxAmount
      /\ vestingPool \in 0..VestingMaxAmount /\ VestingMaxAmount \in Nat
      /\ schedules \in [Vesting!Key -> Vesting!Schedule \cup {None}]
  BY <1>1, VestedNow DEF VestingInv, Vesting!TypeOK, Vesting!VestingAssumption
<1>4. /\ schedules'[k] = [schedules[k] EXCEPT !.revoked = TRUE, !.revoked_amount = Vesting!Vested(k)]
      /\ \A x \in Vesting!Key : x # k => schedules'[x] = schedules[x]
  BY <1>1, <1>2
<1>5. schedules'[k] \in Vesting!Schedule
  <2>1. Vesting!Vested(k) \in 0..VestingMaxAmount
    BY <1>2
  <2>2. QED
    BY <1>2, <1>4, <2>1 DEF Vesting!Schedule
<1>6. schedules' \in [Vesting!Key -> Vesting!Schedule \cup {None}]
  BY <1>1, <1>2, <1>4, <1>5
<1>7. Vesting!Created' = Vesting!Created
  BY <1>1, <1>4, <1>5 DEF Vesting!Created, Vesting!VestingAssumption
<1>8. vestingPool' \in 0..VestingMaxAmount
  BY <1>1, <1>2
<1>9. ScheduleKept(k)'
  <2>1. ScheduleKept(k)
    BY <1>1 DEF VestingInv
  <2>2. /\ schedules'[k].released = schedules[k].released
        /\ Vesting!vested_amount(schedules'[k], vestingNow) = Vesting!Vested(k)
        /\ ScheduleSound(schedules[k]) => ScheduleSound(schedules'[k])
    BY <1>2, <1>4 DEF Vesting!Schedule, Vesting!vested_amount, ScheduleSound
  <2>3. QED
    BY <1>1, <1>2, <2>1, <2>2 DEF ScheduleKept, Vesting!Vested
<1>10. \A x \in Vesting!Created' : ScheduleKept(x)'
  BY <1>1, <1>4, <1>7, <1>9 DEF VestingInv, ScheduleKept, Vesting!Vested, Vesting!Created
<1>11. Vesting!TypeOK'
  BY <1>1, <1>6, <1>8 DEF VestingInv, Vesting!TypeOK
<1>12. VestingInv'
  BY <1>1, <1>10, <1>11 DEF VestingInv
<1>13. QED
  BY <1>1, <1>2, <1>4, <1>7, <1>12

\* Time and the deposits of the administrator leave the schedules alone.
LEMMA VestingOthersKeep ==
  ASSUME Vesting!VestingAssumption, VestingInv,
         \/ \E a \in VestingAddress : Vesting!Initialize(a)
         \/ \E a \in VestingAddress, n \in VestingAmounts : Vesting!FundPool(a, n)
         \/ Vesting!PassTime
  PROVE  VestingInv' /\ schedules' = schedules
<1>1. /\ schedules' = schedules /\ vestingNextId' = vestingNextId /\ vestingNow \in Nat /\ vestingNow' \in Nat /\ vestingNow <= vestingNow'
      /\ vestingNow' \in 0..VestingHorizon
  BY DEF VestingInv, Vesting!TypeOK, Vesting!Initialize, Vesting!FundPool, Vesting!PassTime,
     Vesting!VestingAssumption
<1>2. Vesting!Created' = Vesting!Created
  BY <1>1 DEF Vesting!Created
<1>3. ASSUME NEW k \in Vesting!Created PROVE ScheduleKept(k)'
  <2>1. ScheduleKept(k) /\ Vesting!Vested(k) <= Vesting!vested_amount(schedules[k], vestingNow') /\ schedules[k].released \in Nat
    BY <1>1, VestedNow DEF VestingInv
  <2>2. Vesting!Vested(k) \in Nat /\ Vesting!vested_amount(schedules[k], vestingNow') \in Nat
    BY <1>1, <2>1, VestedNow, VestedBounds DEF ScheduleKept, Vesting!Schedule
  <2>3. QED
    BY <1>1, <2>1, <2>2 DEF ScheduleKept, Vesting!Vested
<1>4. Vesting!TypeOK' /\ (vestingAdmin' = None => vestingPool' = 0)
  <2>1. CASE \E a \in VestingAddress : Vesting!Initialize(a)
    BY <1>1, <2>1 DEF VestingInv, Vesting!TypeOK, Vesting!Initialize, Vesting!Authorized,
       Vesting!VestingAssumption
  <2>2. CASE \E a \in VestingAddress, n \in VestingAmounts : Vesting!FundPool(a, n)
    <3>1. PICK a \in VestingAddress, n \in VestingAmounts : Vesting!FundPool(a, n)
      BY <2>2
    <3>2. n \in Nat /\ vestingPool' \in 0..VestingMaxAmount /\ vestingFunded' \in Nat
      BY <3>1 DEF Vesting!FundPool, VestingInv, Vesting!TypeOK, Vesting!VestingAssumption
    <3>3. QED
      BY <1>1, <3>1, <3>2 DEF VestingInv, Vesting!TypeOK, Vesting!FundPool,
         Vesting!RequireAdmin, Vesting!Authorized
  <2>3. CASE Vesting!PassTime
    BY <1>1, <2>3 DEF VestingInv, Vesting!TypeOK, Vesting!PassTime
  <2>4. QED
    BY <2>1, <2>2, <2>3
<1>5. QED
  BY <1>1, <1>2, <1>3, <1>4 DEF VestingInv

LEMMA VestingStep ==
  ASSUME Vesting!VestingAssumption, VestingInv, [Vesting!Next]_vestingVars
  PROVE  VestingInv'
<1>1. CASE UNCHANGED vestingVars
  BY <1>1 DEF vestingVars, VestingInv, Vesting!TypeOK, Vesting!Created, ScheduleKept,
     Vesting!Vested
<1>2. CASE Vesting!Next
  BY <1>2, CreateScheduleKeeps, ClaimVestedKeeps, RevokeKeeps, VestingOthersKeep
     DEF Vesting!Next
<1>3. QED
  BY <1>1, <1>2

-----------------------------------------------------------------------------
\* What was paid and what was returned, of every key, are natural numbers.
LEMMA VestingCountsNat ==
  ASSUME Vesting!VestingAssumption, VestingInv
  PROVE  /\ Vesting!IsFiniteSet(Vesting!Key)
         /\ \A k \in Vesting!Key : Vesting!Released[k] \in Nat /\ Vesting!Returned[k] \in Nat
<1>1. Vesting!IsFiniteSet(0..VestingMaxSchedules - 1) /\ Vesting!IsFiniteSet(VestingBeneficiary)
  <2>1. 0 \in Int /\ VestingMaxSchedules - 1 \in Int
    BY DEF Vesting!VestingAssumption
  <2>2. QED
    BY <2>1, FS_Interval, VestingTotals DEF Vesting!VestingAssumption
<1>2. Vesting!IsFiniteSet(Vesting!Key)
  BY <1>1, FS_Product, VestingTotals, Zenon DEF Vesting!Key
<1>3. ASSUME NEW k \in Vesting!Key PROVE Vesting!Released[k] \in Nat /\ Vesting!Returned[k] \in Nat
  <2>1. CASE k \in Vesting!Created
    <3>1. schedules[k] \in Vesting!Schedule /\ ScheduleSound(schedules[k]) /\ schedules[k].released \in Nat
      BY <2>1, VestedNow DEF VestingInv, ScheduleKept
    <3>2. schedules[k].total_amount - schedules[k].revoked_amount \in Nat
      BY <3>1 DEF Vesting!Schedule, ScheduleSound, Vesting!VestingAssumption
    <3>3. QED
      BY <3>1, <3>2 DEF Vesting!Released, Vesting!Returned
  <2>2. CASE k \notin Vesting!Created
    BY <2>2 DEF Vesting!Released, Vesting!Returned
  <2>3. QED
    BY <2>1, <2>2
<1>4. QED
  BY <1>2, <1>3

\* The pool's accounts balance after every invocation.
LEMMA VestingPoolStep ==
  ASSUME Vesting!VestingAssumption, VestingInv, Vesting!PoolAccounted, [Vesting!Next]_vestingVars
  PROVE  Vesting!PoolAccounted'
<1> DEFINE Rel == Vesting!Released  Ret == Vesting!Returned  NextRel == Vesting!Released'  NextRet == Vesting!Returned'
<1>0. /\ VestingInv'
      /\ \A k \in Vesting!Key : Rel[k] \in Nat /\ Ret[k] \in Nat
      /\ \A k \in Vesting!Key : NextRel[k] \in Nat /\ NextRet[k] \in Nat
      /\ Vesting!IsFiniteSet(Vesting!Key)
  <2>1. VestingInv'
    BY VestingStep
  <2>2. (\A k \in Vesting!Key : Vesting!Released[k] \in Nat /\ Vesting!Returned[k] \in Nat)'
    BY <2>1, VestingCountsNat, PTL
  <2>3. QED
    BY <2>1, <2>2, VestingCountsNat
<1>1. Vesting!Total(Rel, Vesting!Key) \in Nat /\ Vesting!Total(Ret, Vesting!Key) \in Nat /\ vestingPool \in Int /\ vestingFunded \in Int
  BY <1>0, TotalNat, VestingTotals DEF VestingInv, Vesting!TypeOK, Vesting!VestingAssumption
<1>2. ASSUME \A k \in Vesting!Key : NextRel[k] = Rel[k] /\ NextRet[k] = Ret[k]
      PROVE  Vesting!Total(NextRel, Vesting!Key) = Vesting!Total(Rel, Vesting!Key) /\ Vesting!Total(NextRet, Vesting!Key) = Vesting!Total(Ret, Vesting!Key)
  BY <1>2, TotalSame, VestingTotals
<1>3. CASE schedules' = schedules /\ vestingPool' - vestingPool = vestingFunded' - vestingFunded
  <2>1. Vesting!Created' = Vesting!Created
    BY <1>3 DEF Vesting!Created
  <2>2. \A k \in Vesting!Key : NextRel[k] = Rel[k] /\ NextRet[k] = Ret[k]
    BY <1>3, <2>1 DEF Vesting!Released, Vesting!Returned
  <2>3. vestingPool' \in Int /\ vestingFunded' \in Int
    BY <1>0 DEF VestingInv, Vesting!TypeOK, Vesting!VestingAssumption
  <2> HIDE DEF NextRel, NextRet, Rel, Ret
  <2>4. vestingPool' + Vesting!Total(NextRel, Vesting!Key) = vestingFunded' + Vesting!Total(NextRet, Vesting!Key)
    BY <1>1, <1>2, <1>3, <2>2, <2>3 DEF Vesting!PoolAccounted, Rel, Ret
  <2>5. QED
    BY <2>4 DEF Vesting!PoolAccounted, NextRel, NextRet
<1>4. ASSUME NEW a \in VestingAddress, NEW b \in VestingBeneficiary, NEW n \in VestingAmounts,
             NEW s \in VestingTimes, NEW c \in VestingTimes, NEW d \in VestingTimes, Vesting!CreateSchedule(a, b, n, s, c, d)
      PROVE  Vesting!PoolAccounted'
  <2>1. /\ vestingPool' = vestingPool /\ vestingFunded' = vestingFunded
        /\ Vesting!Created' = Vesting!Created \cup {<<b, vestingNextId[b]>>} /\ <<b, vestingNextId[b]>> \in Vesting!Key \ Vesting!Created
        /\ \A k \in Vesting!Key : k # <<b, vestingNextId[b]>> => schedules'[k] = schedules[k]
        /\ schedules'[<<b, vestingNextId[b]>>].released = 0 /\ ~schedules'[<<b, vestingNextId[b]>>].revoked
    BY <1>4, CreateScheduleKeeps DEF Vesting!CreateSchedule
  <2>2. \A k \in Vesting!Key : NextRel[k] = Rel[k] /\ NextRet[k] = Ret[k]
    BY <2>1 DEF Vesting!Released, Vesting!Returned
  <2> HIDE DEF NextRel, NextRet, Rel, Ret
  <2>3. vestingPool + Vesting!Total(NextRel, Vesting!Key) = vestingFunded + Vesting!Total(NextRet, Vesting!Key)
    BY <1>2, <2>2 DEF Vesting!PoolAccounted, Rel, Ret
  <2>4. QED
    BY <2>1, <2>3 DEF Vesting!PoolAccounted, NextRel, NextRet
<1>5. ASSUME NEW k \in Vesting!Key, Vesting!ClaimVested(k) PROVE Vesting!PoolAccounted'
  <2>1. /\ vestingFunded' = vestingFunded /\ Vesting!Created' = Vesting!Created /\ k \in Vesting!Created
        /\ \A x \in Vesting!Key : x # k => schedules'[x] = schedules[x]
        /\ schedules'[k] = [schedules[k] EXCEPT !.released = Vesting!Vested(k)]
        /\ schedules'[k].released - schedules[k].released = vestingPool - vestingPool'
        /\ schedules[k] \in Vesting!Schedule
    BY <1>5, ClaimVestedKeeps, VestedNow DEF Vesting!ClaimVested
  <2>2. /\ \A x \in Vesting!Key : NextRet[x] = Ret[x]
        /\ \A x \in Vesting!Key \ {k} : NextRel[x] = Rel[x]
        /\ NextRel[k] - Rel[k] = vestingPool - vestingPool'
    BY <2>1 DEF Vesting!Released, Vesting!Returned, Vesting!Schedule
  <2> HIDE DEF NextRel, NextRet, Rel, Ret
  <2>3. Vesting!Total(NextRel, Vesting!Key) = Vesting!Total(Rel, Vesting!Key) - Rel[k] + NextRel[k]
    BY <1>0, <2>2, TotalChange, VestingTotals
  <2>4. Vesting!Total(NextRet, Vesting!Key) = Vesting!Total(Ret, Vesting!Key)
    BY <2>2, TotalSame, VestingTotals
  <2>5. vestingPool' \in Int /\ Rel[k] \in Nat /\ NextRel[k] \in Nat
    BY <1>0 DEF VestingInv, Vesting!TypeOK, Vesting!VestingAssumption
  <2>6. vestingPool' + Vesting!Total(NextRel, Vesting!Key) = vestingFunded' + Vesting!Total(NextRet, Vesting!Key)
    BY <1>1, <2>1, <2>2, <2>3, <2>4, <2>5 DEF Vesting!PoolAccounted, Rel, Ret
  <2>7. QED
    BY <2>6 DEF Vesting!PoolAccounted, NextRel, NextRet
<1>6. ASSUME NEW a \in VestingAddress, NEW k \in Vesting!Key, Vesting!Revoke(a, k) PROVE Vesting!PoolAccounted'
  <2>1. /\ vestingFunded' = vestingFunded /\ Vesting!Created' = Vesting!Created /\ k \in Vesting!Created /\ ~schedules[k].revoked
        /\ \A x \in Vesting!Key : x # k => schedules'[x] = schedules[x]
        /\ schedules'[k] = [schedules[k] EXCEPT !.revoked = TRUE, !.revoked_amount = Vesting!Vested(k)]
        /\ vestingPool' - vestingPool = schedules[k].total_amount - Vesting!Vested(k)
        /\ schedules[k] \in Vesting!Schedule
    BY <1>6, RevokeKeeps, VestedNow DEF Vesting!Revoke
  <2>2. /\ \A x \in Vesting!Key : NextRel[x] = Rel[x]
        /\ \A x \in Vesting!Key \ {k} : NextRet[x] = Ret[x]
        /\ Ret[k] = 0 /\ NextRet[k] = vestingPool' - vestingPool
    BY <2>1 DEF Vesting!Released, Vesting!Returned, Vesting!Schedule
  <2> HIDE DEF NextRel, NextRet, Rel, Ret
  <2>3. Vesting!Total(NextRet, Vesting!Key) = Vesting!Total(Ret, Vesting!Key) - Ret[k] + NextRet[k]
    BY <1>0, <2>2, TotalChange, VestingTotals
  <2>4. Vesting!Total(NextRel, Vesting!Key) = Vesting!Total(Rel, Vesting!Key)
    BY <2>2, TotalSame, VestingTotals
  <2>5. vestingPool' \in Int
    BY <1>0 DEF VestingInv, Vesting!TypeOK, Vesting!VestingAssumption
  <2>6. vestingPool' + Vesting!Total(NextRel, Vesting!Key) = vestingFunded' + Vesting!Total(NextRet, Vesting!Key)
    BY <1>1, <2>1, <2>2, <2>3, <2>4, <2>5 DEF Vesting!PoolAccounted, Rel, Ret
  <2>7. QED
    BY <2>6 DEF Vesting!PoolAccounted, NextRel, NextRet
<1>7. CASE UNCHANGED vestingVars
  <2>1. schedules' = schedules /\ vestingPool' - vestingPool = vestingFunded' - vestingFunded
    BY <1>1, <1>7 DEF vestingVars
  <2>2. QED
    BY <1>3, <2>1
<1>8. ASSUME NEW a \in VestingAddress, Vesting!Initialize(a) PROVE Vesting!PoolAccounted'
  <2>1. schedules' = schedules /\ vestingPool = 0 /\ vestingPool' = 0 /\ vestingFunded' = vestingFunded
    BY <1>8 DEF Vesting!Initialize, VestingInv
  <2>2. vestingPool' - vestingPool = vestingFunded' - vestingFunded
    BY <1>1, <2>1
  <2>3. QED
    BY <1>3, <2>1, <2>2
<1>9. ASSUME NEW a \in VestingAddress, NEW n \in VestingAmounts, Vesting!FundPool(a, n) PROVE Vesting!PoolAccounted'
  <2>1. schedules' = schedules /\ vestingPool' - vestingPool = vestingFunded' - vestingFunded
    BY <1>1, <1>9 DEF Vesting!FundPool, Vesting!VestingAssumption
  <2>2. QED
    BY <1>3, <2>1
<1>10. ASSUME Vesting!PassTime PROVE Vesting!PoolAccounted'
  <2>1. schedules' = schedules /\ vestingPool' - vestingPool = vestingFunded' - vestingFunded
    BY <1>1, <1>10 DEF Vesting!PassTime
  <2>2. QED
    BY <1>3, <2>1
<1>11. QED
  BY <1>4, <1>5, <1>6, <1>7, <1>8, <1>9, <1>10 DEF Vesting!Next

\* Before the first invocation nothing was deposited, paid or returned.
LEMMA VestingInitPool ==
  ASSUME Vesting!VestingAssumption, Vesting!Init
  PROVE  Vesting!PoolAccounted
<1>1. \A k \in Vesting!Key : Vesting!Released[k] = 0 /\ Vesting!Returned[k] = 0
  BY DEF Vesting!Init, Vesting!Created, Vesting!Released, Vesting!Returned
<1>2. Vesting!Total(Vesting!Released, Vesting!Key) = 0 /\ Vesting!Total(Vesting!Returned, Vesting!Key) = 0
  BY <1>1, TotalZero, VestingTotals
<1>3. QED
  BY <1>2 DEF Vesting!Init, Vesting!PoolAccounted

\* No stored schedule makes the multiplication of vested_amount overflow.
LEMMA NoScheduleTraps ==
  ASSUME Vesting!VestingAssumption, VestingInv
  PROVE  Vesting!VestingNeverTraps
<1> SUFFICES ASSUME NEW k \in Vesting!Created, NEW t \in vestingNow..VestingMaxTime, ~schedules[k].revoked,
                    t >= Vesting!SaturateTime(schedules[k].start_time + schedules[k].cliff_duration),
                    t - schedules[k].start_time < schedules[k].total_duration
             PROVE  schedules[k].total_amount * (t - schedules[k].start_time) <= VestingMaxAmount
  BY DEF Vesting!VestingNeverTraps
<1> DEFINE Grant == schedules[k].total_amount  Long == schedules[k].total_duration
           Past == t - schedules[k].start_time
<1>1. schedules[k] \in Vesting!Schedule /\ ScheduleSound(schedules[k])
  BY VestedNow DEF VestingInv, ScheduleKept
<1>2. /\ Grant \in Nat /\ Long \in Nat /\ Grant * Long <= VestingMaxAmount /\ VestingMaxAmount \in Nat
      /\ Past \in Nat /\ Past <= Long
  BY <1>1 DEF Vesting!Schedule, ScheduleSound, Vesting!VestingAssumption, Vesting!SaturateTime,
     VestingInv, Vesting!TypeOK
<1> HIDE DEF Grant, Long, Past
<1>3. Grant * Past <= Grant * Long /\ Grant * Past \in Nat /\ Grant * Long \in Nat
  BY <1>2, SMT
<1>4. Grant * Past <= VestingMaxAmount
  BY <1>2, <1>3
<1>5. QED
  BY <1>4 DEF Grant, Past

\* What was paid is within what has vested, and the arithmetic of a schedule fits.
LEMMA VestingHolds ==
  ASSUME Vesting!VestingAssumption, VestingInv, Vesting!PoolAccounted
  PROVE  Vesting!TypeOK /\ Vesting!VestingAccounted
<1>1. Vesting!ReleasedWithinVested
  BY VestedNow DEF VestingInv, ScheduleKept, Vesting!ReleasedWithinVested
<1>2. Vesting!VestingNeverTraps
  BY NoScheduleTraps
<1>3. QED
  BY <1>1, <1>2 DEF VestingInv, Vesting!VestingAccounted

\* No step takes back what had vested, and a revocation freezes it.
EntitlementGrows ==
  \A k \in Vesting!Created :
    /\ Vesting!vested_amount(schedules'[k], vestingNow') >= Vesting!Vested(k)
    /\ schedules[k].revoked => Vesting!vested_amount(schedules'[k], vestingNow') = Vesting!Vested(k)

LEMMA EntitlementStep ==
  ASSUME Vesting!VestingAssumption, VestingInv, [Vesting!Next]_vestingVars
  PROVE  EntitlementGrows
<1> SUFFICES ASSUME NEW k \in Vesting!Created
             PROVE  /\ Vesting!vested_amount(schedules'[k], vestingNow') >= Vesting!Vested(k)
                    /\ schedules[k].revoked => Vesting!vested_amount(schedules'[k], vestingNow') = Vesting!Vested(k)
  BY DEF EntitlementGrows
<1>1. /\ k \in Vesting!Key /\ schedules[k] \in Vesting!Schedule /\ Vesting!Vested(k) \in Nat /\ vestingNow \in Nat
      /\ \A t \in Nat : vestingNow <= t => Vesting!Vested(k) <= Vesting!vested_amount(schedules[k], t)
      /\ \A t \in Nat : schedules[k].revoked => Vesting!vested_amount(schedules[k], t) = Vesting!Vested(k)
  BY VestedNow DEF VestingInv, Vesting!TypeOK, Vesting!VestingAssumption, Vesting!Schedule,
     Vesting!vested_amount, Vesting!Vested
<1>2. CASE schedules'[k] = schedules[k] /\ vestingNow' \in Nat /\ vestingNow <= vestingNow'
  <2>1. Vesting!Vested(k) <= Vesting!vested_amount(schedules[k], vestingNow')
    BY <1>1, <1>2
  <2>2. Vesting!vested_amount(schedules[k], vestingNow') \in 0..schedules[k].total_amount
    BY <1>1, <1>2, VestedBounds DEF VestingInv, ScheduleKept
  <2>3. QED
    BY <1>1, <1>2, <2>1, <2>2
<1>3. CASE UNCHANGED vestingVars
  BY <1>1, <1>2, <1>3 DEF vestingVars
<1>4. CASE \E a \in VestingAddress : Vesting!Initialize(a)
  BY <1>1, <1>2, <1>4 DEF Vesting!Initialize
<1>5. CASE \E a \in VestingAddress, n \in VestingAmounts : Vesting!FundPool(a, n)
  BY <1>1, <1>2, <1>5 DEF Vesting!FundPool
<1>6. CASE \E a \in VestingAddress, b \in VestingBeneficiary, n \in VestingAmounts, s, c, d \in VestingTimes :
             Vesting!CreateSchedule(a, b, n, s, c, d)
  <2>1. PICK a \in VestingAddress, b \in VestingBeneficiary, n \in VestingAmounts, s \in VestingTimes, c \in VestingTimes, d \in VestingTimes :
          Vesting!CreateSchedule(a, b, n, s, c, d)
    BY <1>6
  <2>2. vestingNow' = vestingNow /\ schedules'[k] = schedules[k]
    BY <1>1, <2>1, CreateScheduleKeeps DEF Vesting!CreateSchedule
  <2>3. QED
    BY <1>1, <1>2, <2>2
<1>7. CASE \E x \in Vesting!Key : Vesting!ClaimVested(x)
  <2>1. PICK x \in Vesting!Key : Vesting!ClaimVested(x)
    BY <1>7
  <2>2. vestingNow' = vestingNow
    BY <2>1 DEF Vesting!ClaimVested
  <2>3. CASE x # k
    <3>1. schedules'[k] = schedules[k]
      BY <1>1, <2>1, <2>3, ClaimVestedKeeps
    <3>2. QED
      BY <1>1, <1>2, <2>2, <3>1
  <2>4. CASE x = k
    <3>1. schedules'[k] = [schedules[k] EXCEPT !.released = Vesting!Vested(k)]
      BY <2>1, <2>4, ClaimVestedKeeps
    <3>2. Vesting!vested_amount(schedules'[k], vestingNow) = Vesting!vested_amount(schedules[k], vestingNow)
      BY <1>1, <3>1 DEF Vesting!Schedule, Vesting!vested_amount
    <3>3. QED
      BY <1>1, <2>2, <3>2 DEF Vesting!Vested
  <2>5. QED
    BY <2>3, <2>4
<1>8. CASE \E a \in VestingAddress, x \in Vesting!Key : Vesting!Revoke(a, x)
  <2>1. PICK a \in VestingAddress, x \in Vesting!Key : Vesting!Revoke(a, x)
    BY <1>8
  <2>2. vestingNow' = vestingNow
    BY <2>1 DEF Vesting!Revoke
  <2>3. CASE x # k
    <3>1. schedules'[k] = schedules[k]
      BY <1>1, <2>1, <2>3, RevokeKeeps
    <3>2. QED
      BY <1>1, <1>2, <2>2, <3>1
  <2>4. CASE x = k
    <3>1. /\ schedules'[k] = [schedules[k] EXCEPT !.revoked = TRUE, !.revoked_amount = Vesting!Vested(k)]
          /\ ~schedules[k].revoked
      BY <2>1, <2>4, RevokeKeeps
    <3>2. Vesting!vested_amount(schedules'[k], vestingNow) = Vesting!Vested(k)
      BY <1>1, <3>1 DEF Vesting!Schedule, Vesting!vested_amount
    <3>3. QED
      BY <1>1, <2>2, <3>1, <3>2
  <2>5. QED
    BY <2>3, <2>4
<1>9. CASE Vesting!PassTime
  BY <1>1, <1>2, <1>9 DEF Vesting!PassTime, Vesting!VestingAssumption
<1>10. QED
  BY <1>3, <1>4, <1>5, <1>6, <1>7, <1>8, <1>9 DEF Vesting!Next

-----------------------------------------------------------------------------
(* governance and its token *)

\* Finite sets and sums are the library's.
LEMMA GovernanceTotals ==
  /\ \A S : Governance!IsFiniteSet(S) <=> IsFiniteSet(S)
  /\ \A f, S : Governance!Total(f, S) = Total(f, S)
BY Zenon DEF Governance!IsFiniteSet, Governance!Total, Governance!Units, Governance!Cardinality,
   IsFiniteSet, Total, Units, Cardinality

\* The facts about the token's supply: it is the sum of the balances until a
\* mint saturates, and never more; initialize of the token resets nothing.
TokenInv ==
  /\ Governance!Token!TypeOK
  /\ ~govSaturated => govSupply = Governance!Total(govBalances, GovAddress)
  /\ govSupply <= Governance!Total(govBalances, GovAddress)
  /\ govTokenAdmin = None => govSupply = 0 /\ \A a \in GovAddress : govBalances[a] = 0

\* The inductive invariant of the contract: tallies are not negative and an
\* accepted quorum is positive, a percentage at most one hundred.
GovInv ==
  /\ Governance!TypeOK
  /\ TokenInv
  /\ quorum # None => Governance!ValidQuorum(quorum)
  /\ \A id \in Governance!Stored : proposals[id].yes_votes >= 0 /\ proposals[id].no_votes >= 0
  /\ Governance!TalliesAreHoldings

\* What the assumptions and the types say of the numbers of the token.
LEMMA TokenNumbers ==
  ASSUME Governance!GovernanceAssumption, Governance!Token!TypeOK
  PROVE  /\ Governance!IsFiniteSet(GovAddress) /\ GovMaxAmount \in Nat \ {0} /\ GovAmounts \subseteq Int
         /\ GovMaxLedger \in Nat \ {0} /\ None \notin GovAddress
         /\ govBalances \in [GovAddress -> 0..GovMaxAmount] /\ \A a \in GovAddress : govBalances[a] \in Nat
         /\ govSupply \in Int /\ govSupply \in Governance!MinAmount..GovMaxAmount /\ Governance!Total(govBalances, GovAddress) \in Nat
         /\ govLedger \in Nat
         /\ Governance!Token!MinAmount = -GovMaxAmount - 1 /\ Governance!MinAmount = -GovMaxAmount - 1
<1>1. /\ Governance!IsFiniteSet(GovAddress) /\ GovMaxAmount \in Nat \ {0} /\ GovAmounts \subseteq Int
      /\ GovMaxLedger \in Nat \ {0} /\ None \notin GovAddress
      /\ Governance!Token!MinAmount = -GovMaxAmount - 1 /\ Governance!MinAmount = -GovMaxAmount - 1
  BY DEF Governance!GovernanceAssumption, Governance!Token!MinAmount, Governance!MinAmount
<1>2. govBalances \in [GovAddress -> 0..GovMaxAmount] /\ govSupply \in Governance!MinAmount..GovMaxAmount
      /\ govLedger \in 1..GovMaxLedger
  BY <1>1 DEF Governance!Token!TypeOK
<1>3. (\A a \in GovAddress : govBalances[a] \in Nat) /\ govSupply \in Int /\ govLedger \in Nat
  BY <1>1, <1>2
<1>4. Governance!Total(govBalances, GovAddress) \in Nat
  BY <1>1, <1>3, TotalNat, GovernanceTotals
<1>5. QED
  BY <1>1, <1>2, <1>3, <1>4

\* Saturation keeps a value inside the width of the stored integer.
LEMMA VotesSaturate ==
  ASSUME Governance!GovernanceAssumption, NEW n \in Int
  PROVE  /\ Governance!Token!Saturate(n) \in Governance!MinAmount..GovMaxAmount
         /\ n >= 0 => Governance!Token!Saturate(n) \in 0..GovMaxAmount
         /\ n <= GovMaxAmount /\ n >= Governance!MinAmount => Governance!Token!Saturate(n) = n
         /\ n >= Governance!MinAmount => Governance!Token!Saturate(n) <= n
         /\ n < 0 => Governance!Token!Saturate(n) < 0
BY DEF Governance!GovernanceAssumption, Governance!Token!Saturate, Governance!Token!MinAmount,
   Governance!MinAmount

LEMMA GovMintKeeps ==
  ASSUME Governance!GovernanceAssumption, TokenInv, NEW a \in GovAddress, NEW n \in GovAmounts, Governance!Token!Mint(a, n)
  PROVE  TokenInv' /\ (govSaturated => govSaturated')
<1>1. /\ n > 0 /\ govTokenAdmin # None /\ govSigners' = {govTokenAdmin}
      /\ govBalances' = [govBalances EXCEPT ![a] = Governance!Token!Saturate(govBalances[a] + n)]
      /\ govSupply' = Governance!Token!Saturate(govSupply + n)
      /\ govSaturated' = (govSaturated \/ govBalances[a] + n > GovMaxAmount \/ govSupply + n > GovMaxAmount)
      /\ UNCHANGED <<govTokenAdmin, govAllowances, govLedger>>
  BY Zenon DEF Governance!Token!Mint, Governance!Token!Authorized
<1>2. /\ GovMaxAmount \in Nat \ {0} /\ govBalances \in [GovAddress -> 0..GovMaxAmount] /\ govBalances[a] \in Nat
      /\ Governance!Token!TypeOK /\ govSupply \in Governance!MinAmount..GovMaxAmount /\ Governance!IsFiniteSet(GovAddress)
      /\ \A x \in GovAddress : govBalances[x] \in Nat
      /\ Governance!MinAmount = -GovMaxAmount - 1 /\ Governance!Token!MinAmount = -GovMaxAmount - 1 /\ n \in Nat
      /\ govSupply \in Int /\ Governance!Total(govBalances, GovAddress) \in Nat /\ govSupply <= Governance!Total(govBalances, GovAddress)
  BY <1>1, TokenNumbers DEF TokenInv
<1> DEFINE b == Governance!Token!Saturate(govBalances[a] + n)  s == Governance!Token!Saturate(govSupply + n)
<1>3. /\ b \in 0..GovMaxAmount /\ (govBalances[a] + n <= GovMaxAmount => b = govBalances[a] + n)
      /\ s \in Governance!MinAmount..GovMaxAmount /\ s <= govSupply + n
      /\ govSupply + n <= GovMaxAmount => s = govSupply + n
      /\ govBalances[a] + n > GovMaxAmount => b = GovMaxAmount
  <2>1. govBalances[a] + n \in Int /\ govBalances[a] + n >= 0 /\ govSupply + n \in Int /\ govSupply + n >= Governance!MinAmount
    BY <1>2
  <2>2. /\ b \in 0..GovMaxAmount /\ s \in Governance!MinAmount..GovMaxAmount /\ s <= govSupply + n
    BY <2>1, VotesSaturate
  <2>3. govBalances[a] + n <= GovMaxAmount => b = govBalances[a] + n
    BY <1>2, <2>1, VotesSaturate
  <2>4. govSupply + n <= GovMaxAmount => s = govSupply + n
    BY <1>2, <2>1, VotesSaturate
  <2>5. govBalances[a] + n > GovMaxAmount => b = GovMaxAmount
    BY <1>2, <2>1 DEF Governance!Token!Saturate
  <2>6. QED
    BY <2>2, <2>3, <2>4, <2>5
<1>4. govBalances' = [govBalances EXCEPT ![a] = b] /\ govSupply' = s
  BY <1>1
<1> HIDE DEF b, s
<1>5. govBalances' \in [GovAddress -> 0..GovMaxAmount] /\ govBalances'[a] = b
      /\ \A x \in GovAddress \ {a} : govBalances'[x] = govBalances[x]
  BY <1>2, <1>3, <1>4
<1>6. Governance!Token!TypeOK'
  <2>1. govSaturated' \in BOOLEAN /\ govSigners' \subseteq GovAddress
    BY <1>1, <1>2 DEF Governance!Token!TypeOK
  <2>2. govSupply' \in Governance!Token!MinAmount..GovMaxAmount
    BY <1>2, <1>3, <1>4
  <2>3. QED
    BY <1>1, <1>2, <1>5, <2>1, <2>2 DEF Governance!Token!TypeOK
<1>7. /\ Governance!Total(govBalances', GovAddress) = Governance!Total(govBalances, GovAddress) - govBalances[a] + b
      /\ Governance!Total(govBalances', GovAddress) \in Nat /\ b <= Governance!Total(govBalances', GovAddress)
  <2>1. \A x \in GovAddress : govBalances'[x] \in Nat
    BY <1>2, <1>5
  <2>2. Governance!Total(govBalances', GovAddress) = Governance!Total(govBalances, GovAddress) - govBalances[a] + govBalances'[a]
    BY <1>2, <1>5, <2>1, TotalChange, GovernanceTotals
  <2>3. govBalances'[a] <= Governance!Total(govBalances', GovAddress) /\ Governance!Total(govBalances', GovAddress) \in Nat
    BY <1>2, <2>1, TotalBoundsEach, TotalNat, GovernanceTotals
  <2>4. QED
    BY <1>5, <2>2, <2>3
<1>8. govSupply' <= Governance!Total(govBalances', GovAddress)
  <2>1. CASE govBalances[a] + n <= GovMaxAmount
    BY <1>2, <1>3, <1>4, <1>7, <2>1
  <2>2. CASE govBalances[a] + n > GovMaxAmount
    BY <1>2, <1>3, <1>4, <1>7, <2>2
  <2>3. QED
    BY <1>2, <2>1, <2>2
<1>9. ASSUME ~govSaturated' PROVE govSupply' = Governance!Total(govBalances', GovAddress)
  <2>1. ~(govSaturated \/ govBalances[a] + n > GovMaxAmount \/ govSupply + n > GovMaxAmount)
    BY <1>1, <1>9, Zenon
  <2>2. govSupply = Governance!Total(govBalances, GovAddress)
    BY <2>1 DEF TokenInv
  <2>3. b = govBalances[a] + n /\ s = govSupply + n
    BY <1>2, <1>3, <2>1
  <2>4. QED
    BY <1>2, <1>4, <1>7, <2>2, <2>3
<1>10. govSaturated => govSaturated'
  BY <1>1, Zenon
<1>11. QED
  BY <1>1, <1>6, <1>8, <1>9, <1>10 DEF TokenInv

LEMMA GovBurnKeeps ==
  ASSUME Governance!GovernanceAssumption, TokenInv, NEW a \in GovAddress, NEW n \in GovAmounts, Governance!Token!Burn(a, n)
  PROVE  TokenInv' /\ govSaturated' = govSaturated
<1>1. /\ n > 0 /\ govBalances[a] >= n /\ govSigners' = {a}
      /\ govBalances' = [govBalances EXCEPT ![a] = govBalances[a] - n]
      /\ govSupply' = Governance!Token!Saturate(govSupply - n)
      /\ UNCHANGED <<govTokenAdmin, govAllowances, govLedger, govSaturated>>
  BY Zenon DEF Governance!Token!Burn, Governance!Token!Authorized
<1>2. /\ GovMaxAmount \in Nat \ {0} /\ govBalances \in [GovAddress -> 0..GovMaxAmount] /\ govBalances[a] \in Nat
      /\ govBalances[a] <= GovMaxAmount
      /\ Governance!Token!TypeOK /\ govSupply \in Governance!MinAmount..GovMaxAmount /\ Governance!IsFiniteSet(GovAddress)
      /\ \A x \in GovAddress : govBalances[x] \in Nat
      /\ Governance!MinAmount = -GovMaxAmount - 1 /\ Governance!Token!MinAmount = -GovMaxAmount - 1 /\ n \in Nat
      /\ govSupply \in Int /\ Governance!Total(govBalances, GovAddress) \in Nat /\ govSupply <= Governance!Total(govBalances, GovAddress)
  BY <1>1, TokenNumbers DEF TokenInv
<1> DEFINE s == Governance!Token!Saturate(govSupply - n)
<1>3. /\ s \in Governance!MinAmount..GovMaxAmount /\ (govSupply - n >= Governance!MinAmount => s = govSupply - n)
      /\ govSupply - n < Governance!MinAmount => s = Governance!MinAmount
  <2>1. govSupply - n \in Int /\ govSupply - n <= GovMaxAmount
    BY <1>2
  <2>2. s \in Governance!MinAmount..GovMaxAmount /\ (govSupply - n >= Governance!MinAmount => s = govSupply - n)
    BY <2>1, VotesSaturate
  <2>3. govSupply - n < Governance!MinAmount => s = Governance!MinAmount
    BY <1>2, <2>1 DEF Governance!Token!Saturate
  <2>4. QED
    BY <2>2, <2>3
<1>4. govSupply' = s
  BY <1>1
<1> HIDE DEF s
<1>5. /\ govBalances' \in [GovAddress -> 0..GovMaxAmount] /\ govBalances'[a] = govBalances[a] - n
      /\ \A x \in GovAddress \ {a} : govBalances'[x] = govBalances[x]
  BY <1>1, <1>2
<1>6. Governance!Token!TypeOK'
  <2>1. govSupply' \in Governance!Token!MinAmount..GovMaxAmount
    BY <1>2, <1>3, <1>4
  <2>2. QED
    BY <1>1, <1>2, <1>5, <2>1 DEF Governance!Token!TypeOK
<1>7. Governance!Total(govBalances', GovAddress) = Governance!Total(govBalances, GovAddress) - n /\ Governance!Total(govBalances', GovAddress) \in Nat
  <2>1. \A x \in GovAddress : govBalances'[x] \in Nat
    BY <1>2, <1>5
  <2>2. Governance!Total(govBalances', GovAddress) = Governance!Total(govBalances, GovAddress) - govBalances[a] + govBalances'[a]
    BY <1>2, <1>5, <2>1, TotalChange, GovernanceTotals
  <2>3. Governance!Total(govBalances', GovAddress) \in Nat
    BY <1>2, <2>1, TotalNat, GovernanceTotals
  <2>4. QED
    BY <1>2, <1>5, <2>2, <2>3
<1>8. govSupply' <= Governance!Total(govBalances', GovAddress)
  BY <1>2, <1>3, <1>4, <1>7
<1>9. ASSUME ~govSaturated PROVE govSupply' = Governance!Total(govBalances', GovAddress)
  <2>1. govSupply = Governance!Total(govBalances, GovAddress)
    BY <1>9 DEF TokenInv
  <2>2. govSupply - n >= Governance!MinAmount
    BY <1>2, <1>7, <2>1
  <2>3. QED
    BY <1>2, <1>3, <1>4, <1>7, <2>1, <2>2
<1>10. govTokenAdmin # None
  BY <1>1, <1>2 DEF TokenInv
<1>11. QED
  BY <1>1, <1>6, <1>8, <1>9, <1>10 DEF TokenInv

LEMMA GovTransferKeeps ==
  ASSUME Governance!GovernanceAssumption, TokenInv, NEW from \in GovAddress, NEW to \in GovAddress,
         NEW n \in GovAmounts, Governance!Token!Transfer(from, to, n)
  PROVE  TokenInv' /\ govSaturated' = govSaturated
<1> DEFINE less == [govBalances EXCEPT ![from] = @ - n]  after == [less EXCEPT ![to] = @ + n]
<1>1. /\ n > 0 /\ govBalances[from] >= n /\ less[to] + n <= GovMaxAmount /\ govSigners' = {from}
      /\ govBalances' = after
      /\ UNCHANGED <<govTokenAdmin, govSupply, govAllowances, govLedger, govSaturated>>
  BY Zenon DEF Governance!Token!Transfer, Governance!Token!Authorized, Governance!Token!Move
<1>2. /\ GovMaxAmount \in Nat \ {0} /\ govBalances \in [GovAddress -> 0..GovMaxAmount]
      /\ Governance!Token!TypeOK /\ Governance!IsFiniteSet(GovAddress)
      /\ \A x \in GovAddress : govBalances[x] \in Nat
      /\ n \in Nat /\ Governance!Total(govBalances, GovAddress) \in Nat
  BY <1>1, TokenNumbers DEF TokenInv
<1>3. less \in [GovAddress -> 0..GovMaxAmount] /\ less[from] = govBalances[from] - n
      /\ \A a \in GovAddress \ {from} : less[a] = govBalances[a]
  BY <1>1, <1>2
<1> HIDE DEF less
<1>4. /\ after \in [GovAddress -> Int] /\ after[to] = less[to] + n
      /\ \A a \in GovAddress \ {to} : after[a] = less[a]
  BY <1>2, <1>3
<1> HIDE DEF after
<1>5. after \in [GovAddress -> 0..GovMaxAmount]
  <2>1. \A a \in GovAddress : after[a] \in 0..GovMaxAmount
    BY <1>1, <1>2, <1>3, <1>4
  <2>2. QED
    BY <1>4, <2>1
<1>6. \A a \in GovAddress : after[a] \in Nat
  BY <1>2, <1>5
<1>7. Governance!Total(after, GovAddress) = Governance!Total(govBalances, GovAddress)
  <2>1. CASE from = to
    <3>1. \A a \in GovAddress : after[a] = govBalances[a]
      BY <1>2, <1>3, <1>4, <1>6, <2>1
    <3>2. QED
      BY <3>1, TotalSame, GovernanceTotals
  <2>2. CASE from # to
    <3>1. /\ after[from] = govBalances[from] - n /\ after[to] = govBalances[to] + n
          /\ \A a \in GovAddress \ {from, to} : after[a] = govBalances[a]
      BY <1>3, <1>4, <2>2
    <3>2. QED
      BY <1>2, <1>6, <2>2, <3>1, TotalMove, GovernanceTotals
  <2>3. QED
    BY <2>1, <2>2
<1>8. Governance!Token!TypeOK'
  BY <1>1, <1>2, <1>5 DEF Governance!Token!TypeOK
<1>9. govTokenAdmin # None
  BY <1>1, <1>2 DEF TokenInv
<1>10. QED
  BY <1>1, <1>7, <1>8, <1>9 DEF TokenInv

LEMMA GovTokenKeeps ==
  ASSUME Governance!GovernanceAssumption, TokenInv, Governance!TokenStep
  PROVE  TokenInv' /\ (govSaturated => govSaturated')
<1>1. ASSUME NEW a \in GovAddress, Governance!Token!Initialize(a)
      PROVE  TokenInv' /\ govSaturated' = govSaturated
  <2>1. /\ govTokenAdmin = None /\ govTokenAdmin' = a /\ govSupply' = 0 /\ govSigners' = {}
        /\ UNCHANGED <<govBalances, govAllowances, govLedger, govSaturated>>
    BY <1>1 DEF Governance!Token!Initialize, Governance!Token!Authorized
  <2>2. govSupply' = govSupply /\ govTokenAdmin' # None
    BY <2>1, TokenNumbers DEF TokenInv
  <2>3. Governance!Token!TypeOK'
    BY <2>1, <2>2 DEF TokenInv, Governance!Token!TypeOK
  <2>4. QED
    BY <2>1, <2>2, <2>3 DEF TokenInv
<1>2. QED
  BY <1>1, GovMintKeeps, GovBurnKeeps, GovTransferKeeps DEF Governance!TokenStep

LEMMA GovInit ==
  ASSUME Governance!GovernanceAssumption, Governance!Init
  PROVE  GovInv
<1>1. /\ govTokenAdmin = None /\ govBalances = [a \in GovAddress |-> 0] /\ govSupply = 0
      /\ govAllowances = [g \in {} |-> None] /\ govLedger = 1 /\ govSigners = {}
      /\ govSaturated = FALSE /\ govAdmin = None /\ quorum = None /\ proposalCount = 0
      /\ proposals = [id \in Governance!Ids |-> None] /\ hasVoted = {} /\ cast = {} /\ moved = {}
  BY DEF Governance!Init, Governance!Token!Init
<1>2. 0 \in 0..GovMaxAmount /\ 0 \in Governance!Token!MinAmount..GovMaxAmount /\ 1 \in 1..GovMaxLedger
      /\ 0 \in 0..GovMaxProposals
  BY DEF Governance!GovernanceAssumption, Governance!Token!MinAmount
<1>3. Governance!Token!TypeOK
  BY <1>1, <1>2 DEF Governance!Token!TypeOK
<1>4. Governance!TypeOK
  BY <1>1, <1>2, <1>3 DEF Governance!TypeOK
<1>5. Governance!Total(govBalances, GovAddress) = 0
  BY <1>1, TotalZero, GovernanceTotals
<1>6. TokenInv
  BY <1>1, <1>3, <1>5 DEF TokenInv
<1>7. Governance!Stored = {}
  BY <1>1 DEF Governance!Stored
<1>8. QED
  BY <1>1, <1>4, <1>6, <1>7 DEF GovInv, Governance!TalliesAreHoldings

\* What the types say of the proposals.
LEMMA ProposalNumbers ==
  ASSUME Governance!GovernanceAssumption, Governance!TypeOK
  PROVE  /\ GovMaxAmount \in Nat \ {0} /\ GovMaxProposals \in Nat /\ Governance!Ids \subseteq Nat
         /\ proposals \in [Governance!Ids -> Governance!Proposal \cup {None}]
         /\ Governance!Stored \subseteq Governance!Ids
         /\ \A id \in Governance!Stored : /\ proposals[id] \in Governance!Proposal
                               /\ proposals[id].yes_votes \in Governance!MinAmount..GovMaxAmount
                               /\ proposals[id].yes_votes \in Int
                               /\ proposals[id].no_votes \in Governance!MinAmount..GovMaxAmount
                               /\ proposals[id].no_votes \in Int
<1>1. /\ GovMaxAmount \in Nat \ {0} /\ GovMaxProposals \in Nat /\ Governance!Ids \subseteq Nat
      /\ proposals \in [Governance!Ids -> Governance!Proposal \cup {None}] /\ Governance!Stored \subseteq Governance!Ids
      /\ Governance!MinAmount \in Int
  BY DEF Governance!GovernanceAssumption, Governance!TypeOK, Governance!Stored, Governance!Ids,
     Governance!MinAmount
<1>2. ASSUME NEW id \in Governance!Stored
      PROVE  /\ proposals[id] \in Governance!Proposal
             /\ proposals[id].yes_votes \in Governance!MinAmount..GovMaxAmount /\ proposals[id].yes_votes \in Int
             /\ proposals[id].no_votes \in Governance!MinAmount..GovMaxAmount /\ proposals[id].no_votes \in Int
  <2>1. proposals[id] \in Governance!Proposal
    BY <1>1 DEF Governance!Stored
  <2>2. /\ proposals[id].yes_votes \in Governance!MinAmount..GovMaxAmount
        /\ proposals[id].no_votes \in Governance!MinAmount..GovMaxAmount
    BY <2>1 DEF Governance!Proposal
  <2>3. QED
    BY <1>1, <2>1, <2>2
<1>3. QED
  BY <1>1, <1>2

\* What an invocation that touches no token leaves of the invariant.
LEMMA TokenUntouched ==
  ASSUME Governance!GovernanceAssumption, TokenInv, UNCHANGED <<Governance!tokenVars, govLedger>>, govSigners' \subseteq GovAddress
  PROVE  TokenInv' /\ UNCHANGED <<govTokenAdmin, govBalances, govSupply, govAllowances, govSaturated>>
<1>1. UNCHANGED <<govTokenAdmin, govBalances, govSupply, govAllowances, govSaturated>>
  BY DEF Governance!tokenVars
<1>2. Governance!Token!TypeOK'
  BY <1>1 DEF TokenInv, Governance!Token!TypeOK
<1>3. QED
  BY <1>1, <1>2 DEF TokenInv

\* Proposals that keep their tallies and their voters keep their account.
LEMMA TalliesKeep ==
  ASSUME Governance!GovernanceAssumption, GovInv, UNCHANGED <<govBalances, govSaturated, moved, cast>>,
         proposals' \in [Governance!Ids -> Governance!Proposal \cup {None}],
         \A id \in Governance!Ids : proposals'[id] # None =>
           /\ proposals[id] # None
           /\ proposals'[id].yes_votes = proposals[id].yes_votes
           /\ proposals'[id].no_votes = proposals[id].no_votes
  PROVE  /\ Governance!TalliesAreHoldings'
         /\ \A id \in Governance!Stored' : proposals'[id].yes_votes >= 0 /\ proposals'[id].no_votes >= 0
<1>1. \A id \in Governance!Stored' : /\ id \in Governance!Stored
                          /\ proposals'[id].yes_votes = proposals[id].yes_votes
                          /\ proposals'[id].no_votes = proposals[id].no_votes
  BY DEF Governance!Stored, Governance!Ids
<1>2. \A id \in Governance!Stored' : proposals'[id].yes_votes >= 0 /\ proposals'[id].no_votes >= 0
  BY <1>1 DEF GovInv
<1>3. ASSUME NEW id \in Governance!Stored', id \notin moved', ~govSaturated'
      PROVE  proposals'[id].yes_votes + proposals'[id].no_votes
               = Governance!Total(govBalances', {a \in GovAddress : <<id, a>> \in cast'})
  BY <1>1, <1>3 DEF GovInv, Governance!TalliesAreHoldings
<1>4. QED
  BY <1>2, <1>3 DEF Governance!TalliesAreHoldings

\* A new proposal starts with no vote of its own.
LEMMA CreateProposalKeeps ==
  ASSUME Governance!GovernanceAssumption, GovInv, NEW a \in GovAddress, Governance!CreateProposal(a)
  PROVE  GovInv'
<1> DEFINE id == proposalCount + 1
           new == [proposer |-> a, yes_votes |-> 0, no_votes |-> 0,
                   end_ledger |-> govLedger + GovVotingPeriod, status |-> "Active"]
<1>1. /\ id <= GovMaxProposals /\ govSigners' = {a} /\ proposals' = [proposals EXCEPT ![id] = new]
      /\ proposalCount' = id /\ cast' = {v \in cast : v[1] # id} /\ moved' = moved \ {id}
      /\ UNCHANGED <<govAdmin, quorum, hasVoted, Governance!tokenVars, govLedger>>
  BY DEF Governance!CreateProposal
<1>2. /\ Governance!TypeOK /\ TokenInv /\ Governance!Token!TypeOK /\ GovVotingPeriod \in Nat /\ govLedger \in Nat
      /\ GovMaxAmount \in Nat \ {0} /\ Governance!MinAmount = -GovMaxAmount - 1 /\ None \notin Governance!Proposal
  BY TokenNumbers DEF GovInv, TokenInv, Governance!GovernanceAssumption
<1>3. new \in Governance!Proposal
  <2>1. 0 \in Governance!MinAmount..GovMaxAmount /\ govLedger + GovVotingPeriod \in Nat
    BY <1>2
  <2>2. QED
    BY <2>1 DEF Governance!Proposal
<1>4. /\ new.yes_votes = 0 /\ new.no_votes = 0
  OBVIOUS
<1> HIDE DEF new
<1>5. id \in Governance!Ids /\ proposalCount' \in 0..GovMaxProposals
  <2>1. proposalCount \in 0..GovMaxProposals /\ GovMaxProposals \in Nat
    BY <1>2 DEF Governance!TypeOK, Governance!GovernanceAssumption
  <2>2. id \in Governance!Ids /\ id \in 0..GovMaxProposals
    BY <1>1, <2>1 DEF Governance!Ids
  <2>3. QED
    BY <1>1, <2>2
<1> HIDE DEF id
<1>6. /\ proposals' \in [Governance!Ids -> Governance!Proposal \cup {None}] /\ proposals'[id] = new
      /\ \A i \in Governance!Ids \ {id} : proposals'[i] = proposals[i]
  BY <1>1, <1>2, <1>3, <1>5 DEF Governance!TypeOK
<1>7. TokenInv' /\ UNCHANGED <<govTokenAdmin, govBalances, govSupply, govAllowances, govSaturated>>
  BY <1>1, <1>2, TokenUntouched
<1>8. Governance!TypeOK'
  <2>1. cast' \subseteq hasVoted' /\ moved' \subseteq Governance!Ids /\ hasVoted' \subseteq Governance!Ids \X GovAddress
    BY <1>1, <1>2 DEF Governance!TypeOK
  <2>2. QED
    BY <1>1, <1>2, <1>5, <1>6, <1>7, <2>1 DEF Governance!TypeOK, TokenInv, Governance!Ids
<1>9. \A i \in Governance!Stored' : proposals'[i].yes_votes >= 0 /\ proposals'[i].no_votes >= 0
  <2>1. \A i \in Governance!Stored' : i = id \/ (i \in Governance!Stored /\ proposals'[i] = proposals[i])
    BY <1>6 DEF Governance!Stored, Governance!Ids
  <2>2. QED
    BY <1>4, <1>6, <2>1 DEF GovInv
<1>10. Governance!TalliesAreHoldings'
  <2> SUFFICES ASSUME NEW i \in Governance!Stored', i \notin moved', ~govSaturated'
               PROVE  proposals'[i].yes_votes + proposals'[i].no_votes
                        = Governance!Total(govBalances', {x \in GovAddress : <<i, x>> \in cast'})
    BY DEF Governance!TalliesAreHoldings
  <2>1. CASE i = id
    <3>1. {x \in GovAddress : <<i, x>> \in cast'} = {}
      BY <1>1, <2>1
    <3>2. Governance!Total(govBalances', {x \in GovAddress : <<i, x>> \in cast'}) = 0
      BY <3>1, TotalZero, GovernanceTotals
    <3>3. QED
      BY <1>4, <1>6, <2>1, <3>2
  <2>2. CASE i # id
    <3>1. i \in Governance!Stored /\ proposals'[i] = proposals[i] /\ i \notin moved
      BY <1>1, <1>6, <2>2 DEF Governance!Stored, Governance!Ids
    <3>2. {x \in GovAddress : <<i, x>> \in cast'} = {x \in GovAddress : <<i, x>> \in cast}
      BY <1>1, <2>2
    <3>3. QED
      BY <1>7, <3>1, <3>2 DEF GovInv, Governance!TalliesAreHoldings
  <2>3. QED
    BY <2>1, <2>2
<1>11. QED
  BY <1>1, <1>7, <1>8, <1>9, <1>10 DEF GovInv, Governance!ValidQuorum

\* A vote counts the voter's holdings once: until a mint saturates the two
\* tallies and the weight together are within the supply, so nothing clamps.
LEMMA VoteCounted ==
  ASSUME Governance!GovernanceAssumption, GovInv, NEW a \in GovAddress, NEW id \in Governance!Stored,
         <<id, a>> \notin hasVoted, id \notin moved, ~govSaturated
  PROVE  LET y == proposals[id].yes_votes  n == proposals[id].no_votes
             voters == {x \in GovAddress : <<id, x>> \in cast}
         IN  /\ y + govBalances[a] <= GovMaxAmount /\ n + govBalances[a] <= GovMaxAmount
             /\ Governance!Total(govBalances, voters \cup {a}) = y + n + govBalances[a]
<1> DEFINE y == proposals[id].yes_votes  n == proposals[id].no_votes
           voters == {x \in GovAddress : <<id, x>> \in cast}
<1>1. /\ y \in Int /\ n \in Int /\ y >= 0 /\ n >= 0
  BY ProposalNumbers DEF GovInv
<1>2. y + n = Governance!Total(govBalances, voters)
  BY DEF GovInv, Governance!TalliesAreHoldings
<1>3. /\ Governance!IsFiniteSet(GovAddress) /\ \A x \in GovAddress : govBalances[x] \in Nat
      /\ Governance!Total(govBalances, GovAddress) \in Nat /\ GovMaxAmount \in Nat
      /\ govSupply \in Int /\ govSupply <= GovMaxAmount /\ govSupply = Governance!Total(govBalances, GovAddress)
  BY TokenNumbers DEF GovInv, TokenInv
<1>4. voters \subseteq GovAddress /\ a \notin voters
  BY DEF GovInv, Governance!TypeOK
<1> HIDE DEF y, n, voters
<1>5. Governance!IsFiniteSet(voters) /\ Governance!IsFiniteSet(voters \cup {a})
  BY <1>3, <1>4, FS_Subset, GovernanceTotals
<1>6. Governance!Total(govBalances, voters \cup {a}) = Governance!Total(govBalances, voters) + govBalances[a]
  BY <1>3, <1>4, <1>5, TotalInsert, GovernanceTotals
<1>7. Governance!Total(govBalances, voters \cup {a}) <= Governance!Total(govBalances, GovAddress)
  BY <1>3, <1>4, <1>5, TotalBounds, GovernanceTotals
<1>8. /\ govBalances[a] \in Nat /\ Governance!Total(govBalances, voters \cup {a}) = y + n + govBalances[a]
      /\ y + n + govBalances[a] <= GovMaxAmount
  <2>1. govBalances[a] \in Nat /\ Governance!Total(govBalances, voters) \in Nat
    BY <1>3, <1>4, <1>5, TotalNat, GovernanceTotals
  <2>2. QED
    BY <1>1, <1>2, <1>3, <1>6, <1>7, <2>1
<1>9. y + govBalances[a] <= GovMaxAmount /\ n + govBalances[a] <= GovMaxAmount
  BY <1>1, <1>3, <1>8
<1>10. QED
  BY <1>8, <1>9 DEF y, n, voters

LEMMA VoteKeeps ==
  ASSUME Governance!GovernanceAssumption, GovInv, NEW a \in GovAddress, NEW id \in Governance!Ids, NEW s \in BOOLEAN,
         Governance!Vote(a, id, s)
  PROVE  GovInv'
<1> DEFINE p == proposals[id]  y == p.yes_votes  n == p.no_votes  w == govBalances[a]
           q == proposals'[id]
<1>1. /\ <<id, a>> \notin hasVoted /\ id \in Governance!Stored /\ govSigners' = {a}
      /\ hasVoted' = hasVoted \cup {<<id, a>>} /\ cast' = cast \cup {<<id, a>>}
      /\ UNCHANGED <<govAdmin, quorum, proposalCount, moved, Governance!tokenVars, govLedger>>
  BY DEF Governance!Vote
<1>2. \/ proposals' = [proposals EXCEPT ![id].yes_votes = Governance!Tally(y, w)]
      \/ proposals' = [proposals EXCEPT ![id].no_votes = Governance!Tally(n, w)]
  BY Zenon DEF Governance!Vote
<1>3. /\ Governance!TypeOK /\ TokenInv /\ Governance!Token!TypeOK /\ proposals \in [Governance!Ids -> Governance!Proposal \cup {None}]
      /\ p \in Governance!Proposal /\ y \in Int /\ n \in Int /\ y >= 0 /\ n >= 0 /\ w \in Nat
      /\ None \notin Governance!Proposal /\ GovMaxAmount \in Nat \ {0} /\ Governance!MinAmount = -GovMaxAmount - 1
  BY <1>1, ProposalNumbers, TokenNumbers DEF GovInv, TokenInv, Governance!GovernanceAssumption
<1>4. /\ Governance!Tally(y, w) \in 0..GovMaxAmount /\ (y + w <= GovMaxAmount => Governance!Tally(y, w) = y + w)
      /\ Governance!Tally(n, w) \in 0..GovMaxAmount /\ (n + w <= GovMaxAmount => Governance!Tally(n, w) = n + w)
  <2> HIDE DEF y, n, w
  <2>1. y + w \in Int /\ n + w \in Int /\ y + w >= 0 /\ n + w >= 0
        /\ y + w >= Governance!MinAmount /\ n + w >= Governance!MinAmount
    BY <1>3
  <2>2. QED
    BY <2>1, VotesSaturate DEF Governance!Tally
<1>5. Governance!Tally(y, w) \in Governance!MinAmount..GovMaxAmount /\ Governance!Tally(n, w) \in Governance!MinAmount..GovMaxAmount
  BY <1>3, <1>4
<1>6. /\ \/ q = [p EXCEPT !.yes_votes = Governance!Tally(y, w)]
         \/ q = [p EXCEPT !.no_votes = Governance!Tally(n, w)]
      /\ \A i \in Governance!Ids \ {id} : proposals'[i] = proposals[i]
      /\ proposals' = [proposals EXCEPT ![id] = q]
  BY <1>2, <1>3
<1>7. /\ q \in Governance!Proposal
      /\ \/ q.yes_votes = Governance!Tally(y, w) /\ q.no_votes = n
         \/ q.no_votes = Governance!Tally(n, w) /\ q.yes_votes = y
  <2>1. p \in Governance!Proposal
    BY <1>3
  <2> HIDE DEF p, q
  <2>2. CASE q = [p EXCEPT !.yes_votes = Governance!Tally(y, w)]
    BY <1>5, <2>1, <2>2 DEF Governance!Proposal, n
  <2>3. CASE q = [p EXCEPT !.no_votes = Governance!Tally(n, w)]
    BY <1>5, <2>1, <2>3 DEF Governance!Proposal, y
  <2>4. QED
    BY <1>6, <2>2, <2>3
<1>8. TokenInv' /\ UNCHANGED <<govTokenAdmin, govBalances, govSupply, govAllowances, govSaturated>>
  BY <1>1, <1>3, TokenUntouched
<1>9. Governance!TypeOK'
  <2>1. proposals' \in [Governance!Ids -> Governance!Proposal \cup {None}]
    BY <1>3, <1>6, <1>7
  <2>2. cast' \subseteq hasVoted' /\ hasVoted' \subseteq Governance!Ids \X GovAddress
    BY <1>1, <1>3 DEF Governance!TypeOK
  <2>3. QED
    BY <1>1, <1>3, <1>8, <2>1, <2>2 DEF Governance!TypeOK, TokenInv, Governance!Ids
<1>10. \A i \in Governance!Stored' : i = id \/ (i \in Governance!Stored /\ proposals'[i] = proposals[i])
  BY <1>6 DEF Governance!Stored, Governance!Ids
<1>11. \A i \in Governance!Stored' : proposals'[i].yes_votes >= 0 /\ proposals'[i].no_votes >= 0
  <2>1. q.yes_votes >= 0 /\ q.no_votes >= 0
    BY <1>3, <1>4, <1>7
  <2>2. QED
    BY <1>10, <2>1 DEF GovInv
<1>12. Governance!TalliesAreHoldings'
  <2> SUFFICES ASSUME NEW i \in Governance!Stored', i \notin moved', ~govSaturated'
               PROVE  proposals'[i].yes_votes + proposals'[i].no_votes
                        = Governance!Total(govBalances', {x \in GovAddress : <<i, x>> \in cast'})
    BY DEF Governance!TalliesAreHoldings
  <2>1. CASE i = id
    <3> DEFINE voters == {x \in GovAddress : <<id, x>> \in cast}
    <3>1. {x \in GovAddress : <<i, x>> \in cast'} = voters \cup {a}
      BY <1>1, <2>1
    <3>2. /\ y + w <= GovMaxAmount /\ n + w <= GovMaxAmount
          /\ Governance!Total(govBalances, voters \cup {a}) = y + n + w
      BY <1>1, <1>8, <2>1, VoteCounted
    <3>3. q.yes_votes + q.no_votes = y + n + w
      <4> HIDE DEF y, n, w, q
      <4>1. QED
        BY <1>3, <1>4, <1>7, <3>2
    <3>4. QED
      BY <1>8, <2>1, <3>1, <3>2, <3>3
  <2>2. CASE i # id
    <3>1. i \in Governance!Stored /\ proposals'[i] = proposals[i] /\ i \notin moved
      BY <1>1, <1>10, <2>2
    <3>2. {x \in GovAddress : <<i, x>> \in cast'} = {x \in GovAddress : <<i, x>> \in cast}
      BY <1>1, <2>2
    <3>3. QED
      BY <1>8, <3>1, <3>2 DEF GovInv, Governance!TalliesAreHoldings
  <2>3. QED
    BY <2>1, <2>2
<1>13. QED
  BY <1>1, <1>8, <1>9, <1>11, <1>12 DEF GovInv, Governance!ValidQuorum

\* finalise and execute change a proposal's status only.
LEMMA DecisionKeeps ==
  ASSUME Governance!GovernanceAssumption, GovInv, NEW id \in Governance!Ids, Governance!Finalise(id) \/ Governance!Execute(id)
  PROVE  GovInv'
<1>1. /\ id \in Governance!Stored /\ govSigners' \subseteq GovAddress
      /\ UNCHANGED <<govAdmin, quorum, proposalCount, hasVoted, cast, moved, Governance!tokenVars, govLedger>>
      /\ \E st \in {"Passed", "Rejected", "Executed"} :
           proposals' = [proposals EXCEPT ![id].status = st]
  BY DEF Governance!Finalise, Governance!Execute, GovInv, Governance!TypeOK
<1>2. PICK st \in {"Passed", "Rejected", "Executed"} :
        proposals' = [proposals EXCEPT ![id].status = st]
  BY <1>1
<1>3. /\ Governance!TypeOK /\ TokenInv /\ proposals \in [Governance!Ids -> Governance!Proposal \cup {None}]
      /\ proposals[id] \in Governance!Proposal
  BY <1>1, ProposalNumbers DEF GovInv
<1>4. /\ proposals'[id] = [proposals[id] EXCEPT !.status = st]
      /\ \A i \in Governance!Ids \ {id} : proposals'[i] = proposals[i]
      /\ proposals' = [proposals EXCEPT ![id] = proposals'[id]]
  BY <1>2, <1>3
<1>5. /\ proposals'[id] \in Governance!Proposal
      /\ proposals'[id].yes_votes = proposals[id].yes_votes
      /\ proposals'[id].no_votes = proposals[id].no_votes
  BY <1>3, <1>4 DEF Governance!Proposal
<1>6. proposals' \in [Governance!Ids -> Governance!Proposal \cup {None}]
  BY <1>3, <1>4, <1>5
<1>7. TokenInv' /\ UNCHANGED <<govTokenAdmin, govBalances, govSupply, govAllowances, govSaturated>>
  BY <1>1, <1>3, TokenUntouched
<1>8. Governance!TypeOK'
  BY <1>1, <1>3, <1>6, <1>7 DEF Governance!TypeOK, TokenInv, Governance!Ids
<1>9. \A i \in Governance!Ids : proposals'[i] # None =>
        /\ proposals[i] # None
        /\ proposals'[i].yes_votes = proposals[i].yes_votes
        /\ proposals'[i].no_votes = proposals[i].no_votes
  BY <1>1, <1>4, <1>5 DEF Governance!Stored
<1>10. /\ Governance!TalliesAreHoldings'
       /\ \A i \in Governance!Stored' : proposals'[i].yes_votes >= 0 /\ proposals'[i].no_votes >= 0
  BY <1>1, <1>6, <1>7, <1>9, TalliesKeep
<1>11. QED
  BY <1>1, <1>7, <1>8, <1>10 DEF GovInv, Governance!ValidQuorum

\* initialize and set_quorum accept a quorum that is valid.
LEMMA QuorumKeeps ==
  ASSUME Governance!GovernanceAssumption, GovInv, NEW q \in GovQuorums, Governance!ValidQuorum(q), quorum' = q,
         UNCHANGED <<proposals, hasVoted, cast, moved, Governance!tokenVars, govLedger>>,
         govSigners' \subseteq GovAddress, govAdmin' \in GovAddress \cup {None},
         proposalCount' \in 0..GovMaxProposals
  PROVE  GovInv'
<1>1. Governance!TypeOK /\ TokenInv /\ q \in Governance!Quorum /\ proposals \in [Governance!Ids -> Governance!Proposal \cup {None}]
  BY DEF GovInv, Governance!GovernanceAssumption, Governance!TypeOK
<1>2. TokenInv' /\ UNCHANGED <<govTokenAdmin, govBalances, govSupply, govAllowances, govSaturated>>
  BY <1>1, TokenUntouched
<1>3. Governance!TypeOK'
  BY <1>1, <1>2 DEF Governance!TypeOK, TokenInv, Governance!Ids
<1>4. /\ Governance!TalliesAreHoldings'
      /\ \A i \in Governance!Stored' : proposals'[i].yes_votes >= 0 /\ proposals'[i].no_votes >= 0
  BY <1>1, <1>2, TalliesKeep
<1>5. QED
  BY <1>2, <1>3, <1>4 DEF GovInv, Governance!ValidQuorum

LEMMA GovStep ==
  ASSUME Governance!GovernanceAssumption, GovInv, [Governance!Next]_governanceVars
  PROVE  GovInv'
<1>1. /\ Governance!TypeOK /\ TokenInv /\ govAdmin \in GovAddress \cup {None} /\ 0 \in 0..GovMaxProposals
      /\ proposalCount \in 0..GovMaxProposals
  BY DEF GovInv, Governance!TypeOK, Governance!GovernanceAssumption
<1>2. CASE \E a \in GovAddress, q \in GovQuorums : Governance!Initialize(a, q)
  BY <1>1, <1>2, QuorumKeeps DEF Governance!Initialize
<1>3. CASE \E a \in GovAddress : Governance!CreateProposal(a)
  BY <1>3, CreateProposalKeeps
<1>4. CASE \E a \in GovAddress, id \in Governance!Ids, s \in BOOLEAN : Governance!Vote(a, id, s)
  BY <1>4, VoteKeeps
<1>5. CASE \E id \in Governance!Ids : Governance!Finalise(id) \/ Governance!Execute(id)
  BY <1>5, DecisionKeeps
<1>6. ASSUME NEW q \in GovQuorums, Governance!SetQuorum(q)
      PROVE  GovInv'
  <2>1. govSigners' \subseteq GovAddress /\ govAdmin' = govAdmin /\ proposalCount' = proposalCount
    BY <1>1, <1>6 DEF Governance!SetQuorum
  <2>2. QED
    BY <1>1, <1>6, <2>1, QuorumKeeps DEF Governance!SetQuorum
<1>7. CASE Governance!TokenStep
  <2>1. /\ TokenInv' /\ (govSaturated => govSaturated')
        /\ moved' = IF govBalances' = govBalances THEN moved ELSE Governance!Ids
        /\ UNCHANGED <<govAdmin, quorum, proposalCount, proposals, hasVoted, cast>>
    BY <1>1, <1>7, GovTokenKeeps DEF Governance!TokenStep
  <2>2. Governance!TypeOK'
    BY <1>1, <2>1 DEF Governance!TypeOK, TokenInv, Governance!Ids
  <2>3. Governance!Stored' = Governance!Stored
    BY <2>1 DEF Governance!Stored, Governance!Ids
  <2>4. Governance!TalliesAreHoldings'
    <3> SUFFICES ASSUME NEW id \in Governance!Stored, id \notin moved', ~govSaturated'
                 PROVE  proposals[id].yes_votes + proposals[id].no_votes
                          = Governance!Total(govBalances', {a \in GovAddress : <<id, a>> \in cast})
      BY <2>1, <2>3 DEF Governance!TalliesAreHoldings
    <3>1. govBalances' = govBalances /\ id \notin moved /\ ~govSaturated
      BY <2>1 DEF Governance!Stored
    <3>2. QED
      BY <3>1 DEF GovInv, Governance!TalliesAreHoldings
  <2>5. QED
    BY <2>1, <2>2, <2>3, <2>4 DEF GovInv, Governance!ValidQuorum
<1>8. ASSUME govLedger' \in 1..GovMaxLedger, UNCHANGED Governance!govVars,
             UNCHANGED <<govTokenAdmin, govBalances, govSupply, govAllowances, govSigners, govSaturated>>
      PROVE  GovInv'
  <2>1. UNCHANGED <<govAdmin, quorum, proposalCount, proposals, hasVoted, cast, moved>>
    BY <1>8 DEF Governance!govVars
  <2>2. TokenInv'
    BY <1>1, <1>8 DEF TokenInv, Governance!Token!TypeOK
  <2>3. Governance!TypeOK'
    BY <1>1, <2>1, <2>2 DEF Governance!TypeOK, TokenInv, Governance!Ids
  <2>4. Governance!Stored' = Governance!Stored /\ Governance!TalliesAreHoldings'
    BY <1>8, <2>1 DEF GovInv, Governance!TalliesAreHoldings, Governance!Stored, Governance!Ids
  <2>5. QED
    BY <2>1, <2>2, <2>3, <2>4 DEF GovInv, Governance!ValidQuorum
<1>9. CASE Governance!CloseLedger
  <2>1. govLedger \in 1..GovMaxLedger /\ GovMaxLedger \in Nat
    BY <1>1 DEF TokenInv, Governance!Token!TypeOK, Governance!GovernanceAssumption
  <2>2. /\ govLedger' = govLedger + 1 /\ govLedger < GovMaxLedger /\ UNCHANGED Governance!govVars
        /\ UNCHANGED <<govTokenAdmin, govBalances, govSupply, govAllowances, govSigners, govSaturated>>
    BY <1>9 DEF Governance!CloseLedger, Governance!Token!CloseLedger
  <2>3. govLedger' \in 1..GovMaxLedger
    BY <2>1, <2>2
  <2>4. QED
    BY <1>8, <2>2, <2>3
<1>10. CASE UNCHANGED governanceVars
  <2>1. govLedger' \in 1..GovMaxLedger
    BY <1>1, <1>10 DEF governanceVars, TokenInv, Governance!Token!TypeOK
  <2>2. QED
    BY <1>8, <1>10, <2>1 DEF governanceVars, Governance!govVars, Governance!tokenVars
<1>11. QED
  BY <1>2, <1>3, <1>4, <1>5, <1>6, <1>7, <1>9, <1>10 DEF Governance!Next

\* The truncated quotient of a product of at most n hundred percents.
LEMMA CeilingBound ==
  ASSUME NEW n \in Nat, NEW v \in Nat, NEW b \in Nat \ {0}, v <= b, NEW m \in Int,
         m <= n * v
  PROVE  m + (b - 1) >= 0 => (m + (b - 1)) \div b <= n
<1> SUFFICES ASSUME m + (b - 1) >= 0 PROVE (m + (b - 1)) \div b <= n
  OBVIOUS
<1> DEFINE d == m + (b - 1)  q == d \div b
<1>1. n * v <= n * b
  OBVIOUS
<1>2. n * v \in Nat /\ n * b \in Nat
  OBVIOUS
<1>3. d \in Nat /\ d < n * b + b
  <2> DEFINE x == n * v  z == n * b
  <2>1. x \in Nat /\ z \in Nat /\ x <= z /\ m <= x
    BY <1>1, <1>2
  <2> HIDE DEF x, z
  <2>2. m + (b - 1) < z + b
    BY <2>1
  <2>3. QED
    BY <2>2 DEF z
<1> HIDE DEF d
<1>4. q \in Nat /\ q * b <= d
  BY <1>3
<1> HIDE DEF q
<1>5. q * b < (n + 1) * b
  <2> DEFINE x == q * b  z == n * b
  <2>1. x \in Nat /\ z \in Nat /\ x <= d /\ d < z + b /\ (n + 1) * b = z + b
    BY <1>2, <1>3, <1>4
  <2> HIDE DEF x, z
  <2>2. x < z + b
    BY <1>3, <2>1
  <2>3. QED
    BY <2>1, <2>2 DEF x
<1>6. q < n + 1
  BY <1>4, <1>5
<1>7. q <= n
  BY <1>4, <1>6
<1>8. QED
  BY <1>7 DEF q, d

\* A percentage of a supply that is covered by the holdings is, too.
LEMMA QuorumCovered ==
  ASSUME Governance!GovernanceAssumption, GovInv
  PROVE  Governance!QuorumReachable
<1> SUFFICES ASSUME quorum # None, quorum.kind = "Percent"
             PROVE  Governance!quorum_votes(quorum) <= Governance!Total(govBalances, GovAddress)
  BY DEF Governance!QuorumReachable
<1> DEFINE v == quorum.value  m == Governance!Token!Saturate(govSupply * v)  d == m + (GovBpsDenominator - 1)
           T == Governance!Total(govBalances, GovAddress)
<1>1. /\ v \in Nat /\ v <= GovBpsDenominator /\ GovBpsDenominator \in Nat \ {0}
  <2>1. quorum \in Governance!Quorum /\ v > 0 /\ v <= GovBpsDenominator
    BY DEF GovInv, Governance!TypeOK, Governance!ValidQuorum
  <2>2. v \in Governance!MinAmount..GovMaxAmount /\ Governance!MinAmount \in Int /\ GovMaxAmount \in Int
    BY <2>1 DEF Governance!Quorum, Governance!MinAmount, Governance!GovernanceAssumption
  <2>3. QED
    BY <2>1, <2>2 DEF Governance!GovernanceAssumption
<1>2. /\ govSupply \in Int /\ T \in Nat /\ govSupply <= T
      /\ Governance!MinAmount = -GovMaxAmount - 1 /\ GovMaxAmount \in Nat
  BY TokenNumbers DEF GovInv, TokenInv
<1>3. Governance!quorum_votes(quorum) = Governance!Truncated(d, GovBpsDenominator)
  BY DEF Governance!quorum_votes, Governance!QuorumDividend, Governance!Token!total_supply
<1> HIDE DEF v, T
<1>4. govSupply * v \in Int
  BY <1>1, <1>2
<1> DEFINE x == govSupply * v
<1>5. m \in Int /\ (govSupply >= 0 => m <= x) /\ (govSupply < 0 => m <= 0)
  <2>1. govSupply >= 0 => x >= 0
    BY <1>1, <1>2
  <2>2. govSupply < 0 => x <= 0
    BY <1>1, <1>2
  <2> HIDE DEF x
  <2>3. x \in Int /\ m = Governance!Token!Saturate(x)
    BY <1>4 DEF x
  <2> HIDE DEF m
  <2>4. m \in Int /\ (x >= Governance!MinAmount => m <= x) /\ (x <= 0 => m <= 0)
    <3>1. m \in Governance!MinAmount..GovMaxAmount /\ (x >= Governance!MinAmount => m <= x) /\ (x < 0 => m < 0)
      BY <2>3, VotesSaturate
    <3>2. x = 0 => m = 0
      BY <1>2, <2>3, VotesSaturate
    <3>3. QED
      BY <1>2, <2>3, <3>1, <3>2
  <2>5. QED
    BY <1>2, <2>1, <2>2, <2>3, <2>4
<1> HIDE DEF m
<1>6. CASE d >= 0 /\ govSupply >= 0
  <2>1. d \div GovBpsDenominator <= govSupply
    BY <1>1, <1>2, <1>5, <1>6, CeilingBound
  <2>2. d \div GovBpsDenominator \in Int
    BY <1>1, <1>5
  <2>3. QED
    BY <1>2, <1>3, <1>6, <2>1, <2>2 DEF Governance!Truncated, T
<1>7. CASE d >= 0 /\ govSupply < 0
  <2>1. d \div GovBpsDenominator <= 0
    <3>1. m <= 0 * v /\ 0 \in Nat
      BY <1>1, <1>5, <1>7
    <3>2. QED
      BY <1>1, <1>5, <1>7, <3>1, CeilingBound
  <2>2. d \div GovBpsDenominator \in Int
    BY <1>1, <1>5
  <2>3. QED
    BY <1>2, <1>3, <1>7, <2>1, <2>2 DEF Governance!Truncated, T
<1>8. CASE ~(d >= 0)
  <2>1. d \in Int /\ -d \in Nat
    BY <1>1, <1>5, <1>8
  <2> HIDE DEF d
  <2>2. (-d) \div GovBpsDenominator \in Nat
    BY <1>1, <2>1
  <2>3. Governance!Truncated(d, GovBpsDenominator) = -((-d) \div GovBpsDenominator)
    BY <1>8 DEF Governance!Truncated
  <2>4. QED
    BY <1>2, <1>3, <2>2, <2>3 DEF T
<1>9. QED
  BY <1>1, <1>2, <1>5, <1>6, <1>7, <1>8

\* A decided proposal keeps its tallies and its decision, but for the one step
\* from passed to executed.
Decided ==
  \A id \in 1..proposalCount : proposals[id].status # "Active" =>
    \/ proposals'[id] = proposals[id]
    \/ /\ proposals[id].status = "Passed"
       /\ proposals'[id] = [proposals[id] EXCEPT !.status = "Executed"]

LEMMA DecisionStep ==
  ASSUME Governance!GovernanceAssumption, GovInv, [Governance!Next]_governanceVars
  PROVE  Decided
<1> SUFFICES ASSUME NEW id \in 1..proposalCount, proposals[id].status # "Active"
             PROVE  \/ proposals'[id] = proposals[id]
                    \/ /\ proposals[id].status = "Passed"
                       /\ proposals'[id] = [proposals[id] EXCEPT !.status = "Executed"]
  BY DEF Decided
<1>1. /\ id \in Governance!Ids /\ id # proposalCount + 1
      /\ proposals \in [Governance!Ids -> Governance!Proposal \cup {None}]
  BY DEF GovInv, Governance!TypeOK, Governance!Ids, Governance!GovernanceAssumption
<1>2. ASSUME NEW a \in GovAddress, Governance!CreateProposal(a)
      PROVE  proposals'[id] = proposals[id]
  BY <1>1, <1>2 DEF Governance!CreateProposal
<1>3. ASSUME NEW a \in GovAddress, NEW i \in Governance!Ids, NEW s \in BOOLEAN, Governance!Vote(a, i, s)
      PROVE  proposals'[id] = proposals[id]
  <2>1. proposals[i].status = "Active"
    BY <1>3 DEF Governance!Vote
  <2>2. i # id
    BY <2>1
  <2>3. \E p : proposals' = [proposals EXCEPT ![i] = p]
    BY <1>3 DEF Governance!Vote
  <2>4. QED
    BY <1>1, <2>2, <2>3
<1>4. ASSUME NEW i \in Governance!Ids, Governance!Finalise(i)
      PROVE  proposals'[id] = proposals[id]
  <2>1. i # id
    BY <1>4 DEF Governance!Finalise
  <2>2. QED
    BY <1>1, <1>4, <2>1 DEF Governance!Finalise
<1>5. ASSUME NEW i \in Governance!Ids, Governance!Execute(i)
      PROVE  \/ proposals'[id] = proposals[id]
             \/ /\ proposals[id].status = "Passed"
                /\ proposals'[id] = [proposals[id] EXCEPT !.status = "Executed"]
  BY <1>1, <1>5 DEF Governance!Execute
<1>6. CASE UNCHANGED proposals
  BY <1>6
<1>7. CASE \/ \E a \in GovAddress, q \in GovQuorums : Governance!Initialize(a, q)
           \/ \E q \in GovQuorums : Governance!SetQuorum(q)
           \/ Governance!TokenStep
           \/ Governance!CloseLedger
           \/ UNCHANGED governanceVars
  BY <1>6, <1>7 DEF Governance!Initialize, Governance!SetQuorum, Governance!TokenStep,
     Governance!CloseLedger, governanceVars, Governance!govVars
<1>8. QED
  BY <1>2, <1>3, <1>4, <1>5, <1>7 DEF Governance!Next

-----------------------------------------------------------------------------
(* escrow *)

\* Finite sets and sums are the library's.
LEMMA EscrowTotals ==
  /\ \A S : Escrow!IsFiniteSet(S) <=> IsFiniteSet(S)
  /\ \A f, S : Escrow!Total(f, S) = Total(f, S)
BY Zenon DEF Escrow!IsFiniteSet, Escrow!Total, Escrow!Units, Escrow!Cardinality,
   IsFiniteSet, Total, Units, Cardinality

\* Who asked for a settlement before the timeout is on record.
EscrowAgreed ==
  \A id \in Escrow!Stored :
    escrows[id].status = "Released" /\ escrowNow < escrows[id].timeout =>
      {escrows[id].depositor, escrows[id].beneficiary} \subseteq consents[id]

\* The inductive invariant: as long as the counter was not reset, the ids from
\* it on are free, so a new escrow replaces none.
EscrowInv ==
  /\ Escrow!TypeOK
  /\ EscrowAgreed
  /\ ~restarted => \A id \in Escrow!Stored : id < escrowNextId
  /\ restarted => escrowAdmin # None
  /\ Escrow!DepositsKeptOnceInitialised

LEMMA EscrowInit ==
  ASSUME Escrow!EscrowAssumption, Escrow!Init
  PROVE  EscrowInv
<1>1. Escrow!Stored = {}
  BY DEF Escrow!Init, Escrow!Stored
<1>2. Escrow!TypeOK
  <2>1. 0 \in 0..EscrowMaxIds /\ 0 \in 0..EscrowMaxTime
    BY DEF Escrow!EscrowAssumption
  <2>2. QED
    BY <2>1 DEF Escrow!Init, Escrow!TypeOK
<1>3. Escrow!DepositsKept
  <2>1. \A a \in EscrowAddress : Escrow!OwnedBy(a) = {}
    BY <1>1 DEF Escrow!OwnedBy
  <2>2. \A a \in EscrowAddress : Escrow!Total(Escrow!AmountOf, Escrow!OwnedBy(a)) = 0
    BY <2>1, TotalZero, EscrowTotals
  <2>3. QED
    BY <2>2 DEF Escrow!Init, Escrow!DepositsKept
<1>4. QED
  BY <1>1, <1>2, <1>3 DEF EscrowInv, EscrowAgreed, Escrow!DepositsKeptOnceInitialised,
     Escrow!Init

\* The escrows of a depositor are finitely many, of natural amounts.
LEMMA EscrowAmountsNat ==
  ASSUME Escrow!EscrowAssumption, Escrow!TypeOK
  PROVE  /\ \A id \in Escrow!Ids : Escrow!AmountOf[id] \in Nat
         /\ \A a \in EscrowAddress : Escrow!OwnedBy(a) \subseteq Escrow!Ids /\ Escrow!IsFiniteSet(Escrow!OwnedBy(a))
<1>1. \A id \in Escrow!Ids : Escrow!AmountOf[id] \in Nat
  BY DEF Escrow!EscrowAssumption, Escrow!TypeOK, Escrow!AmountOf, Escrow!Stored,
     Escrow!EscrowRecord
<1>2. Escrow!IsFiniteSet(Escrow!Ids)
  <2>1. 0 \in Int /\ EscrowMaxIds - 1 \in Int
    BY DEF Escrow!EscrowAssumption
  <2>2. QED
    BY <2>1, FS_Interval, EscrowTotals DEF Escrow!Ids
<1>3. \A a \in EscrowAddress : Escrow!OwnedBy(a) \subseteq Escrow!Ids
  BY DEF Escrow!OwnedBy, Escrow!Stored
<1>4. QED
  BY <1>1, <1>2, <1>3, FS_Subset, EscrowTotals

\* initialize resets the counter, which loses nothing if it was not used.
LEMMA EscrowInitializeKeeps ==
  ASSUME Escrow!EscrowAssumption, EscrowInv, NEW a \in EscrowAddress, Escrow!Initialize(a)
  PROVE  EscrowInv'
<1>1. /\ escrowAdmin = None /\ escrowAdmin' = a /\ escrowNextId' = 0 /\ restarted' = (escrowNextId > 0)
      /\ UNCHANGED <<escrows, escrowNow, escrowFunded, consents>>
  BY DEF Escrow!Initialize
<1>2. Escrow!TypeOK'
  <2>1. 0 \in 0..EscrowMaxIds
    BY DEF Escrow!EscrowAssumption
  <2>2. restarted' \in BOOLEAN
    BY <1>1
  <2>3. QED
    BY <1>1, <2>1, <2>2 DEF EscrowInv, Escrow!TypeOK
<1>3. Escrow!Stored' = Escrow!Stored /\ EscrowAgreed'
  BY <1>1 DEF Escrow!Stored, EscrowAgreed, EscrowInv
<1>4. escrowAdmin' # None /\ ~restarted
  BY <1>1 DEF Escrow!EscrowAssumption, EscrowInv
<1>5. escrowNextId \in Nat /\ \A id \in Escrow!Stored : id \in Nat /\ id < escrowNextId
  BY <1>4 DEF EscrowInv, Escrow!TypeOK, Escrow!Stored, Escrow!Ids, Escrow!EscrowAssumption
<1>6. ~restarted' => Escrow!Stored = {}
  <2>1. ~(escrowNextId > 0) => Escrow!Stored = {}
    BY <1>5
  <2>2. QED
    BY <1>1, <2>1, Zenon
<1>7. Escrow!DepositsKept'
  BY <1>1, <1>4 DEF EscrowInv, Escrow!DepositsKeptOnceInitialised, Escrow!DepositsKept,
     Escrow!OwnedBy, Escrow!AmountOf, Escrow!Stored
<1>8. QED
  BY <1>2, <1>3, <1>4, <1>6, <1>7 DEF EscrowInv, Escrow!DepositsKeptOnceInitialised

\* A new escrow has a number of its own and holds nothing.
LEMMA CreateEscrowKeeps ==
  ASSUME Escrow!EscrowAssumption, EscrowInv, NEW d \in EscrowAddress, NEW b \in EscrowAddress,
         NEW t \in 0..EscrowMaxTime, Escrow!Create(d, b, t)
  PROVE  EscrowInv'
<1> DEFINE new == [depositor |-> d, beneficiary |-> b, timeout |-> t,
                   amount |-> 0, status |-> "Open"]
<1>1. /\ escrowNextId < EscrowMaxIds /\ escrows' = [escrows EXCEPT ![escrowNextId] = new] /\ escrowNextId' = escrowNextId + 1
      /\ consents' = [consents EXCEPT ![escrowNextId] = {}]
      /\ UNCHANGED <<escrowAdmin, escrowNow, escrowFunded, restarted>>
  BY DEF Escrow!Create
<1>2. /\ escrowNextId \in Escrow!Ids /\ escrowNextId' \in 0..EscrowMaxIds /\ escrowNextId \in Nat /\ escrowNextId' \in Nat
      /\ \A id \in Escrow!Ids : id \in Nat
  BY <1>1 DEF EscrowInv, Escrow!TypeOK, Escrow!Ids, Escrow!EscrowAssumption
<1>3. new \in Escrow!EscrowRecord /\ new # None
  <2>1. 0 \in 0..EscrowMaxAmount
    BY DEF Escrow!EscrowAssumption
  <2>2. new \in Escrow!EscrowRecord
    BY <2>1 DEF Escrow!EscrowRecord
  <2>3. QED
    BY <2>2 DEF Escrow!EscrowAssumption
<1>4. new.amount = 0 /\ new.status = "Open" /\ new.depositor = d
  OBVIOUS
<1> HIDE DEF new
<1>5. /\ escrows' \in [Escrow!Ids -> Escrow!EscrowRecord \cup {None}]
      /\ consents' \in [Escrow!Ids -> SUBSET EscrowAddress]
      /\ escrows'[escrowNextId] = new /\ \A id \in Escrow!Ids \ {escrowNextId} : escrows'[id] = escrows[id]
      /\ \A id \in Escrow!Ids \ {escrowNextId} : consents'[id] = consents[id]
  BY <1>1, <1>2, <1>3 DEF EscrowInv, Escrow!TypeOK
<1>6. Escrow!TypeOK'
  BY <1>1, <1>2, <1>5 DEF EscrowInv, Escrow!TypeOK
<1>7. Escrow!Stored' = Escrow!Stored \cup {escrowNextId}
  BY <1>2, <1>3, <1>5 DEF Escrow!Stored
<1>8. EscrowAgreed'
  BY <1>1, <1>2, <1>4, <1>5, <1>7 DEF EscrowInv, EscrowAgreed, Escrow!Stored
<1>9. ~restarted' => \A id \in Escrow!Stored' : id < escrowNextId'
  <2>1. ASSUME ~restarted', NEW id \in Escrow!Stored' PROVE id < escrowNextId'
    <3>1. id = escrowNextId \/ id < escrowNextId
      BY <1>1, <1>7, <2>1 DEF EscrowInv
    <3>2. id \in Nat
      BY <1>2, <1>7 DEF Escrow!Stored
    <3>3. QED
      BY <1>1, <1>2, <3>1, <3>2
  <2>2. QED
    BY <2>1
<1>10. ASSUME ~restarted PROVE Escrow!DepositsKept'
  <2>1. escrowNextId \notin Escrow!Stored
    BY <1>2, <1>10 DEF EscrowInv
  <2>2. /\ \A id \in Escrow!Ids : Escrow!AmountOf[id] \in Nat
        /\ \A a \in EscrowAddress : Escrow!OwnedBy(a) \subseteq Escrow!Ids /\ Escrow!IsFiniteSet(Escrow!OwnedBy(a))
    BY EscrowAmountsNat DEF EscrowInv
  <2>3. Escrow!DepositsKept
    BY <1>10 DEF EscrowInv, Escrow!DepositsKeptOnceInitialised
  <2> DEFINE next == Escrow!AmountOf'  before == Escrow!AmountOf
  <2>4. /\ \A id \in Escrow!Ids \ {escrowNextId} : next[id] = before[id]
        /\ next[escrowNextId] = 0
    BY <1>2, <1>4, <1>5, <1>7 DEF Escrow!AmountOf, Escrow!Stored
  <2>5. \A a \in EscrowAddress \ {d} : Escrow!OwnedBy(a)' = Escrow!OwnedBy(a)
    <3>1. \A id \in Escrow!Stored : id # escrowNextId /\ escrows'[id] = escrows[id]
      BY <1>5, <2>1 DEF Escrow!Stored
    <3>2. QED
      BY <1>4, <1>5, <1>7, <3>1 DEF Escrow!OwnedBy
  <2>6. Escrow!OwnedBy(d)' = Escrow!OwnedBy(d) \cup {escrowNextId}
    BY <1>2, <1>4, <1>5, <1>7, <2>1 DEF Escrow!OwnedBy, Escrow!Stored
  <2>7. \A a \in EscrowAddress : escrowNextId \notin Escrow!OwnedBy(a)
    BY <2>1 DEF Escrow!OwnedBy
  <2> HIDE DEF next, before
  <2>8. \A a \in EscrowAddress : Escrow!Total(next, Escrow!OwnedBy(a)) = Escrow!Total(before, Escrow!OwnedBy(a))
    <3>1. \A a \in EscrowAddress : \A id \in Escrow!OwnedBy(a) : next[id] = before[id]
      BY <2>2, <2>4, <2>7
    <3>2. QED
      BY <3>1, TotalSame, EscrowTotals
  <2>9. Escrow!Total(next, Escrow!OwnedBy(d) \cup {escrowNextId}) = Escrow!Total(next, Escrow!OwnedBy(d))
    <3> DEFINE S == Escrow!OwnedBy(d)
    <3>1. Escrow!IsFiniteSet(S) /\ escrowNextId \notin S /\ S \subseteq Escrow!Ids
      BY <2>2, <2>7
    <3> HIDE DEF S
    <3>2. \A id \in S \cup {escrowNextId} : next[id] \in Nat
      BY <2>2, <2>4, <3>1 DEF before
    <3>3. Escrow!Total(next, S \cup {escrowNextId}) = Escrow!Total(next, S) + next[escrowNextId] /\ Escrow!Total(next, S) \in Nat
      BY <3>1, <3>2, TotalInsert, TotalNat, EscrowTotals
    <3>4. QED
      BY <2>4, <3>3 DEF S
  <2>10. \A a \in EscrowAddress : escrowFunded[a] = Escrow!Total(before, Escrow!OwnedBy(a))
    BY <2>3 DEF Escrow!DepositsKept, before
  <2>11. ASSUME NEW a \in EscrowAddress PROVE escrowFunded'[a] = Escrow!Total(next, Escrow!OwnedBy(a)')
    BY <1>1, <2>5, <2>6, <2>8, <2>9, <2>10
  <2>12. QED
    BY <2>11 DEF Escrow!DepositsKept, next
<1>11. QED
  BY <1>1, <1>6, <1>8, <1>9, <1>10 DEF EscrowInv, Escrow!DepositsKeptOnceInitialised

\* A deposit is added to the escrow and to the account of its depositor.
LEMMA FundEscrowKeeps ==
  ASSUME Escrow!EscrowAssumption, EscrowInv, NEW i \in Escrow!Ids, NEW n \in EscrowAmounts, Escrow!Fund(i, n)
  PROVE  EscrowInv'
<1> DEFINE new == [escrows[i] EXCEPT !.amount = escrows[i].amount + n]  d == escrows[i].depositor
<1>1. /\ n > 0 /\ i \in Escrow!Stored /\ escrows[i].status = "Open" /\ escrows[i].amount + n <= EscrowMaxAmount
      /\ escrows' = [escrows EXCEPT ![i] = new]
      /\ escrowFunded' = [escrowFunded EXCEPT ![d] = @ + n]
      /\ UNCHANGED <<escrowAdmin, escrowNextId, escrowNow, restarted, consents>>
  BY DEF Escrow!Fund, Escrow!Open
<1>2. /\ escrows \in [Escrow!Ids -> Escrow!EscrowRecord \cup {None}] /\ escrows[i] \in Escrow!EscrowRecord
      /\ escrowFunded \in [EscrowAddress -> Nat] /\ n \in Nat /\ d \in EscrowAddress /\ escrows[i].amount \in Nat
      /\ EscrowMaxAmount \in Nat
  BY <1>1 DEF EscrowInv, Escrow!TypeOK, Escrow!Stored, Escrow!EscrowRecord,
     Escrow!EscrowAssumption
<1>3. /\ new \in Escrow!EscrowRecord /\ new.amount = escrows[i].amount + n
      /\ new.status = "Open" /\ new.depositor = d
  BY <1>1, <1>2 DEF Escrow!EscrowRecord
<1>4. new # None
  BY <1>3 DEF Escrow!EscrowAssumption
<1> HIDE DEF new, d
<1>5. /\ escrows' \in [Escrow!Ids -> Escrow!EscrowRecord \cup {None}]
      /\ escrows'[i] = new /\ \A id \in Escrow!Ids \ {i} : escrows'[id] = escrows[id]
      /\ escrowFunded' \in [EscrowAddress -> Nat]
      /\ escrowFunded'[d] = escrowFunded[d] + n /\ \A a \in EscrowAddress \ {d} : escrowFunded'[a] = escrowFunded[a]
  BY <1>1, <1>2, <1>3
<1>6. Escrow!TypeOK'
  BY <1>1, <1>5 DEF EscrowInv, Escrow!TypeOK
<1>7. Escrow!Stored' = Escrow!Stored
  BY <1>1, <1>4, <1>5 DEF Escrow!Stored
<1>8. EscrowAgreed'
  BY <1>1, <1>3, <1>5, <1>7 DEF EscrowInv, EscrowAgreed, Escrow!Stored
<1>9. ASSUME Escrow!DepositsKept PROVE Escrow!DepositsKept'
  <2> DEFINE next == Escrow!AmountOf'  before == Escrow!AmountOf
  <2>1. /\ \A id \in Escrow!Ids : before[id] \in Nat
        /\ \A a \in EscrowAddress : Escrow!OwnedBy(a) \subseteq Escrow!Ids /\ Escrow!IsFiniteSet(Escrow!OwnedBy(a))
    BY EscrowAmountsNat DEF EscrowInv
  <2>2. /\ \A id \in Escrow!Ids \ {i} : next[id] = before[id]
        /\ before[i] = escrows[i].amount /\ next[i] = escrows[i].amount + n
    BY <1>1, <1>3, <1>5, <1>7 DEF Escrow!AmountOf
  <2>3. \A a \in EscrowAddress : Escrow!OwnedBy(a)' = Escrow!OwnedBy(a)
    BY <1>3, <1>5, <1>7 DEF Escrow!OwnedBy, Escrow!Stored, d
  <2>4. i \in Escrow!OwnedBy(d) /\ \A a \in EscrowAddress \ {d} : i \notin Escrow!OwnedBy(a)
    BY <1>1 DEF Escrow!OwnedBy, d
  <2>5. \A a \in EscrowAddress : escrowFunded[a] = Escrow!Total(before, Escrow!OwnedBy(a))
    BY <1>9 DEF Escrow!DepositsKept
  <2> HIDE DEF next, before
  <2>6. \A a \in EscrowAddress \ {d} : Escrow!Total(next, Escrow!OwnedBy(a)) = Escrow!Total(before, Escrow!OwnedBy(a))
    <3>1. \A a \in EscrowAddress \ {d} : \A id \in Escrow!OwnedBy(a) : next[id] = before[id]
      BY <2>1, <2>2, <2>4
    <3>2. QED
      BY <3>1, TotalSame, EscrowTotals
  <2>7. Escrow!Total(next, Escrow!OwnedBy(d)) = Escrow!Total(before, Escrow!OwnedBy(d)) + n
    <3> DEFINE S == Escrow!OwnedBy(d)
    <3>1. Escrow!IsFiniteSet(S) /\ i \in S /\ S \subseteq Escrow!Ids
      BY <1>2, <2>1, <2>4
    <3> HIDE DEF S
    <3>2. \A id \in S : before[id] \in Nat /\ next[id] \in Nat
      BY <1>2, <2>1, <2>2, <3>1
    <3>3. \A id \in S \ {i} : next[id] = before[id]
      BY <2>2, <3>1
    <3>4. Escrow!Total(next, S) = Escrow!Total(before, S) - before[i] + next[i] /\ Escrow!Total(before, S) \in Nat
      BY <3>1, <3>2, <3>3, TotalChange, TotalNat, EscrowTotals
    <3>5. QED
      BY <1>2, <2>2, <3>4 DEF S
  <2>8. ASSUME NEW a \in EscrowAddress PROVE escrowFunded'[a] = Escrow!Total(next, Escrow!OwnedBy(a)')
    BY <1>2, <1>5, <2>3, <2>5, <2>6, <2>7
  <2>9. QED
    BY <2>8 DEF Escrow!DepositsKept, next
<1>10. QED
  BY <1>1, <1>6, <1>7, <1>8, <1>9 DEF EscrowInv, Escrow!DepositsKeptOnceInitialised

\* A settlement changes the status of one escrow only.
LEMMA SettleEscrowKeeps ==
  ASSUME Escrow!EscrowAssumption, EscrowInv, NEW i \in Escrow!Ids, NEW S \in SUBSET EscrowAddress,
         Escrow!Release(i, S) \/ Escrow!Refund(i, S)
  PROVE  EscrowInv'
<1> DEFINE final == escrows'[i].status
<1>1. /\ i \in Escrow!Stored /\ escrows[i].status = "Open"
      /\ \/ escrows' = [escrows EXCEPT ![i].status = "Released"]
         \/ escrows' = [escrows EXCEPT ![i].status = "Refunded"]
      /\ consents' = [consents EXCEPT ![i] = S]
      /\ UNCHANGED <<escrowAdmin, escrowNextId, escrowNow, escrowFunded, restarted>>
  BY DEF Escrow!Release, Escrow!Refund, Escrow!Open
<1>2. /\ escrows \in [Escrow!Ids -> Escrow!EscrowRecord \cup {None}] /\ escrows[i] \in Escrow!EscrowRecord
      /\ consents \in [Escrow!Ids -> SUBSET EscrowAddress]
  BY <1>1 DEF EscrowInv, Escrow!TypeOK, Escrow!Stored
<1>3. /\ escrows'[i] \in Escrow!EscrowRecord
      /\ escrows'[i].amount = escrows[i].amount /\ escrows'[i].depositor = escrows[i].depositor
      /\ escrows'[i].beneficiary = escrows[i].beneficiary
      /\ escrows'[i].timeout = escrows[i].timeout
      /\ \A id \in Escrow!Ids \ {i} : escrows'[id] = escrows[id] /\ consents'[id] = consents[id]
      /\ consents'[i] = S
  BY <1>1, <1>2 DEF Escrow!EscrowRecord
<1>4. escrows' \in [Escrow!Ids -> Escrow!EscrowRecord \cup {None}] /\ consents' \in [Escrow!Ids -> SUBSET EscrowAddress]
  BY <1>1, <1>2, <1>3
<1>5. Escrow!TypeOK'
  BY <1>1, <1>4 DEF EscrowInv, Escrow!TypeOK
<1>6. Escrow!Stored' = Escrow!Stored /\ escrows'[i] # None
  BY <1>1, <1>3 DEF Escrow!Stored, Escrow!EscrowAssumption
<1>7. escrows'[i].status = "Released" /\ escrowNow < escrows[i].timeout =>
        {escrows[i].depositor, escrows[i].beneficiary} \subseteq S
  <2>1. CASE Escrow!Release(i, S)
    <3>1. Escrow!Required(i) \subseteq S
      BY <2>1 DEF Escrow!Release
    <3>2. escrows[i].timeout \in Nat /\ escrowNow \in Nat
      BY <1>2 DEF Escrow!EscrowRecord, EscrowInv, Escrow!TypeOK, Escrow!EscrowAssumption
    <3>3. QED
      BY <3>1, <3>2 DEF Escrow!Required
  <2>2. CASE Escrow!Refund(i, S)
    <3>1. escrows'[i].status = "Refunded"
      BY <1>2, <2>2 DEF Escrow!Refund, Escrow!EscrowRecord
    <3>2. QED
      BY <3>1
  <2>3. QED
    BY <2>1, <2>2
<1>8. EscrowAgreed'
  BY <1>1, <1>3, <1>6, <1>7 DEF EscrowInv, EscrowAgreed, Escrow!Stored
<1>9. Escrow!DepositsKept => Escrow!DepositsKept'
  <2>1. Escrow!AmountOf' = Escrow!AmountOf
    BY <1>3, <1>6 DEF Escrow!AmountOf, Escrow!Stored
  <2>2. \A a \in EscrowAddress : Escrow!OwnedBy(a)' = Escrow!OwnedBy(a)
    BY <1>3, <1>6 DEF Escrow!OwnedBy, Escrow!Stored
  <2>3. QED
    BY <1>1, <2>1, <2>2 DEF Escrow!DepositsKept
<1>10. QED
  BY <1>1, <1>5, <1>6, <1>8, <1>9 DEF EscrowInv, Escrow!DepositsKeptOnceInitialised

LEMMA EscrowStep ==
  ASSUME Escrow!EscrowAssumption, EscrowInv, [Escrow!Next]_escrowVars
  PROVE  EscrowInv'
<1>1. CASE UNCHANGED escrowVars
  BY <1>1 DEF escrowVars, EscrowInv, Escrow!TypeOK, EscrowAgreed, Escrow!Stored,
     Escrow!DepositsKeptOnceInitialised, Escrow!DepositsKept,
              Escrow!AmountOf, Escrow!OwnedBy
<1>2. CASE Escrow!PassTime
  <2>1. /\ UNCHANGED <<escrowAdmin, escrowNextId, escrows, escrowFunded, restarted, consents>> /\ escrowNow' = escrowNow + 1
        /\ escrowNow' \in 0..EscrowMaxTime
    BY <1>2 DEF Escrow!PassTime, EscrowInv, Escrow!TypeOK, Escrow!EscrowAssumption
  <2>2. Escrow!TypeOK'
    BY <2>1 DEF EscrowInv, Escrow!TypeOK
  <2>3. \A id \in Escrow!Stored : escrowNow \in Nat /\ escrows[id].timeout \in Nat
    BY DEF EscrowInv, Escrow!TypeOK, Escrow!Stored, Escrow!EscrowRecord, Escrow!EscrowAssumption
  <2>4. EscrowAgreed'
    BY <2>1, <2>3 DEF EscrowInv, EscrowAgreed, Escrow!Stored
  <2>5. QED
    BY <2>1, <2>2, <2>4 DEF EscrowInv, Escrow!Stored, Escrow!DepositsKeptOnceInitialised,
       Escrow!DepositsKept, Escrow!AmountOf,
                            Escrow!OwnedBy
<1>3. CASE Escrow!Next
  BY <1>2, <1>3, EscrowInitializeKeeps, CreateEscrowKeeps, FundEscrowKeeps, SettleEscrowKeeps
     DEF Escrow!Next
<1>4. QED
  BY <1>1, <1>3

\* A settlement is final, and before the timeout it is by agreement.
SettledFinally ==
  \A id \in 0..escrowNextId - 1 : escrows[id] # None =>
    /\ escrows[id].status # "Open" => escrows'[id] = escrows[id]
    /\ escrows'[id].amount >= escrows[id].amount
    /\ escrows'[id].status = "Released" /\ escrowNow < escrows[id].timeout =>
         {escrows[id].depositor, escrows[id].beneficiary} \subseteq consents'[id]

LEMMA SettlementStep ==
  ASSUME Escrow!EscrowAssumption, EscrowInv, [Escrow!Next]_escrowVars
  PROVE  SettledFinally
<1> SUFFICES ASSUME NEW id \in 0..escrowNextId - 1, escrows[id] # None
             PROVE  /\ escrows[id].status # "Open" => escrows'[id] = escrows[id]
                    /\ escrows'[id].amount >= escrows[id].amount
                    /\ escrows'[id].status = "Released" /\ escrowNow < escrows[id].timeout =>
                         {escrows[id].depositor, escrows[id].beneficiary} \subseteq consents'[id]
  BY DEF SettledFinally
<1>1. /\ id \in Escrow!Ids /\ id \in Escrow!Stored /\ id # escrowNextId /\ escrows[id] \in Escrow!EscrowRecord
      /\ escrows[id].amount \in Nat /\ EscrowInv'
      /\ escrows \in [Escrow!Ids -> Escrow!EscrowRecord \cup {None}]
      /\ consents \in [Escrow!Ids -> SUBSET EscrowAddress]
  <2>1. escrows \in [Escrow!Ids -> Escrow!EscrowRecord \cup {None}] /\ consents \in [Escrow!Ids -> SUBSET EscrowAddress]
    BY DEF EscrowInv, Escrow!TypeOK
  <2>2. escrowNextId \in Nat /\ escrowNextId <= EscrowMaxIds /\ EscrowMaxIds \in Nat
    BY DEF EscrowInv, Escrow!TypeOK, Escrow!EscrowAssumption
  <2>3. id \in Escrow!Ids /\ id # escrowNextId
    BY <2>2 DEF Escrow!Ids
  <2>4. escrows[id] \in Escrow!EscrowRecord /\ id \in Escrow!Stored
    BY <2>1, <2>3 DEF Escrow!Stored
  <2>5. escrows[id].amount \in Nat
    BY <2>4 DEF Escrow!EscrowRecord, Escrow!EscrowAssumption
  <2>6. EscrowInv'
    BY EscrowStep
  <2>7. QED
    BY <2>1, <2>3, <2>4, <2>5, <2>6
<1>2. CASE escrows'[id] = escrows[id] /\ consents'[id] = consents[id]
  BY <1>1, <1>2 DEF EscrowInv, EscrowAgreed
<1>3. ASSUME NEW d \in EscrowAddress, NEW b \in EscrowAddress, NEW t \in 0..EscrowMaxTime, Escrow!Create(d, b, t)
      PROVE  escrows'[id] = escrows[id] /\ consents'[id] = consents[id]
  BY <1>1, <1>3 DEF Escrow!Create
<1>4. ASSUME NEW i \in Escrow!Ids, NEW n \in EscrowAmounts, Escrow!Fund(i, n), i = id
      PROVE  /\ escrows[id].status = "Open" /\ escrows'[id].status = "Open"
             /\ escrows'[id].amount >= escrows[id].amount
  <2>1. /\ escrows[id].status = "Open" /\ n > 0 /\ n \in Int
        /\ escrows'[id] = [escrows[id] EXCEPT !.amount = @ + n]
    BY <1>1, <1>4 DEF Escrow!Fund, Escrow!Open, Escrow!EscrowAssumption
  <2>2. escrows'[id].status = "Open" /\ escrows'[id].amount = escrows[id].amount + n
    BY <1>1, <2>1 DEF Escrow!EscrowRecord
  <2>3. QED
    BY <1>1, <2>1, <2>2
<1>5. ASSUME NEW i \in Escrow!Ids, NEW n \in EscrowAmounts, Escrow!Fund(i, n), i # id
      PROVE  escrows'[id] = escrows[id] /\ consents'[id] = consents[id]
  BY <1>1, <1>5 DEF Escrow!Fund
<1>6. ASSUME NEW i \in Escrow!Ids, NEW S \in SUBSET EscrowAddress, Escrow!Release(i, S) \/ Escrow!Refund(i, S), i # id
      PROVE  escrows'[id] = escrows[id] /\ consents'[id] = consents[id]
  BY <1>1, <1>6 DEF Escrow!Release, Escrow!Refund
<1>7. ASSUME NEW i \in Escrow!Ids, NEW S \in SUBSET EscrowAddress, Escrow!Release(i, S) \/ Escrow!Refund(i, S), i = id
      PROVE  /\ escrows[id].status = "Open" /\ escrows'[id].amount >= escrows[id].amount
             /\ escrows'[id].status = "Released" /\ escrowNow < escrows[id].timeout =>
                  {escrows[id].depositor, escrows[id].beneficiary} \subseteq consents'[id]
  <2>1. /\ escrows[id].status = "Open" /\ escrowNow' = escrowNow
        /\ \/ escrows'[id] = [escrows[id] EXCEPT !.status = "Released"]
           \/ escrows'[id] = [escrows[id] EXCEPT !.status = "Refunded"]
    BY <1>1, <1>7 DEF Escrow!Release, Escrow!Refund, Escrow!Open
  <2>2. /\ escrows'[id].amount = escrows[id].amount /\ escrows'[id].timeout = escrows[id].timeout
        /\ escrows'[id].depositor = escrows[id].depositor
        /\ escrows'[id].beneficiary = escrows[id].beneficiary
        /\ escrows'[id] \in Escrow!EscrowRecord
    BY <1>1, <2>1 DEF Escrow!EscrowRecord
  <2>3. id \in Escrow!Stored' /\ EscrowAgreed'
    BY <1>1, <2>2 DEF EscrowInv, Escrow!Stored, Escrow!EscrowAssumption
  <2>4. QED
    BY <1>1, <2>1, <2>2, <2>3 DEF EscrowAgreed
<1>8. CASE \E a \in EscrowAddress : Escrow!Initialize(a)
  BY <1>2, <1>8 DEF Escrow!Initialize
<1>9. CASE Escrow!PassTime
  BY <1>2, <1>9 DEF Escrow!PassTime
<1>10. CASE UNCHANGED escrowVars
  BY <1>2, <1>10 DEF escrowVars
<1>11. CASE \E i \in Escrow!Ids, n \in EscrowAmounts : Escrow!Fund(i, n)
  BY <1>2, <1>4, <1>5, <1>11
<1>12. CASE \E i \in Escrow!Ids, S \in SUBSET EscrowAddress : Escrow!Release(i, S) \/ Escrow!Refund(i, S)
  BY <1>2, <1>6, <1>7, <1>12
<1>13. CASE \E d, b \in EscrowAddress, t \in 0..EscrowMaxTime : Escrow!Create(d, b, t)
  BY <1>2, <1>3, <1>13
<1>14. QED
  BY <1>8, <1>9, <1>10, <1>11, <1>12, <1>13 DEF Escrow!Next

-----------------------------------------------------------------------------
(* The composition *)

\* A step of the composition is a step or a stutter of each contract: all but
\* the chosen one stand still.
LEMMA StepOfEach ==
  ASSUME [Next]_vars
  PROVE  /\ contract' = contract
         /\ [Treasury!Next]_treasuryVars /\ [Pool!Next]_poolVars
         /\ [Redemption!Next]_redemptionVars /\ [Referral!Next]_referralVars
         /\ [State!Next]_stateVars /\ [Vesting!Next]_vestingVars
         /\ [Governance!Next]_governanceVars /\ [Escrow!Next]_escrowVars
<1>1. CASE InTreasury
  BY <1>1 DEF InTreasury
<1>2. CASE InRewardPool
  BY <1>2 DEF InRewardPool
<1>3. CASE InRedemption
  BY <1>3 DEF InRedemption
<1>4. CASE InReferral
  BY <1>4 DEF InReferral
<1>5. CASE InContractState
  BY <1>5 DEF InContractState
<1>6. CASE InVesting
  BY <1>6 DEF InVesting
<1>7. CASE InGovernance
  BY <1>7 DEF InGovernance
<1>8. CASE InEscrow
  BY <1>8 DEF InEscrow
<1>9. CASE UNCHANGED vars
  BY <1>9 DEF vars
<1>10. QED
  BY <1>1, <1>2, <1>3, <1>4, <1>5, <1>6, <1>7, <1>8, <1>9 DEF Next

\* The inductive invariant of the composition: that of every contract.
ContractInv ==
  /\ contract \in Contracts
  /\ TreasuryInv
  /\ PoolInv
  /\ RedemptionInv
  /\ ReferralInv
  /\ StateInv
  /\ VestingInv /\ Vesting!PoolAccounted
  /\ GovInv
  /\ EscrowInv

LEMMA ContractInit ==
  ASSUME Init
  PROVE  ContractInv
<1>1. /\ contract \in Contracts
      /\ Treasury!Init /\ Pool!Init /\ Redemption!Init /\ Referral!Init
      /\ State!Init /\ Vesting!Init /\ Governance!Init /\ Escrow!Init
  BY DEF Init
<1>2. TreasuryInv /\ PoolInv /\ RedemptionInv /\ ReferralInv
  BY <1>1, ContractAssumptions, TreasuryInit, PoolInit, RedemptionInit, ReferralInit
     DEF ContractAssumptions
<1>3. StateInv /\ VestingInv /\ Vesting!PoolAccounted /\ GovInv /\ EscrowInv
  BY <1>1, ContractAssumptions, StateInit, VestingInit, VestingInitPool, GovInit, EscrowInit
     DEF ContractAssumptions
<1>4. QED
  BY <1>1, <1>2, <1>3 DEF ContractInv

LEMMA ContractStep ==
  ASSUME ContractInv, [Next]_vars
  PROVE  ContractInv'
<1>1. TreasuryInv' /\ PoolInv' /\ RedemptionInv' /\ ReferralInv'
  BY StepOfEach, ContractAssumptions, TreasuryStep, PoolStep, RedemptionStep, ReferralStep
     DEF ContractAssumptions, ContractInv
<1>2. StateInv' /\ VestingInv' /\ Vesting!PoolAccounted' /\ GovInv' /\ EscrowInv'
  BY StepOfEach, ContractAssumptions, StateStep, VestingStep, VestingPoolStep, GovStep,
     EscrowStep
     DEF ContractAssumptions, ContractInv
<1>3. contract' \in Contracts
  BY StepOfEach DEF ContractInv, Contracts
<1>4. QED
  BY <1>1, <1>2, <1>3 DEF ContractInv

LEMMA ContractInvariant == Spec => []ContractInv
BY ContractInit, ContractStep, PTL DEF Spec

-----------------------------------------------------------------------------
\* Every stored value of the eight contracts keeps the type its code stores.
THEOREM ContractsTypeCorrect == Spec => []TypeOK
<1>1. ContractInv => TypeOK
  BY ContractAssumptions, VestingHolds
     DEF ContractAssumptions, ContractInv, TypeOK, TreasuryInv, PoolInv, RedemptionInv,
         ReferralInv, StateInv, GovInv, EscrowInv
<1>2. QED
  BY <1>1, ContractInvariant, PTL

\* treasury, withdraw: the period counter is what was withdrawn in the period,
\* the running total what was withdrawn at all, and no window of a period's
\* length exceeds two caps.
THEOREM WithdrawalsAlwaysAccounted == Spec => []WithdrawalsAccounted
<1>1. ContractInv => WithdrawalsAccounted
  BY DEF ContractInv, TreasuryInv, WithdrawalsAccounted
<1>2. QED
  BY <1>1, ContractInvariant, PTL

\* reward_pool, withdraw: its two transfers conserve the tokens, and the fees
\* stay within the highest rate that was in force.
THEOREM FeesAlwaysFromPool == Spec => []FeesFromPool
<1>1. ContractInv => FeesFromPool
  BY DEF ContractInv, PoolInv, FeesFromPool
<1>2. QED
  BY <1>1, ContractInvariant, PTL

\* redemption, issue and the three ways out: every token issued is redeemed,
\* reclaimed, claimable or replaced.
THEOREM IssuedAlwaysAccounted == Spec => []IssuedAccounted
<1>1. ContractInv => IssuedAccounted
  BY DEF ContractInv, RedemptionInv, IssuedAccounted
<1>2. QED
  BY <1>1, ContractInvariant, PTL

\* referral, register and claim: the counters are the referrals, and the pool
\* and the payouts account for all funding.
THEOREM ReferralsAlwaysAccounted == Spec => []ReferralsAccounted
<1>1. ContractInv => ReferralsAccounted
  BY DEF ContractInv, ReferralInv, ReferralsAccounted
<1>2. QED
  BY <1>1, ContractInvariant, PTL

\* contract_state, migrate and approve_upgrade: the snapshot of a past version
\* never changes, and only threshold-many different signers replace the code.
THEOREM VersionsAlwaysKept == Spec => []VersionsKept
<1>1. ContractInv => VersionsKept
  BY DEF ContractInv, StateInv, UpgradeInv, VersionsKept
<1>2. QED
  BY <1>1, ContractInvariant, PTL

\* vesting, claim_vested, revoke and fund_pool: what was paid is within what has
\* vested and that within the grant, the pool accounts for every deposit, payout
\* and return, and the arithmetic of a schedule fits at every time.
THEOREM VestingAlwaysAccounted == Spec => []VestingAccounted
<1>1. ContractInv => VestingAccounted
  BY ContractAssumptions, VestingHolds DEF ContractAssumptions, ContractInv, VestingAccounted
<1>2. QED
  BY <1>1, ContractInvariant, PTL

\* governance, vote and finalise: a tally is what its voters held, and a
\* percentage quorum is within the supply it was taken of.
THEOREM VotesAlwaysCounted == Spec => []VotesCounted
<1>1. ContractInv => VotesCounted
  BY ContractAssumptions, QuorumCovered
     DEF ContractAssumptions, ContractInv, GovInv, VotesCounted
<1>2. QED
  BY <1>1, ContractInvariant, PTL

\* escrow, create and initialize: if no escrow was made before initialize, every
\* deposit is in an escrow of its depositor.
THEOREM DepositsAlwaysKept == Spec => []DepositsKeptOnceInitialised
<1>1. ContractInv => DepositsKeptOnceInitialised
  BY DEF ContractInv, EscrowInv, DepositsKeptOnceInitialised
<1>2. QED
  BY <1>1, ContractInvariant, PTL

\* What is settled stays so: only the pool pays for a withdrawal, the window of
\* the issue decides between user and admin, no step takes away what has vested,
\* a decision of the voters is final, and so is the settlement of an escrow.
THEOREM AlwaysSettledForGood == Spec => SettledForGood
<1>1. ASSUME ContractInv, [Next]_vars
      PROVE  /\ [OnlyPool]_Pool!vars
             /\ [WindowDecides]_Redemption!vars
             /\ [EntitlementGrows]_Vesting!vars
             /\ [Decided]_Governance!vars
             /\ [SettledFinally]_Escrow!vars
  BY <1>1, StepOfEach, ContractAssumptions, OnlyPoolStep, WindowStep, EntitlementStep,
     DecisionStep, SettlementStep
     DEF ContractAssumptions, ContractInv
<1>2. Pool!OnlyPoolPays <=> [][OnlyPool]_Pool!vars
  BY DEF Pool!OnlyPoolPays, OnlyPool
<1>3. Redemption!WindowRespected <=> [][WindowDecides]_Redemption!vars
  BY DEF Redemption!WindowRespected, WindowDecides
<1>4. Vesting!EntitlementNeverShrinks <=> [][EntitlementGrows]_Vesting!vars
  BY DEF Vesting!EntitlementNeverShrinks, EntitlementGrows
<1>5. Governance!DecisionsFinal <=> [][Decided]_Governance!vars
  BY DEF Governance!DecisionsFinal, Decided
<1>6. Escrow!SettlementFinal <=> [][SettledFinally]_Escrow!vars
  BY DEF Escrow!SettlementFinal, SettledFinally
<1>7. QED
  BY <1>1, <1>2, <1>3, <1>4, <1>5, <1>6, ContractInvariant, PTL DEF Spec, SettledForGood

=============================================================================
