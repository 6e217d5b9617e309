SPECIFICATION Spec
CONSTANTS
  User = {alice, bob}
  Operation = {o1, o2}
  Amounts <- SmallAmounts
  SetAmounts <- SmallSetAmounts
  Rates <- SmallRates
  Periods = {0, 1}
  MaxAmount = 2
  MaxTime = 1
  MaxU64 = 2
  BpsDivisor = 2
  SecondsPerYear = 1
  NoStake = NoStake
  NoSnapshot = NoSnapshot
INVARIANTS
  PauseEnds
SYMMETRY Symmetry
CHECK_DEADLOCK FALSE
