SPECIFICATION Spec
CONSTANTS
  alice = alice
  bob = bob
  Address <- MCAddress
  NoAddress = NoAddress
  NoAllowance = NoAllowance
  Grants <- MCGrants
  Amounts <- MCAmounts
  MaxAmount = 3
  MaxLedger = 2
INVARIANTS
  TypeOK
  SupplyIsHoldings
  SupplyCovered
PROPERTIES
  DebitsAuthorized
  SpendingPowerFromOwner
