SPECIFICATION Spec
CONSTANTS
  User = {alice}
  Reward = {gift}
  Key = {k1, k2}
  Request = {p1, p2}
  Stocks = {1, 2}
  Costs = {0, 1}
  Amounts = {1}
  Bonus = 1
  MaxBalance = 2
  MaxDay = 1
  NoRow = NoRow
  NoUser = NoUser
INVARIANTS
  TypeOK
  StockAccounted
PROPERTIES
  AppearsAtomic
  AllEnd
