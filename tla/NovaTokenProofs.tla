--------------------------- MODULE NovaTokenProofs ---------------------------
(***************************************************************************)
(* Proofs about the token, for every set of accounts, every width of the   *)
(* amounts and every set of delegations.                                   *)
(***************************************************************************)
EXTENDS NovaToken, TotalTheorems

\* Saturation keeps a value inside the width of the stored integer.
LEMMA SaturateRange ==
  ASSUME NEW n \in Int
  PROVE  /\ Saturate(n) \in MinAmount..MaxAmount
         /\ n >= 0 => Saturate(n) \in 0..MaxAmount
         /\ n \in MinAmount..MaxAmount => Saturate(n) = n
         /\ n >= MinAmount => Saturate(n) <= n
BY TokenAssumption DEF Saturate, MinAmount

\* What the code reads for an allowance key has the type it stores.
LEMMA RecordedType ==
  ASSUME TypeOK, NEW g \in Grants
  PROVE  /\ Recorded(g) \in AllowanceValue
         /\ Recorded(g).amount \in MinAmount..MaxAmount
         /\ Recorded(g).expiration_ledger \in 0..MaxLedger
BY TokenAssumption DEF TypeOK, Recorded, AllowanceValue, MinAmount

\* A move keeps the balances in range and their sum unchanged, also when the
\* sender is the recipient.
LEMMA MoveConserves ==
  ASSUME TypeOK, NEW from \in Address, NEW to \in Address,
         NEW amount \in Int, amount > 0, Move(from, to, amount)
  PROVE  /\ balances' \in [Address -> 0..MaxAmount]
         /\ Total(balances, Address)' = Total(balances, Address)
<1> DEFINE debited == [balances EXCEPT ![from] = @ - amount]
<1>1. /\ balances[from] >= amount
      /\ debited[to] + amount <= MaxAmount
      /\ balances' = [debited EXCEPT ![to] = debited[to] + amount]
  BY DEF Move
<1>2. balances \in [Address -> 0..MaxAmount] /\ MaxAmount \in Nat /\ amount \in Nat
  BY TokenAssumption DEF TypeOK
<1>3. debited \in [Address -> 0..MaxAmount]
  BY <1>1, <1>2
<1>4. balances' \in [Address -> 0..MaxAmount]
  BY <1>1, <1>2, <1>3
<1>5. CASE from = to
  <2>1. \A a \in Address : balances'[a] = balances[a]
    BY <1>1, <1>2, <1>5
  <2>2. balances' = balances
    BY <1>2, <1>4, <2>1
  <2>3. QED
    BY <1>4, <2>2
<1>6. CASE from # to
  <2>1. /\ balances'[from] = balances[from] - amount
        /\ balances'[to] = balances[to] + amount
        /\ \A a \in Address \ {from, to} : balances'[a] = balances[a]
    BY <1>1, <1>2, <1>6
  <2>2. /\ \A a \in Address : balances[a] \in Nat
        /\ \A a \in Address : balances'[a] \in Nat
    BY <1>2, <1>4
  <2>3. Total(balances', Address) = Total(balances, Address)
    BY <1>2, <1>6, <2>1, <2>2, TotalMove, TokenAssumption
  <2>4. QED
    BY <1>4, <2>3
<1>7. QED
  BY <1>5, <1>6

-----------------------------------------------------------------------------
\* Type correctness is inductive: no check of the code is missing that a
\* stored value needs to stay in its type.
LEMMA TypeOKInductive == TypeOK /\ [Next]_vars => TypeOK'
<1> SUFFICES ASSUME TypeOK, [Next]_vars PROVE TypeOK'
  OBVIOUS
<1> USE TokenAssumption DEF MinAmount
<1>1. ASSUME NEW a \in Address, Initialize(a) PROVE TypeOK'
  BY <1>1 DEF TypeOK, Initialize, Authorized, MinAmount
<1>2. ASSUME NEW a \in Address, NEW n \in Amounts, Mint(a, n) PROVE TypeOK'
  <2>1. n \in Int /\ n > 0 /\ balances[a] + n >= 0 /\ supply + n \in Int
    BY <1>2 DEF TypeOK, Mint, MinAmount
  <2>2. Saturate(balances[a] + n) \in 0..MaxAmount
    BY <2>1, SaturateRange DEF TypeOK
  <2>3. Saturate(supply + n) \in MinAmount..MaxAmount
    BY <2>1, SaturateRange
  <2>4. balances' \in [Address -> 0..MaxAmount] /\ supply' \in MinAmount..MaxAmount
    BY <1>2, <2>2, <2>3 DEF TypeOK, Mint
  <2>5. QED
    BY <1>2, <2>4 DEF TypeOK, Mint, Authorized
<1>3. ASSUME NEW a \in Address, NEW n \in Amounts, Burn(a, n) PROVE TypeOK'
  <2>1. n \in Int /\ supply - n \in Int
    BY <1>3 DEF TypeOK, Burn, MinAmount
  <2>2. Saturate(supply - n) \in MinAmount..MaxAmount
    BY <2>1, SaturateRange
  <2>3. balances' \in [Address -> 0..MaxAmount] /\ supply' \in MinAmount..MaxAmount
    BY <1>3, <2>1, <2>2 DEF TypeOK, Burn
  <2>4. QED
    BY <1>3, <2>3 DEF TypeOK, Burn, Authorized
<1>4. ASSUME NEW a \in Address, NEW b \in Address, NEW n \in Amounts, Transfer(a, b, n)
      PROVE  TypeOK'
  <2>1. balances' \in [Address -> 0..MaxAmount]
    BY <1>4, MoveConserves DEF Transfer
  <2>2. QED
    BY <1>4, <2>1 DEF TypeOK, Transfer, Authorized
<1>5. ASSUME NEW g \in Grants, NEW b \in Address, NEW n \in Amounts, TransferFrom(g, b, n)
      PROVE  TypeOK'
  <2>1. g[1] \in Address /\ g[2] \in Address /\ n \in Int /\ n > 0
    BY <1>5 DEF TransferFrom
  <2>2. balances' \in [Address -> 0..MaxAmount]
    BY <1>5, <2>1, MoveConserves DEF TransferFrom
  <2>3. allowances' \in [Grants -> AllowanceValue \cup {NoAllowance}]
    BY <1>5, <2>1, RecordedType DEF TypeOK, TransferFrom, AllowanceValue, MinAmount
  <2>4. QED
    BY <1>5, <2>1, <2>2, <2>3 DEF TypeOK, TransferFrom, Authorized
<1>6. ASSUME NEW g \in Grants, NEW n \in Amounts, NEW e \in 0..MaxLedger, Approve(g, n, e)
      PROVE  TypeOK'
  BY <1>6 DEF TypeOK, Approve, Authorized, AllowanceValue
<1>7. ASSUME NEW g \in Grants, NEW n \in Amounts, IncreaseAllowance(g, n) PROVE TypeOK'
  <2>1. g[1] \in Address /\ Recorded(g).amount + n \in Int
    BY <1>7, RecordedType DEF MinAmount
  <2>2. Saturate(Recorded(g).amount + n) \in MinAmount..MaxAmount
    BY <2>1, SaturateRange
  <2>3. allowances' \in [Grants -> AllowanceValue \cup {NoAllowance}]
    BY <1>7, <2>2, RecordedType DEF TypeOK, IncreaseAllowance, AllowanceValue
  <2>4. QED
    BY <1>7, <2>1, <2>3 DEF TypeOK, IncreaseAllowance, Authorized
<1>8. ASSUME NEW g \in Grants, NEW n \in Amounts, DecreaseAllowance(g, n) PROVE TypeOK'
  <2>1. g[1] \in Address /\ Recorded(g).amount - n \in Int
    BY <1>8, RecordedType DEF MinAmount
  <2>2. Saturate(Recorded(g).amount - n) \in MinAmount..MaxAmount
    BY <2>1, SaturateRange
  <2>3. allowances' \in [Grants -> AllowanceValue \cup {NoAllowance}]
    BY <1>8, <2>2, RecordedType DEF TypeOK, DecreaseAllowance, AllowanceValue
  <2>4. QED
    BY <1>8, <2>1, <2>3 DEF TypeOK, DecreaseAllowance, Authorized
<1>9. CASE CloseLedger
  BY <1>9 DEF TypeOK, CloseLedger
<1>10. CASE UNCHANGED vars
  BY <1>10 DEF TypeOK, vars
<1>11. QED
  BY <1>1, <1>2, <1>3, <1>4, <1>5, <1>6, <1>7, <1>8, <1>9, <1>10 DEF Next

\* Every reachable state of the token is well typed: in particular no balance
\* is ever negative or wider than an i128.
THEOREM TokenTypeCorrect == Spec => []TypeOK
<1>1. Init => TypeOK
  <2>1. /\ 0 \in 0..MaxAmount /\ 0 \in MinAmount..MaxAmount
        /\ 1 \in 1..MaxLedger
    BY TokenAssumption DEF MinAmount
  <2>2. QED
    BY <2>1 DEF Init, TypeOK
<1>2. QED
  BY <1>1, TypeOKInductive, PTL DEF Spec

-----------------------------------------------------------------------------
\* The two facts about the supply, and that nothing is held before the token
\* is initialized (initialize resets the supply): one inductive invariant.
SupplyInv ==
  /\ SupplyIsHoldings
  /\ SupplyCovered
  /\ admin = NoAddress => supply = 0 /\ \A a \in Address : balances[a] = 0

\* The sum of the balances is a natural number.
LEMMA HoldingsNat ==
  ASSUME TypeOK
  PROVE  /\ \A a \in Address : balances[a] \in Nat
         /\ Total(balances, Address) \in Nat
BY TotalNat, TokenAssumption DEF TypeOK

\* A mint adds as much to the holdings as to the supply unless it saturates,
\* and then it leaves the supply at most what the recipient alone holds.
LEMMA MintSupply ==
  ASSUME TypeOK, TypeOK', SupplyInv,
         NEW a \in Address, NEW n \in Amounts, Mint(a, n)
  PROVE  SupplyInv'
<1>1. /\ n \in Nat /\ n > 0 /\ MaxAmount \in Nat
      /\ supply \in MinAmount..MaxAmount /\ MinAmount = -MaxAmount - 1
      /\ saturated \in BOOLEAN
  BY TokenAssumption DEF Mint, TypeOK, MinAmount
<1>2. /\ balances[a] \in Nat /\ balances'[a] \in Nat
      /\ balances'[a] = Saturate(balances[a] + n)
      /\ \A x \in Address \ {a} : balances'[x] = balances[x]
      /\ supply' = Saturate(supply + n)
      /\ saturated' = (saturated \/ balances[a] + n > MaxAmount \/ supply + n > MaxAmount)
  BY TokenAssumption DEF Mint, TypeOK
<1>3. Total(balances, Address) \in Nat /\ Total(balances', Address) \in Nat
  BY HoldingsNat, TotalNat, TokenAssumption DEF TypeOK
<1>4. Total(balances', Address) = Total(balances, Address) - balances[a] + balances'[a]
  <2>1. \A x \in Address : balances[x] \in Nat /\ balances'[x] \in Nat
    BY DEF TypeOK
  <2>2. QED
    BY <1>2, <2>1, TotalChange, TokenAssumption
<1>5. balances'[a] <= Total(balances', Address)
  <2>1. \A x \in Address : balances'[x] \in Nat
    BY DEF TypeOK
  <2>2. QED
    BY <2>1, TotalBoundsEach, TokenAssumption
<1>6. SupplyIsHoldings'
  <2>1. SUFFICES ASSUME ~saturated' PROVE supply' = Total(balances', Address)
    BY DEF SupplyIsHoldings
  <2>2. ~saturated /\ balances[a] + n <= MaxAmount /\ supply + n <= MaxAmount
    <3>1. ~(saturated \/ balances[a] + n > MaxAmount \/ supply + n > MaxAmount)
      BY <1>2, <2>1, Zenon
    <3>2. QED
      BY <1>1, <1>2, <3>1
  <2>3. Saturate(balances[a] + n) = balances[a] + n /\ Saturate(supply + n) = supply + n
    BY <1>1, <1>2, <2>2, SaturateRange
  <2>4. QED
    BY <1>1, <1>2, <1>3, <1>4, <2>2, <2>3 DEF SupplyInv, SupplyIsHoldings
<1>7. SupplyCovered'
  <2>1. supply <= Total(balances, Address)
    BY DEF SupplyInv, SupplyCovered
  <2>2. Saturate(supply + n) <= supply + n /\ Saturate(supply + n) <= MaxAmount
    BY <1>1, SaturateRange
  <2>3. CASE balances[a] + n <= MaxAmount
    BY <1>1, <1>2, <1>3, <1>4, <2>1, <2>2, <2>3 DEF SupplyCovered, Saturate
  <2>4. CASE balances[a] + n > MaxAmount
    <3>1. balances'[a] = MaxAmount
      BY <1>1, <1>2, <2>4 DEF Saturate
    <3>2. supply' <= MaxAmount /\ supply' \in Int
      BY <1>1, <1>2, <2>2, SaturateRange
    <3>3. supply' <= Total(balances', Address)
      BY <1>1, <1>3, <1>5, <3>1, <3>2
    <3>4. QED
      BY <3>3 DEF SupplyCovered
  <2>5. QED
    BY <1>1, <1>2, <2>3, <2>4
<1>8. admin' # NoAddress
  BY DEF Mint
<1>9. QED
  BY <1>6, <1>7, <1>8 DEF SupplyInv

\* A burn takes the same amount from the holdings and from the supply: while
\* nothing saturated the supply is large enough, so it does not clamp either.
LEMMA BurnSupply ==
  ASSUME TypeOK, TypeOK', SupplyInv,
         NEW a \in Address, NEW n \in Amounts, Burn(a, n)
  PROVE  SupplyInv'
<1>1. /\ n \in Nat /\ n > 0 /\ MaxAmount \in Nat
      /\ supply \in MinAmount..MaxAmount /\ MinAmount = -MaxAmount - 1
      /\ n <= MaxAmount
  BY TokenAssumption DEF Burn, TypeOK, MinAmount
<1>2. /\ balances[a] \in Nat /\ balances'[a] \in Nat
      /\ balances'[a] = balances[a] - n
      /\ \A x \in Address \ {a} : balances'[x] = balances[x]
      /\ supply' = Saturate(supply - n)
      /\ saturated' = saturated
  BY TokenAssumption DEF Burn, TypeOK
<1>3. \A x \in Address : balances[x] \in Nat /\ balances'[x] \in Nat
  BY DEF TypeOK
<1>4. Total(balances, Address) \in Nat /\ Total(balances', Address) \in Nat
  BY <1>3, TotalNat, TokenAssumption
<1>5. Total(balances', Address) = Total(balances, Address) - n
  <2>1. Total(balances', Address) = Total(balances, Address) - balances[a] + balances'[a]
    BY <1>2, <1>3, TotalChange, TokenAssumption
  <2>2. QED
    BY <1>1, <1>2, <1>4, <2>1
<1>6. SupplyIsHoldings'
  <2>1. SUFFICES ASSUME ~saturated PROVE supply' = Total(balances', Address)
    BY <1>2 DEF SupplyIsHoldings
  <2>2. supply = Total(balances, Address)
    BY <2>1 DEF SupplyInv, SupplyIsHoldings
  <2>3. Saturate(supply - n) = supply - n
    BY <1>1, <1>4, <1>5, <2>2, SaturateRange
  <2>4. QED
    BY <1>2, <1>5, <2>2, <2>3
<1>7. SupplyCovered'
  <2>1. supply <= Total(balances, Address)
    BY DEF SupplyInv, SupplyCovered
  <2>2. \/ supply' = supply - n
        \/ supply' = MinAmount
    BY <1>1, <1>2 DEF Saturate
  <2>3. QED
    BY <1>1, <1>4, <1>5, <2>1, <2>2 DEF SupplyCovered
<1>8. admin' # NoAddress
  BY <1>1, <1>2 DEF Burn, SupplyInv
<1>9. QED
  BY <1>6, <1>7, <1>8 DEF SupplyInv

\* No invocation breaks the accounting of the supply.
LEMMA SupplyInductive == TypeOK /\ TypeOK' /\ SupplyInv /\ [Next]_vars => SupplyInv'
<1> SUFFICES ASSUME TypeOK, TypeOK', SupplyInv, [Next]_vars PROVE SupplyInv'
  OBVIOUS
<1>1. ASSUME NEW a \in Address, Initialize(a) PROVE SupplyInv'
  <2>1. supply' = supply /\ balances' = balances /\ saturated' = saturated
    BY <1>1 DEF Initialize, SupplyInv
  <2>2. admin' # NoAddress
    BY <1>1, TokenAssumption DEF Initialize
  <2>3. QED
    BY <2>1, <2>2 DEF SupplyInv, SupplyIsHoldings, SupplyCovered
<1>2. ASSUME NEW a \in Address, NEW n \in Amounts, Mint(a, n) PROVE SupplyInv'
  BY <1>2, MintSupply
<1>3. ASSUME NEW a \in Address, NEW n \in Amounts, Burn(a, n) PROVE SupplyInv'
  BY <1>3, BurnSupply
<1>4. ASSUME NEW from \in Address, NEW to \in Address, NEW n \in Amounts, n > 0,
             Move(from, to, n), UNCHANGED <<admin, supply, saturated>>
      PROVE  SupplyInv'
  <2>1. Total(balances', Address) = Total(balances, Address)
    BY <1>4, MoveConserves, TokenAssumption
  <2>2. admin' # NoAddress
    BY <1>4, TokenAssumption DEF Move, SupplyInv, MinAmount
  <2>3. QED
    BY <1>4, <2>1, <2>2 DEF SupplyInv, SupplyIsHoldings, SupplyCovered
<1>5. ASSUME NEW a \in Address, NEW b \in Address, NEW n \in Amounts, Transfer(a, b, n)
      PROVE  SupplyInv'
  BY <1>4, <1>5 DEF Transfer
<1>6. ASSUME NEW g \in Grants, NEW b \in Address, NEW n \in Amounts, TransferFrom(g, b, n)
      PROVE  SupplyInv'
  <2>1. g[1] \in Address
    BY TokenAssumption
  <2>2. QED
    BY <1>4, <1>6, <2>1 DEF TransferFrom
<1>7. ASSUME UNCHANGED <<admin, balances, supply, saturated>> PROVE SupplyInv'
  BY <1>7 DEF SupplyInv, SupplyIsHoldings, SupplyCovered
<1>8. ASSUME NEW g \in Grants, NEW n \in Amounts,
             \/ \E e \in 0..MaxLedger : Approve(g, n, e)
             \/ IncreaseAllowance(g, n)
             \/ DecreaseAllowance(g, n)
      PROVE  SupplyInv'
  BY <1>7, <1>8 DEF Approve, IncreaseAllowance, DecreaseAllowance
<1>9. CASE CloseLedger
  BY <1>7, <1>9 DEF CloseLedger
<1>10. CASE UNCHANGED vars
  BY <1>7, <1>10 DEF vars
<1>11. QED
  BY <1>1, <1>2, <1>3, <1>5, <1>6, <1>8, <1>9, <1>10 DEF Next

\* Initially nothing is held and the supply is zero.
LEMMA InitSupply == Init => SupplyInv
<1> SUFFICES ASSUME Init PROVE SupplyInv
  OBVIOUS
<1>1. supply = 0 /\ \A a \in Address : balances[a] = 0
  BY DEF Init
<1>2. Total(balances, Address) = 0
  BY <1>1, TotalZero
<1>3. QED
  BY <1>1, <1>2 DEF SupplyInv, SupplyIsHoldings, SupplyCovered

\* The accounting of the token: until a mint hits the ceiling of an i128,
\* TotalSupply is the sum of all balances.
THEOREM SupplyIsAlwaysHoldings == Spec => []SupplyIsHoldings
<1>2. SupplyInv => SupplyIsHoldings
  BY DEF SupplyInv
<1>3. QED
  BY <1>2, InitSupply, SupplyInductive, TokenTypeCorrect, PTL DEF Spec

\* TotalSupply never exceeds what the accounts hold, saturated or not.
THEOREM SupplyIsAlwaysCovered == Spec => []SupplyCovered
<1>2. SupplyInv => SupplyCovered
  BY DEF SupplyInv
<1>3. QED
  BY <1>2, InitSupply, SupplyInductive, TokenTypeCorrect, PTL DEF Spec

-----------------------------------------------------------------------------
\* Balances only go down with the owner's signature or out of a live allowance.
THEOREM DebitsAlwaysAuthorized == Spec => DebitsAuthorized
<1> DEFINE Debit == \A a \in Address : balances'[a] < balances[a] =>
              \/ a \in signers'
              \/ \E g \in Grants :
                   /\ g[1] = a /\ signers' = {g[2]}
                   /\ ledger <= Recorded(g).expiration_ledger
                   /\ Recorded(g).amount - Recorded(g)'.amount = balances[a] - balances'[a]
<1>1. TypeOK /\ [Next]_vars => [Debit]_vars
  <2> SUFFICES ASSUME TypeOK, [Next]_vars, NEW a \in Address, balances'[a] < balances[a]
               PROVE  \/ a \in signers'
                      \/ \E g \in Grants :
                           /\ g[1] = a /\ signers' = {g[2]}
                           /\ ledger <= Recorded(g).expiration_ledger
                           /\ Recorded(g).amount - Recorded(g)'.amount
                                = balances[a] - balances'[a]
    BY Zenon
  <2>1. ASSUME balances' = balances PROVE FALSE
    BY <2>1 DEF TypeOK
  <2>2. ASSUME NEW b \in Address, NEW n \in Amounts, Mint(b, n) PROVE FALSE
    <3>1. n \in Int /\ n > 0 /\ balances[b] \in 0..MaxAmount /\ MaxAmount \in Nat
      BY <2>2, TokenAssumption DEF Mint, TypeOK, MinAmount
    <3>2. Saturate(balances[b] + n) >= balances[b]
      BY <3>1, TokenAssumption DEF Saturate, MinAmount
    <3>3. balances'[a] = IF a = b THEN Saturate(balances[b] + n) ELSE balances[a]
      BY <2>2 DEF Mint, TypeOK
    <3>4. balances[a] \in Int
      BY <3>1 DEF TypeOK
    <3>5. QED
      BY <3>1, <3>2, <3>3, <3>4, TokenAssumption DEF Saturate, MinAmount
  <2>3. ASSUME NEW b \in Address, NEW n \in Amounts, Burn(b, n) PROVE a \in signers'
    BY <2>3 DEF Burn, TypeOK, Authorized
  <2>4. ASSUME NEW from \in Address, NEW to \in Address, NEW n \in Amounts, n > 0,
               Move(from, to, n)
        PROVE  a = from /\ balances[a] - balances'[a] = n
    BY <2>4, TokenAssumption DEF Move, TypeOK, MinAmount
  <2>5. ASSUME NEW b \in Address, NEW c \in Address, NEW n \in Amounts, Transfer(b, c, n)
        PROVE  a \in signers'
    BY <2>4, <2>5 DEF Transfer, Authorized
  <2>6. ASSUME NEW g \in Grants, NEW c \in Address, NEW n \in Amounts, TransferFrom(g, c, n)
        PROVE  /\ g[1] = a /\ signers' = {g[2]}
               /\ ledger <= Recorded(g).expiration_ledger
               /\ Recorded(g).amount - Recorded(g)'.amount = balances[a] - balances'[a]
    <3>1. g[1] \in Address /\ n \in Int
      BY TokenAssumption DEF MinAmount
    <3>2. g[1] = a /\ balances[a] - balances'[a] = n
      BY <2>4, <2>6, <3>1 DEF TransferFrom
    <3>3. allowances'[g] = [amount |-> Recorded(g).amount - n,
                            expiration_ledger |-> Recorded(g).expiration_ledger]
      BY <2>6 DEF TransferFrom, TypeOK
    <3>4. allowances'[g] # NoAllowance
      BY <2>6, <3>1, <3>3, RecordedType, TokenAssumption
      DEF TransferFrom, AllowanceValue, MinAmount
    <3>5. Recorded(g)'.amount = Recorded(g).amount - n
      BY <3>3, <3>4 DEF Recorded
    <3>6. QED
      BY <2>6, <3>1, <3>2, <3>5, RecordedType DEF TransferFrom, Authorized, MinAmount
  <2>7. QED
    BY <2>1, <2>2, <2>3, <2>5, <2>6
    DEF Next, vars, Initialize, Approve, IncreaseAllowance, DecreaseAllowance, CloseLedger
<1>2. QED
  BY <1>1, TokenTypeCorrect, PTL DEF Spec, DebitsAuthorized

\* What a spender may take grows only in an invocation that the owner signed: a live
\* allowance is not revived by time, nor by what the spender takes.
THEOREM SpendingPowerAlwaysFromOwner == Spec => SpendingPowerFromOwner
<1> DEFINE Grows(g) == allowance(g)' > 0 /\ allowance(g)' > allowance(g)
           Signed == \A g \in Grants : Grows(g) => signers' = {g[1]}
<1>1. TypeOK /\ TypeOK' /\ [Next]_vars => [Signed]_vars
  <2> SUFFICES ASSUME TypeOK, TypeOK', [Next]_vars, NEW g \in Grants, Grows(g)
               PROVE  signers' = {g[1]}
    BY Zenon
  <2>1. /\ Recorded(g).amount \in Int /\ Recorded(g).expiration_ledger \in Int
        /\ ledger \in Int /\ ledger' \in Int
        /\ Recorded(g)'.amount \in Int /\ Recorded(g)'.expiration_ledger \in Int
    BY TokenAssumption DEF TypeOK, Recorded, AllowanceValue, MinAmount
  <2>2. ASSUME ledger' >= ledger, Recorded(g)' = Recorded(g) PROVE FALSE
    BY <2>1, <2>2 DEF allowance
  <2>3. ASSUME ledger' = ledger, allowances'[g] = allowances[g] PROVE FALSE
    BY <2>1, <2>2, <2>3 DEF Recorded
  <2>4. ASSUME NEW h \in Grants, h # g, ledger' = ledger,
               NEW rec, allowances' = [allowances EXCEPT ![h] = rec]
        PROVE  FALSE
    BY <2>3, <2>4 DEF TypeOK
  <2>5. ASSUME NEW b \in Address, NEW n \in Amounts, TransferFrom(g, b, n) PROVE FALSE
    <3>1. n \in Int /\ n > 0 /\ ledger' = ledger /\ ledger <= Recorded(g).expiration_ledger
      BY <2>5, TokenAssumption DEF TransferFrom, MinAmount
    <3>2. allowances'[g] = [amount |-> Recorded(g).amount - n,
                            expiration_ledger |-> Recorded(g).expiration_ledger]
      BY <2>5 DEF TransferFrom, TypeOK
    <3>3. allowances'[g] # NoAllowance
      BY <2>5, <3>1, <3>2, RecordedType, TokenAssumption
      DEF TransferFrom, AllowanceValue, MinAmount
    <3>4. Recorded(g)'.amount = Recorded(g).amount - n
      BY <3>2, <3>3 DEF Recorded
    <3>5. QED
      BY <2>1, <3>1, <3>4 DEF allowance
  <2>6. ASSUME NEW h \in Grants, NEW b \in Address, NEW n \in Amounts, TransferFrom(h, b, n)
        PROVE  FALSE
    BY <2>4, <2>5, <2>6 DEF TransferFrom
  <2>7. ASSUME NEW h \in Grants, NEW n \in Amounts,
               \/ \E e \in 0..MaxLedger : Approve(h, n, e)
               \/ IncreaseAllowance(h, n) \/ DecreaseAllowance(h, n)
        PROVE  signers' = {g[1]}
    BY <2>4, <2>7 DEF Approve, IncreaseAllowance, DecreaseAllowance, Authorized
  <2>8. ASSUME CloseLedger PROVE FALSE
    BY <2>1, <2>2, <2>8 DEF CloseLedger, Recorded
  <2>9. QED
    BY <2>3, <2>6, <2>7, <2>8 DEF Next, vars, Initialize, Mint, Burn, Transfer
<1>2. QED
  BY <1>1, TokenTypeCorrect, PTL DEF Spec, SpendingPowerFromOwner
=============================================================================
