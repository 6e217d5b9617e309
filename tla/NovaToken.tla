----------------------------- MODULE NovaToken ------------------------------
(***************************************************************************)
(* The NOVA fungible token (contracts/nova_token).  One action is one      *)
(* contract invocation: Soroban runs invocations one at a time and a panic *)
(* discards everything the invocation wrote, so every assert!, unwrap and  *)
(* checked arithmetic operation of the code is a guard.                    *)
(***************************************************************************)
EXTENDS Totals

CONSTANTS Address,      \* accounts and contracts
          NoAddress,    \* value of an address key that was never written
          NoAllowance,  \* value of an allowance key that was never written
          Grants,       \* (owner, spender) pairs whose allowances are exercised
          Amounts,      \* i128 arguments of the invocations
          MaxAmount,    \* i128::MAX
          MaxLedger     \* bound on the ledger sequence explored

MinAmount == -MaxAmount - 1   \* i128::MIN

AllowanceValue == [amount : MinAmount..MaxAmount, expiration_ledger : 0..MaxLedger]

ASSUME TokenAssumption ==
  /\ IsFiniteSet(Address)
  /\ NoAddress \notin Address
  /\ NoAllowance \notin AllowanceValue
  /\ Grants \subseteq Address \X Address
  /\ Amounts \subseteq MinAmount..MaxAmount
  /\ MaxAmount \in Nat \ {0}
  /\ MaxLedger \in Nat \ {0}

VARIABLES admin,       \* DataKey::Admin
          balances,    \* DataKey::Balance(addr), unwrap_or(0)
          supply,      \* DataKey::TotalSupply, unwrap_or(0)
          allowances,  \* DataKey::Allowance(owner, spender)
          ledger,      \* env.ledger().sequence()
          signers,     \* who passed require_auth in the last invocation
          saturated    \* history: some mint hit the i128 ceiling

tokenVars == <<admin, balances, supply, allowances, saturated>>
vars == <<admin, balances, supply, allowances, ledger, signers, saturated>>

-----------------------------------------------------------------------------
\* saturating_add and saturating_sub on i128.
Saturate(n) == IF n > MaxAmount THEN MaxAmount
               ELSE IF n < MinAmount THEN MinAmount ELSE n

\* The stored allowance, or the default the code reads for a missing key.
Recorded(g) == IF allowances[g] = NoAllowance
               THEN [amount |-> 0, expiration_ledger |-> 0]
               ELSE allowances[g]

\* The allowance view: zero once the record has expired.
allowance(g) == IF ledger > Recorded(g).expiration_ledger THEN 0 ELSE Recorded(g).amount

total_supply == supply

\* require_auth of every address in S.
Authorized(S) == signers' = S

\* Variant: the credit starts from the balance read before the debit.
Move_StaleCredit(from, to, amount) ==
  /\ balances[from] >= amount
  /\ balances[to] + amount <= MaxAmount
  /\ balances' = [balances EXCEPT ![from] = @ - amount, ![to] = balances[to] + amount]

\* Debit, then credit the balance as it is after the debit.  The credit is a
\* checked addition: overflow-checks is on in the release profile.
Move(from, to, amount) ==
  LET debited == [balances EXCEPT ![from] = @ - amount]
  IN  /\ balances[from] >= amount
      /\ debited[to] + amount <= MaxAmount
      /\ balances' = [debited EXCEPT ![to] = @ + amount]

-----------------------------------------------------------------------------
Init ==
  /\ admin = NoAddress
  /\ balances = [a \in Address |-> 0]
  /\ supply = 0
  /\ allowances = [g \in Grants |-> NoAllowance]
  /\ ledger = 1
  /\ signers = {}
  /\ saturated = FALSE

Initialize(a) ==
  /\ admin = NoAddress
  /\ Authorized({})
  /\ admin' = a
  /\ supply' = 0
  /\ UNCHANGED <<balances, allowances, ledger, saturated>>

Mint(to, amount) ==
  /\ admin # NoAddress
  /\ Authorized({admin})
  /\ amount > 0
  /\ balances' = [balances EXCEPT ![to] = Saturate(@ + amount)]
  /\ supply' = Saturate(supply + amount)
  /\ saturated' = (saturated \/ balances[to] + amount > MaxAmount
                             \/ supply + amount > MaxAmount)
  /\ UNCHANGED <<admin, allowances, ledger>>

\* Variant: the balance check is missing.
Burn_Unchecked(from, amount) ==
  /\ Authorized({from})
  /\ amount > 0
  /\ balances' = [balances EXCEPT ![from] = @ - amount]
  /\ supply' = Saturate(supply - amount)
  /\ UNCHANGED <<admin, allowances, ledger, saturated>>

\* Variant: the supply is not reduced.
Burn_SupplyKept(from, amount) ==
  /\ Authorized({from})
  /\ amount > 0
  /\ balances[from] >= amount
  /\ balances' = [balances EXCEPT ![from] = @ - amount]
  /\ UNCHANGED <<admin, supply, allowances, ledger, saturated>>

Burn(from, amount) ==
  /\ Authorized({from})
  /\ amount > 0
  /\ balances[from] >= amount
  /\ balances' = [balances EXCEPT ![from] = @ - amount]
  /\ supply' = Saturate(supply - amount)
  /\ UNCHANGED <<admin, allowances, ledger, saturated>>

Transfer(from, to, amount) ==
  /\ Authorized({from})
  /\ amount > 0
  /\ Move(from, to, amount)
  /\ UNCHANGED <<admin, supply, allowances, ledger, saturated>>

\* Variant: an expired allowance is still accepted.
TransferFrom_NoExpiry(g, to, amount) ==
  /\ Authorized({g[2]})
  /\ amount > 0
  /\ Recorded(g).amount >= amount
  /\ allowances' = [allowances EXCEPT ![g] =
                      [amount |-> Recorded(g).amount - amount,
                       expiration_ledger |-> Recorded(g).expiration_ledger]]
  /\ Move(g[1], to, amount)
  /\ UNCHANGED <<admin, supply, ledger, saturated>>

\* g is the pair (from, spender).
TransferFrom(g, to, amount) ==
  /\ Authorized({g[2]})
  /\ amount > 0
  /\ ledger <= Recorded(g).expiration_ledger
  /\ Recorded(g).amount >= amount
  /\ allowances' = [allowances EXCEPT ![g] =
                      [amount |-> Recorded(g).amount - amount,
                       expiration_ledger |-> Recorded(g).expiration_ledger]]
  /\ Move(g[1], to, amount)
  /\ UNCHANGED <<admin, supply, ledger, saturated>>

\* Overwrites the record.  Only a positive amount needs a live expiry.
Approve(g, amount, expiration_ledger) ==
  /\ Authorized({g[1]})
  /\ amount > 0 => expiration_ledger >= ledger
  /\ allowances' = [allowances EXCEPT ![g] =
                      [amount |-> amount, expiration_ledger |-> expiration_ledger]]
  /\ UNCHANGED <<admin, balances, supply, ledger, saturated>>

\* Variant: the spender's signature is accepted.
IncreaseAllowance_SpenderSigns(g, amount) ==
  /\ Authorized({g[2]})
  /\ amount > 0
  /\ allowances[g] # NoAllowance
  /\ allowances' = [allowances EXCEPT ![g] =
                      [amount |-> Saturate(Recorded(g).amount + amount),
                       expiration_ledger |-> Recorded(g).expiration_ledger]]
  /\ UNCHANGED <<admin, balances, supply, ledger, saturated>>

IncreaseAllowance(g, amount) ==
  /\ Authorized({g[1]})
  /\ amount > 0
  /\ allowances[g] # NoAllowance
  /\ allowances' = [allowances EXCEPT ![g] =
                      [amount |-> Saturate(Recorded(g).amount + amount),
                       expiration_ledger |-> Recorded(g).expiration_ledger]]
  /\ UNCHANGED <<admin, balances, supply, ledger, saturated>>

\* Unlike IncreaseAllowance it creates a missing record, and saturating_sub on
\* a signed integer stops at i128::MIN, not at zero.
DecreaseAllowance(g, amount) ==
  /\ Authorized({g[1]})
  /\ amount > 0
  /\ allowances' = [allowances EXCEPT ![g] =
                      [amount |-> Saturate(Recorded(g).amount - amount),
                       expiration_ledger |-> Recorded(g).expiration_ledger]]
  /\ UNCHANGED <<admin, balances, supply, ledger, saturated>>

\* A ledger closes.
CloseLedger ==
  /\ ledger < MaxLedger
  /\ ledger' = ledger + 1
  /\ UNCHANGED <<admin, balances, supply, allowances, signers, saturated>>

Next ==
  \/ \E a \in Address : Initialize(a)
  \/ \E a \in Address, n \in Amounts : Mint(a, n)
  \/ \E a \in Address, n \in Amounts : Burn(a, n)
  \/ \E a, b \in Address, n \in Amounts : Transfer(a, b, n)
  \/ \E g \in Grants, b \in Address, n \in Amounts : TransferFrom(g, b, n)
  \/ \E g \in Grants, n \in Amounts, e \in 0..MaxLedger : Approve(g, n, e)
  \/ \E g \in Grants, n \in Amounts : IncreaseAllowance(g, n)
  \/ \E g \in Grants, n \in Amounts : DecreaseAllowance(g, n)
  \/ CloseLedger

Spec == Init /\ [][Next]_vars

-----------------------------------------------------------------------------
\* The stored values have the types the contract stores; balances are never
\* negative although they are signed integers.
TypeOK ==
  /\ admin \in Address \cup {NoAddress}
  /\ balances \in [Address -> 0..MaxAmount]
  /\ supply \in MinAmount..MaxAmount
  /\ allowances \in [Grants -> AllowanceValue \cup {NoAllowance}]
  /\ ledger \in 1..MaxLedger
  /\ signers \subseteq Address
  /\ saturated \in BOOLEAN

\* Until a mint saturates, TotalSupply is the sum of all balances: no sequence
\* of mints, burns, transfers (to oneself too) and delegated transfers creates
\* or loses a unit.
SupplyIsHoldings == ~saturated => supply = Total(balances, Address)

\* Even after saturation TotalSupply never claims more than is held, so a
\* percentage quorum computed from it is never out of reach of the holders.
SupplyCovered == supply <= Total(balances, Address)

\* A balance goes down only if its owner signed, or by exactly what a live
\* allowance of that owner to the signer goes down.
DebitsAuthorized ==
  [][\A a \in Address : balances'[a] < balances[a] =>
       \/ a \in signers'
       \/ \E g \in Grants :
            /\ g[1] = a /\ signers' = {g[2]}
            /\ ledger <= Recorded(g).expiration_ledger
            /\ Recorded(g).amount - Recorded(g)'.amount = balances[a] - balances'[a]]_vars

\* What a spender may still take (nothing, if the allowance is negative) grows
\* only in an invocation the owner signed: neither time nor the spender's own
\* calls revive a spent or expired allowance.
SpendingPowerFromOwner ==
  [][\A g \in Grants :
       allowance(g)' > 0 /\ allowance(g)' > allowance(g) => signers' = {g[1]}]_vars

=============================================================================
