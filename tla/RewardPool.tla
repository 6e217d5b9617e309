----------------------------- MODULE RewardPool ------------------------------
(***************************************************************************)
(* The reward pool (contracts/reward_pool), composed with the NOVA token   *)
(* that holds its funds.  One action is one invocation: if the second      *)
(* token transfer of a withdrawal fails, the first one is undone too.      *)
(***************************************************************************)
EXTENDS Totals

CONSTANTS Address, NoAddress, NoAllowance, MaxAmount, MaxLedger,
                           \* as in NovaToken
          Pool,            \* the address of this contract
          Amounts,         \* amounts deposited and withdrawn
          BpsDenominator,  \* 10 000, one hundred percent
          FeeRates,        \* arguments of update_fee
          LockTimes,       \* arguments of set_locked_until
          MaxGross         \* bound on the sum of the withdrawals explored

\* Assumed of the constants.
PoolAssumption ==
  /\ IsFiniteSet(Address) /\ Pool \in Address /\ NoAddress \notin Address
  /\ MaxAmount \in Nat \ {0} /\ MaxLedger \in Nat \ {0}
  /\ Amounts \subseteq Int
  /\ BpsDenominator \in Nat \ {0}
  /\ FeeRates \subseteq Nat /\ LockTimes \subseteq Nat /\ MaxGross \in Nat

VARIABLES initialized,   \* DataKey::Admin and DataKey::Token are stored
          fee_bps,       \* DataKey::FeeBps
          treasury,      \* DataKey::Treasury
          locked_until,  \* DataKey::LockedUntil
          gross,         \* history: the sum of the amounts withdrawn
          fees,          \* history: the sum of the fees taken
          highest,       \* history: the highest fee rate that was in force
          tokenAdmin, balances, supply, allowances, ledger, signers, saturated

Token == INSTANCE NovaToken WITH admin <- tokenAdmin, Grants <- {}

poolVars == <<initialized, fee_bps, treasury, locked_until, gross, fees, highest>>
tokenVars == <<tokenAdmin, balances, supply, allowances, ledger, signers, saturated>>
vars == <<poolVars, tokenVars>>

-----------------------------------------------------------------------------
\* Variant: the percentage is rounded up.
Fee_Ceiling(amount) == (amount * fee_bps + BpsDenominator - 1) \div BpsDenominator

\* A fee of the truncated percentage.
Fee(amount) == (amount * fee_bps) \div BpsDenominator

\* A successful transfer changes these balances as the token's Move does.
Debited(bal, from, to, n) ==
  LET less == [bal EXCEPT ![from] = @ - n] IN [less EXCEPT ![to] = @ + n]

\* The token accepts the transfer: positive, covered, and no overflow.
Transferable(bal, from, to, n) ==
  n > 0 /\ bal[from] >= n /\ Debited(bal, from, to, n)[to] <= MaxAmount

Init ==
  /\ Token!Init
  /\ initialized = FALSE
  /\ fee_bps = 0 /\ treasury = NoAddress /\ locked_until = 0
  /\ gross = 0 /\ fees = 0 /\ highest = 0

Initialize ==
  /\ ~initialized
  /\ initialized' = TRUE
  /\ locked_until' = 0
  /\ fee_bps' = 0
  /\ UNCHANGED <<treasury, gross, fees, highest, tokenVars>>

UpdateFee(bps) ==
  /\ initialized
  /\ bps <= BpsDenominator
  /\ fee_bps' = bps
  /\ highest' = IF bps > highest THEN bps ELSE highest
  /\ UNCHANGED <<initialized, treasury, locked_until, gross, fees, tokenVars>>

UpdateTreasury(a) ==
  /\ initialized
  /\ treasury' = a
  /\ UNCHANGED <<initialized, fee_bps, locked_until, gross, fees, highest, tokenVars>>

SetLockedUntil(t) ==
  /\ initialized
  /\ locked_until' = t
  /\ UNCHANGED <<initialized, fee_bps, treasury, gross, fees, highest, tokenVars>>

\* Signed by the depositor; the transfer checks the amount.
Deposit(from, amount) ==
  /\ initialized
  /\ Token!Transfer(from, Pool, amount)
  /\ UNCHANGED poolVars

\* The balances after a withdrawal: first the fee, then the rest.
AfterFee(amount) ==
  IF Fee(amount) > 0 THEN Debited(balances, Pool, treasury, Fee(amount)) ELSE balances

\* withdraw succeeds.
Withdrawable(to, amount) ==
  LET fee == Fee(amount)
  IN  /\ initialized
      /\ amount > 0
      /\ ledger >= locked_until
      /\ balances[Pool] >= amount
      /\ amount * fee_bps <= MaxAmount
      /\ fee > 0 => treasury # NoAddress /\ Transferable(balances, Pool, treasury, fee)
      /\ Transferable(AfterFee(amount), Pool, to, amount - fee)

\* Signed by the admin.  The treasury and the recipient may be any address,
\* the pool's own included.
Withdraw(to, amount) ==
  /\ Withdrawable(to, amount)
  /\ gross + amount <= MaxGross
  /\ balances' = Debited(AfterFee(amount), Pool, to, amount - Fee(amount))
  /\ signers' = {}
  /\ gross' = gross + amount
  /\ fees' = fees + Fee(amount)
  /\ UNCHANGED <<initialized, fee_bps, treasury, locked_until, highest,
                 tokenAdmin, supply, allowances, ledger, saturated>>

TokenStep ==
  /\ \/ \E a \in Address : Token!Initialize(a)
     \/ \E a \in Address, n \in Amounts : Token!Mint(a, n)
     \/ Token!CloseLedger
  /\ UNCHANGED poolVars

Next ==
  \/ Initialize
  \/ \E bps \in FeeRates : UpdateFee(bps)
  \/ \E a \in Address : UpdateTreasury(a)
  \/ \E t \in LockTimes : SetLockedUntil(t)
  \/ \E a \in Address, n \in Amounts : Deposit(a, n)
  \/ \E a \in Address, n \in Amounts : Withdraw(a, n)
  \/ TokenStep

Spec == Init /\ [][Next]_vars

-----------------------------------------------------------------------------
\* The stored values have the types the contract stores.
TypeOK ==
  /\ initialized \in BOOLEAN
  /\ fee_bps \in 0..BpsDenominator /\ highest \in 0..BpsDenominator
  /\ treasury \in Address \cup {NoAddress}
  /\ locked_until \in Nat
  /\ gross \in 0..MaxGross /\ fees \in 0..MaxGross
  /\ Token!TypeOK

\* A withdrawal in two transfers neither creates nor loses a token, also when
\* treasury, recipient and pool are the same address.
TokensConserved == ~saturated => supply = Total(balances, Address)

\* The fees taken so far are never more than the highest rate that was in
\* force would take of everything withdrawn: truncation favours the users.
FeesBounded == fees * BpsDenominator <= gross * highest

\* A withdrawal takes at most the requested amount from the pool, and nothing
\* from anybody else.
OnlyPoolPays ==
  [][gross' # gross =>
       /\ balances[Pool] - balances'[Pool] <= gross' - gross
       /\ \A a \in Address \ {Pool} : balances'[a] >= balances[a]]_vars

=============================================================================
