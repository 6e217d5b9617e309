------------------------------- MODULE Escrow --------------------------------
(***************************************************************************)
(* The escrow contract (contracts/escrow).  One action is one invocation.  *)
(* The contract moves no tokens: it records amounts and decisions.         *)
(* Upgrades by multisig are in ContractState.                              *)
(***************************************************************************)
EXTENDS Totals

CONSTANTS Address, NoAddress,
          Amounts,    \* arguments of fund
          MaxAmount,  \* i128::MAX
          MaxTime,    \* bound on the ledger time explored
          MaxIds,     \* bound on the escrows explored
          NoEscrow    \* value of an escrow key that was never written

Ids == 0..MaxIds - 1

EscrowRecord == [depositor : Address, beneficiary : Address, timeout : 0..MaxTime,
                 amount : 0..MaxAmount, status : {"Open", "Released", "Refunded"}]

EscrowAssumption ==
  /\ IsFiniteSet(Address) /\ NoAddress \notin Address
  /\ Amounts \subseteq Int
  /\ MaxAmount \in Nat /\ MaxTime \in Nat /\ MaxIds \in Nat
  /\ NoEscrow \notin EscrowRecord

VARIABLES admin,      \* DataKey::Admin
          nextId,     \* DataKey::NextId, unwrap_or(0)
          escrows,    \* DataKey::Escrow(id)
          now,        \* env.ledger().timestamp()
          funded,     \* history: what each depositor put in
          restarted,  \* history: initialize found escrows already created
          consents    \* history: who signed the release or refund of an escrow

vars == <<admin, nextId, escrows, now, funded, restarted, consents>>

Stored == {id \in Ids : escrows[id] # NoEscrow}
Open == {id \in Stored : escrows[id].status = "Open"}

-----------------------------------------------------------------------------
Init ==
  /\ admin = NoAddress
  /\ nextId = 0
  /\ escrows = [id \in Ids |-> NoEscrow]
  /\ now = 0
  /\ funded = [a \in Address |-> 0]
  /\ restarted = FALSE
  /\ consents = [id \in Ids |-> {}]

\* The id counter restarts, whatever was created before.
Initialize(a) ==
  /\ admin = NoAddress
  /\ admin' = a
  /\ nextId' = 0
  /\ restarted' = (nextId > 0)
  /\ UNCHANGED <<escrows, now, funded, consents>>

\* Variant: the id counter is not advanced.
Create_IdKept(depositor, beneficiary, timeout) ==
  /\ timeout > now
  /\ nextId < MaxIds
  /\ escrows' = [escrows EXCEPT ![nextId] =
       [depositor |-> depositor, beneficiary |-> beneficiary,
        timeout |-> timeout, amount |-> 0, status |-> "Open"]]
  /\ consents' = [consents EXCEPT ![nextId] = {}]
  /\ UNCHANGED <<admin, nextId, now, funded, restarted>>

\* Signed by the depositor; works before initialize too.
Create(depositor, beneficiary, timeout) ==
  /\ timeout > now
  /\ nextId < MaxIds
  /\ escrows' = [escrows EXCEPT ![nextId] =
       [depositor |-> depositor, beneficiary |-> beneficiary,
        timeout |-> timeout, amount |-> 0, status |-> "Open"]]
  /\ nextId' = nextId + 1
  /\ consents' = [consents EXCEPT ![nextId] = {}]
  /\ UNCHANGED <<admin, now, funded, restarted>>

\* Signed by the depositor, at any time while the escrow is open.
Fund(id, amount) ==
  /\ amount > 0
  /\ id \in Open
  /\ escrows[id].amount + amount <= MaxAmount
  /\ escrows' = [escrows EXCEPT ![id].amount = @ + amount]
  /\ funded' = [funded EXCEPT ![escrows[id].depositor] = @ + amount]
  /\ UNCHANGED <<admin, nextId, now, restarted, consents>>

\* The signatures release demands of an escrow.
Required(id) == IF now >= escrows[id].timeout THEN {admin}
                ELSE {escrows[id].depositor, escrows[id].beneficiary}

\* Variant: the admin may release at any time.
Release_AdminAnytime(id, signed) ==
  /\ id \in Open
  /\ escrows[id].amount > 0
  /\ admin # NoAddress
  /\ Required(id) \subseteq signed \/ admin \in signed
  /\ escrows' = [escrows EXCEPT ![id].status = "Released"]
  /\ consents' = [consents EXCEPT ![id] = signed]
  /\ UNCHANGED <<admin, nextId, now, funded, restarted>>

\* The admin is read before the time is looked at, so nothing is released
\* before initialize.
Release(id, signed) ==
  /\ id \in Open
  /\ escrows[id].amount > 0
  /\ admin # NoAddress
  /\ Required(id) \subseteq signed
  /\ escrows' = [escrows EXCEPT ![id].status = "Released"]
  /\ consents' = [consents EXCEPT ![id] = signed]
  /\ UNCHANGED <<admin, nextId, now, funded, restarted>>

\* An escrow that was never funded can be refunded too.
Refund(id, signed) ==
  /\ id \in Open
  /\ now >= escrows[id].timeout
  /\ escrows[id].depositor \in signed
  /\ escrows' = [escrows EXCEPT ![id].status = "Refunded"]
  /\ consents' = [consents EXCEPT ![id] = signed]
  /\ UNCHANGED <<admin, nextId, now, funded, restarted>>

PassTime ==
  /\ now < MaxTime
  /\ now' = now + 1
  /\ UNCHANGED <<admin, nextId, escrows, funded, restarted, consents>>

Next ==
  \/ \E a \in Address : Initialize(a)
  \/ \E d, b \in Address, t \in 0..MaxTime : Create(d, b, t)
  \/ \E id \in Ids, n \in Amounts : Fund(id, n)
  \/ \E id \in Ids, S \in SUBSET Address : Release(id, S)
  \/ \E id \in Ids, S \in SUBSET Address : Refund(id, S)
  \/ PassTime

Spec == Init /\ [][Next]_vars

-----------------------------------------------------------------------------
\* The stored values have the types the contract stores.
TypeOK ==
  /\ admin \in Address \cup {NoAddress}
  /\ nextId \in 0..MaxIds
  /\ escrows \in [Ids -> EscrowRecord \cup {NoEscrow}]
  /\ now \in 0..MaxTime
  /\ funded \in [Address -> Nat]
  /\ restarted \in BOOLEAN
  /\ consents \in [Ids -> SUBSET Address]

\* The recorded amount of an escrow, zero if there is none.
AmountOf == [id \in Ids |-> IF id \in Stored THEN escrows[id].amount ELSE 0]
OwnedBy(a) == {id \in Stored : escrows[id].depositor = a}

\* Everything a depositor put in is in the records of that depositor's own
\* escrows, open or settled: no deposit is lost, merged into another escrow or
\* settled for a different amount.
DepositsKept == \A a \in Address : funded[a] = Total(AmountOf, OwnedBy(a))

\* As long as the escrows were created after initialize, as in the documented
\* lifecycle, every deposit is kept.
DepositsKeptOnceInitialised == restarted \/ DepositsKept

\* What was agreed decides who gets the deposit: a beneficiary is paid before
\* the timeout only with both parties' consent, and a settled escrow, its
\* amount and its terms never change again.
SettlementFinal ==
  [][\A id \in 0..nextId - 1 : escrows[id] # NoEscrow =>
       /\ escrows[id].status # "Open" => escrows'[id] = escrows[id]
       /\ escrows'[id].amount >= escrows[id].amount
       /\ escrows'[id].status = "Released" /\ now < escrows[id].timeout =>
            {escrows[id].depositor, escrows[id].beneficiary} \subseteq consents'[id]]_vars

=============================================================================
