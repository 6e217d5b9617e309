--------------------------- MODULE ClientTransfer ---------------------------
(* The form that sends NOVA from the browser (components/TransferForm.tsx,    *)
(* lib/freighter.ts): tabs of one wallet check the recipient, load the        *)
(* account, have the extension sign, submit to Horizon and record what was    *)
(* paid in the backend.                                                       *)
(*                                                                            *)
(* The network is external: it takes a transaction with the next sequence     *)
(* number into a ledger, which may be long after the answer was given up.     *)
(* Every transfer is of one unit.                                             *)
EXTENDS Integers, FiniteSets

CONSTANTS Tab,        \* tabs with the form open
          Holdings,   \* what the wallet holds in the beginning
          MaxTries,   \* bound on transactions that are built
          MaxMishaps  \* bound on answers that are lost, and statements that fail

TransferAssumption ==
  /\ IsFiniteSet(Tab) /\ Holdings \in Nat /\ MaxTries \in Nat /\ MaxMishaps \in Nat

VARIABLES sequence, \* the wallet's sequence number
          holds,    \* its balance
          balance,  \* the balance the store shows
          sender,   \* the extension is on the sender's account
          trusts,   \* the recipient has a trustline
          sent,     \* transactions: number -> sequence number, signature, what became of it
          form,     \* the step of each tab, and its transaction
          told,     \* transactions the user was told have succeeded
          recorded, \* transactions in the backend's table
          lost,     \* history: transactions whose answer was lost
          missed,   \* history: recordings that failed
          mishaps

transferVars == <<sequence, holds, balance, sender, trusts, sent, form, told, recorded,
                  lost, missed, mishaps>>

Try == 1..MaxTries
NotSent == [seq |-> 0, signed |-> FALSE, is |-> "none"]

Init ==
  /\ sequence = 0 /\ holds = Holdings /\ balance = Holdings
  /\ sender = TRUE /\ trusts = TRUE
  /\ sent = [n \in Try |-> NotSent]
  /\ form = [t \in Tab |-> [step |-> "edit", tx |-> 0]]
  /\ told = {} /\ recorded = {} /\ lost = {} /\ missed = {} /\ mishaps = 0

At(t, step) == form[t].step = step
Go(t, step) == form' = [form EXCEPT ![t].step = step]
Edit(t) == form' = [form EXCEPT ![t] = [step |-> "edit", tx |-> 0]]
Mishap == mishaps < MaxMishaps /\ mishaps' = mishaps + 1
Paid == {n \in Try : sent[n].is = "paid"}

-----------------------------------------------------------------------------
(* The world: the extension, the recipient, the store, the network.         *)

Switch ==
  /\ sender' = ~sender
  /\ UNCHANGED <<sequence, holds, balance, trusts, sent, form, told, recorded, lost, missed, mishaps>>

Untrust ==
  /\ trusts /\ trusts' = FALSE
  /\ UNCHANGED <<sequence, holds, balance, sender, sent, form, told, recorded, lost, missed, mishaps>>

\* The store reads its balance when it is loaded or connected, not after a transfer.
ShowBalance ==
  /\ balance # holds /\ balance' = holds
  /\ UNCHANGED <<sequence, holds, sender, trusts, sent, form, told, recorded, lost, missed, mishaps>>

\* A transaction is valid with the sender's signature and the next sequence number.
Valid(n) == sent[n].signed /\ sent[n].seq = sequence + 1

\* It takes the sequence number even if the payment in it fails.
Apply(n) ==
  /\ sent[n].is = "pool" /\ Valid(n)
  /\ sequence' = sequence + 1
  /\ IF trusts /\ holds > 0
     THEN /\ holds' = holds - 1 /\ sent' = [sent EXCEPT ![n].is = "paid"]
     ELSE /\ sent' = [sent EXCEPT ![n].is = "refused"] /\ UNCHANGED holds
  /\ UNCHANGED <<balance, sender, trusts, form, told, recorded, lost, missed, mishaps>>

\* Another one is refused, and any one after the time bound of three minutes.
Refuse(n) ==
  /\ sent[n].is = "pool" /\ sent' = [sent EXCEPT ![n].is = "refused"]
  /\ UNCHANGED <<sequence, holds, balance, sender, trusts, form, told, recorded, lost, missed, mishaps>>

-----------------------------------------------------------------------------
(* executeTransfer.                                                         *)

\* The form is submitted while the balance shown suffices, and confirmed in the dialog.
Confirm(t) ==
  /\ At(t, "edit") /\ balance > 0
  /\ Go(t, "verify")
  /\ UNCHANGED <<sequence, holds, balance, sender, trusts, sent, told, recorded, lost, missed, mishaps>>

VerifyTrustline(t) ==
  /\ At(t, "verify")
  /\ IF trusts THEN Go(t, "load") ELSE Edit(t)
  /\ UNCHANGED <<sequence, holds, balance, sender, trusts, sent, told, recorded, lost, missed, mishaps>>

\* The account's sequence number goes into the transaction that is built.
LoadAccount(t) ==
  /\ At(t, "load")
  /\ \E n \in Try :
       /\ sent[n] = NotSent /\ \A m \in 1..n - 1 : sent[m] # NotSent
       /\ sent' = [sent EXCEPT ![n].seq = sequence + 1]
       /\ form' = [form EXCEPT ![t] = [step |-> "sign", tx |-> n]]
  /\ UNCHANGED <<sequence, holds, balance, sender, trusts, told, recorded, lost, missed, mishaps>>

\* The extension signs with the account it is on.
Sign(t) ==
  /\ At(t, "sign")
  /\ sent' = [sent EXCEPT ![form[t].tx].signed = sender]
  /\ Go(t, "submit")
  /\ UNCHANGED <<sequence, holds, balance, sender, trusts, told, recorded, lost, missed, mishaps>>

\* The trustline, the account or the signature cannot be had: an error is shown.
Rejected(t) ==
  /\ form[t].step \in {"verify", "load", "sign"}
  /\ Edit(t)
  /\ UNCHANGED <<sequence, holds, balance, sender, trusts, sent, told, recorded, lost, missed, mishaps>>

Submit(t) ==
  /\ At(t, "submit")
  /\ sent' = [sent EXCEPT ![form[t].tx].is = "pool"]
  /\ Go(t, "sent")
  /\ UNCHANGED <<sequence, holds, balance, sender, trusts, told, recorded, lost, missed, mishaps>>

\* Horizon answers when the transaction is in a ledger or refused.
Answered(t) ==
  /\ At(t, "sent")
  /\ \/ sent[form[t].tx].is = "paid" /\ Go(t, "record")
     \/ sent[form[t].tx].is = "refused" /\ Edit(t)
  /\ UNCHANGED <<sequence, holds, balance, sender, trusts, sent, told, recorded, lost, missed, mishaps>>

\* The request, its answer, or Horizon's patience is lost: an error is shown.
AnswerLost(t) ==
  /\ form[t].step \in {"submit", "sent"} /\ Mishap
  /\ lost' = IF At(t, "sent") THEN lost \union {form[t].tx} ELSE lost
  /\ Edit(t)
  /\ UNCHANGED <<sequence, holds, balance, sender, trusts, sent, told, recorded, missed>>

\* A recording that fails is only logged; the form says that the transfer succeeded.
Record(t, works) ==
  /\ At(t, "record")
  /\ IF works THEN recorded' = recorded \union {form[t].tx} /\ UNCHANGED <<missed, mishaps>>
     ELSE missed' = missed \union {form[t].tx} /\ Mishap /\ UNCHANGED recorded
  /\ told' = told \union {form[t].tx}
  /\ Edit(t)
  /\ UNCHANGED <<sequence, holds, balance, sender, trusts, sent, lost>>

Next ==
  \/ Switch \/ Untrust \/ ShowBalance
  \/ \E n \in Try : Apply(n) \/ Refuse(n)
  \/ \E t \in Tab :
       \/ Confirm(t) \/ VerifyTrustline(t) \/ LoadAccount(t) \/ Sign(t) \/ Rejected(t)
       \/ Submit(t) \/ Answered(t) \/ AnswerLost(t) \/ \E works \in BOOLEAN : Record(t, works)

-----------------------------------------------------------------------------
TypeOK ==
  /\ sequence \in 0..MaxTries /\ {holds, balance} \subseteq 0..Holdings
  /\ {sender, trusts} \subseteq BOOLEAN
  /\ sent \in [Try -> [seq : 0..MaxTries, signed : BOOLEAN, is : {"none", "pool", "paid", "refused"}]]
  /\ form \in [Tab -> [step : {"edit", "verify", "load", "sign", "submit", "sent", "record"},
                       tx : 0..MaxTries]]
  /\ {told, recorded, lost, missed} \subseteq SUBSET Try /\ mishaps \in 0..MaxMishaps

UnderWay == {form[t].tx : t \in {u \in Tab : form[u].step \in {"sent", "record"}}}

\* Whatever was paid the user was told of, or will be, or its answer was lost; and who
\* is told that a transfer succeeded has paid.
PaymentsTold == Paid \subseteq told \union UnderWay \union lost /\ told \subseteq Paid

\* What was told is in the backend's table, unless recording it failed.
PaymentsRecorded == told \subseteq recorded \union missed /\ recorded \subseteq Paid
=============================================================================
