------------------------------ MODULE Payments ------------------------------
(* Payments from one Stellar account. A request reads the balance, loads the *)
(* account for its sequence number, builds and signs a payment and submits   *)
(* it: again when Horizon times out, rebuilt with a new sequence number when *)
(* it answers tx_bad_seq, and then up to three times inside a fee bump.      *)
(*                                                                           *)
(* The ledger applies a transaction once, when its sequence number is the    *)
(* next one of the account. A submission that times out may have been        *)
(* applied, refused, or be applied later. A transaction that was applied is  *)
(* answered with its result or, while Horizon does not know of it, with      *)
(* tx_bad_seq.                                                               *)
EXTENDS Integers, FiniteSets

CONSTANTS Request,              \* payments, each of one unit
          Balance,              \* units the account has
          maxTimeoutRetries,    \* submissions of one transaction that may time out
          MAX_FEE_BUMP_ATTEMPTS,
          MaxMishaps            \* bound on lost answers, refused fees and failures

PaymentsAssumption ==
  /\ IsFiniteSet(Request) /\ Balance \in Nat
  /\ maxTimeoutRetries \in Nat \ {0} /\ MAX_FEE_BUMP_ATTEMPTS \in Nat /\ MaxMishaps \in Nat

VARIABLES sequence,  \* the account's sequence number on the ledger
          balance,
          pending,   \* submitted transactions that may still be applied
          readable,  \* whether Horizon gives result codes as the arrays the code looks for
          payment,   \* what each request is doing, and its latest transaction
          transfers, \* rows in transactions, by request
          applied,   \* history: the payments the ledger has applied
          lost,      \* history: submissions of each request whose answer was lost
          mishaps

paymentVars == <<sequence, balance, pending, readable, payment, transfers, applied, lost, mishaps>>

Init ==
  /\ sequence = 0 /\ balance = Balance
  /\ pending = {}
  /\ readable \in BOOLEAN
  /\ payment = [r \in Request |->
       [step |-> "none", n |-> 0, seq |-> 0, timeouts |-> 0, refreshed |-> FALSE, attempt |-> 0]]
  /\ transfers = {} /\ applied = {}
  /\ lost = [r \in Request |-> 0] /\ mishaps = 0

At(r, steps) == payment[r].step \in steps
GoTo(r, step) == payment' = [payment EXCEPT ![r].step = step]
Paid(r) == Cardinality({x \in applied : x[1] = r})

Mishap == mishaps < MaxMishaps /\ mishaps' = mishaps + 1

-----------------------------------------------------------------------------
(* The ledger.                                                              *)

\* The transaction of request r is taken into the ledger: it pays, or uses up its
\* sequence number for nothing.
Take(r, n) ==
  /\ sequence' = sequence + 1
  /\ pending' = {t \in pending : t.seq > sequence + 1}
  /\ IF balance > 0 THEN balance' = balance - 1 /\ applied' = applied \union {<<r, n>>}
     ELSE UNCHANGED <<balance, applied>>

LedgerUnchanged == UNCHANGED <<sequence, balance, pending, applied>>

\* A transaction whose submission timed out is applied after all; POST
\* /transactions/fee-bump, which stores nothing, may help it.
ApplyPending(t) ==
  /\ t.seq = sequence + 1
  /\ Take(t.r, t.n)
  /\ UNCHANGED <<readable, payment, transfers, lost, mishaps>>

-----------------------------------------------------------------------------
(* transferTokens and submit.                                               *)

\* The balance is enough, and the destination has a trustline.
CheckBalance(r) ==
  /\ At(r, {"none"})
  /\ GoTo(r, IF balance > 0 THEN "load" ELSE "refused")
  /\ UNCHANGED <<sequence, balance, pending, readable, transfers, applied, lost, mishaps>>

\* loadAccount; a transaction is built with the next sequence number, for the first
\* time, after tx_bad_seq, and before every fee bump.
Load(r) ==
  /\ At(r, {"load", "refresh", "bump"})
  /\ payment' = [payment EXCEPT ![r] =
       [step |-> IF @.step = "bump" THEN "submit_bump" ELSE "submit",
        n |-> @.n + 1, seq |-> sequence + 1, timeouts |-> @.timeouts,
        refreshed |-> @.refreshed \/ @.step = "refresh", attempt |-> @.attempt]]
  /\ UNCHANGED <<sequence, balance, pending, readable, transfers, applied, lost, mishaps>>

\* Whatever it was loaded for, the request fails.
LoadFails(r) ==
  /\ At(r, {"load", "refresh", "bump"}) /\ Mishap
  /\ GoTo(r, "failed")
  /\ UNCHANGED <<sequence, balance, pending, readable, transfers, applied, lost>>

\* The next fee bump, or none.
Bump(p) ==
  IF p.attempt < MAX_FEE_BUMP_ATTEMPTS
  THEN [step |-> "bump", n |-> p.n, seq |-> p.seq, timeouts |-> p.timeouts,
        refreshed |-> p.refreshed, attempt |-> p.attempt + 1]
  ELSE [p EXCEPT !.step = "failed"]

\* Variant: the loop over the fee bumps goes on after one was accepted.
Answered_KeepsBumping(p, answer) ==
  IF answer = "ok" THEN IF p.step = "submit_bump" THEN Bump(p) ELSE [p EXCEPT !.step = "store"]
  ELSE IF answer = "tx_bad_seq" /\ readable /\ p.step = "submit" /\ ~p.refreshed
  THEN [p EXCEPT !.step = "refresh"]
  ELSE IF answer \in {"tx_bad_seq", "tx_insufficient_fee"} /\ readable THEN Bump(p)
  ELSE IF answer = "timeout" /\ p.step = "submit" /\ p.timeouts < maxTimeoutRetries - 1
  THEN [p EXCEPT !.timeouts = @ + 1]
  ELSE [p EXCEPT !.step = "failed"]

\* What the request does with an answer. Codes that are not read make every refusal
\* one that is not retried.
Answered(p, answer) ==
  IF answer = "ok" THEN [p EXCEPT !.step = "store"]
  ELSE IF answer = "tx_bad_seq" /\ readable /\ p.step = "submit" /\ ~p.refreshed
  THEN [p EXCEPT !.step = "refresh"]
  ELSE IF answer \in {"tx_bad_seq", "tx_insufficient_fee"} /\ readable THEN Bump(p)
  ELSE IF answer = "timeout" /\ p.step = "submit" /\ p.timeouts < maxTimeoutRetries - 1
  THEN [p EXCEPT !.timeouts = @ + 1]
  ELSE [p EXCEPT !.step = "failed"]

Answer(r, answer) ==
  payment' = [payment EXCEPT ![r] = Answered(payment[r], answer)]

Submitting(r) == At(r, {"submit", "submit_bump"})
IsNext(r) == payment[r].seq = sequence + 1
IsApplied(r) == <<r, payment[r].n>> \in applied

\* The ledger takes the transaction, and Horizon answers; or does not in time.
SubmitTaken(r) ==
  /\ Submitting(r) /\ IsNext(r)
  /\ Take(r, payment[r].n)
  /\ \/ /\ Answer(r, IF balance > 0 THEN "ok" ELSE "op_underfunded")
        /\ UNCHANGED <<lost, mishaps>>
     \/ /\ Mishap /\ Answer(r, "timeout")
        /\ lost' = [lost EXCEPT ![r] = @ + 1]
  /\ UNCHANGED <<readable, transfers>>

\* It was taken before, or its sequence number was.
SubmitPast(r) ==
  /\ Submitting(r) /\ ~IsNext(r)
  /\ \/ IsApplied(r) /\ Answer(r, "ok")
     \/ Answer(r, "tx_bad_seq")
  /\ LedgerUnchanged
  /\ UNCHANGED <<readable, transfers, lost, mishaps>>

\* The fee is too low, or Horizon fails.
SubmitRefused(r) ==
  /\ Submitting(r) /\ Mishap
  /\ \E answer \in {"tx_insufficient_fee", "error"} : Answer(r, answer)
  /\ LedgerUnchanged
  /\ UNCHANGED <<readable, transfers, lost>>

\* The answer times out and the transaction is still under way, or is not.
SubmitLost(r) ==
  /\ Submitting(r) /\ Mishap
  /\ Answer(r, "timeout")
  /\ lost' = [lost EXCEPT ![r] = @ + 1]
  /\ pending' = pending \union
       IF IsNext(r) THEN {[r |-> r, n |-> payment[r].n, seq |-> payment[r].seq]} ELSE {}
  /\ UNCHANGED <<sequence, balance, readable, transfers, applied>>

\* storeTransactionResult; a row that cannot be stored does not fail the request.
Store(r) ==
  /\ At(r, {"store"})
  /\ \/ transfers' = transfers \union {r} /\ UNCHANGED mishaps
     \/ Mishap /\ UNCHANGED transfers
  /\ GoTo(r, "submitted")
  /\ UNCHANGED <<sequence, balance, pending, readable, applied, lost>>

Next ==
  \/ \E t \in pending : ApplyPending(t)
  \/ \E r \in Request :
       \/ CheckBalance(r) \/ Load(r) \/ LoadFails(r)
       \/ SubmitTaken(r) \/ SubmitPast(r) \/ SubmitRefused(r) \/ SubmitLost(r)
       \/ Store(r)

-----------------------------------------------------------------------------
Builds == 2 + MAX_FEE_BUMP_ATTEMPTS
Transaction == [r : Request, n : 1..Builds, seq : Nat]
Payment == [step : {"none", "refused", "load", "refresh", "bump", "submit", "submit_bump",
                    "store", "submitted", "failed"},
            n : 0..Builds, seq : Nat, timeouts : 0..maxTimeoutRetries - 1,
            refreshed : BOOLEAN, attempt : 0..MAX_FEE_BUMP_ATTEMPTS]

TypeOK ==
  /\ sequence \in Nat /\ balance \in 0..Balance /\ readable \in BOOLEAN
  /\ pending \subseteq Transaction
  /\ payment \in [Request -> Payment]
  /\ transfers \subseteq Request
  /\ applied \subseteq Request \X (1..Builds)
  /\ lost \in [Request -> 0..MaxMishaps] /\ mishaps \in 0..MaxMishaps

\* A request pays once more than its lost answers at the most, however its
\* transaction is rebuilt; what it reports as submitted was paid, what it reports as
\* failed was not, but for lost answers; and only what was submitted is recorded.
PaidOncePerLoss ==
  \A r \in Request :
    /\ Paid(r) <= 1 + lost[r]
    /\ At(r, {"store", "submitted"}) => Paid(r) >= 1
    /\ At(r, {"failed"}) => Paid(r) <= lost[r]
    /\ r \in transfers => At(r, {"submitted"})
=============================================================================
