---------------------------- MODULE BalanceCache ----------------------------
(* The cached balance of one user. GET /users/:id/balance and its sibling    *)
(* /token-balance read the user, look into Redis, ask Horizon and fill the   *)
(* cache for 30 seconds; what changes a balance deletes the cached one       *)
(* afterwards, if it knows that it is this user's.                           *)
EXTENDS Integers, FiniteSets

CONSTANTS Reader,      \* requests for the balance
          Writer,      \* changes of a balance
          Ttl,         \* ticks an entry is kept
          MaxChanges   \* bound on changes and failures

BalanceCacheAssumption ==
  IsFiniteSet(Reader) /\ IsFiniteSet(Writer) /\ Ttl \in Nat \ {0} /\ MaxChanges \in Nat

Account == {"wallet", "linked"}  \* the address the user registered with, and another one
Quiet == [step |-> "none", account |-> "none", balance |-> -1, excused |-> FALSE]
NoEntry == [account |-> "none", balance |-> -1, left |-> 0, excused |-> FALSE]

VARIABLES balance,   \* of each account, as the number of its changes
          stellar_public_key, \* the account whose balance is shown
          entry,     \* the cached balance
          reading,   \* the step of each reader, and what it has read
          writing,   \* the step of each writer, and the account it has changed
          changes,
          faults,
          stale      \* history: a balance was served that a change had made obsolete and
                     \* its writer had deleted from the cache

cacheVars == <<balance, stellar_public_key, entry, reading, writing, changes, faults, stale>>

Init ==
  /\ balance = [x \in Account |-> 0]
  /\ stellar_public_key \in Account
  /\ entry = NoEntry
  /\ reading = [r \in Reader |-> Quiet]
  /\ writing = [w \in Writer |-> [step |-> "none", account |-> "none"]]
  /\ changes = 0 /\ faults = 0 /\ stale = FALSE

ReadAt(r, step) == reading[r].step = step
WriteAt(w, step) == writing[w].step = step
Change == changes < MaxChanges /\ changes' = changes + 1
Fault == faults < MaxChanges /\ faults' = faults + 1

\* Reader r is about to fill the cache with a balance of the account.
Late(r, account) == ReadAt(r, "fill") /\ reading[r].account = account

\* A change nobody will delete the cached balance for: what is cached, and what is
\* about to be, is excused.
ExcuseReaders(account) ==
  reading' = [r \in Reader |->
    IF Late(r, account) THEN [reading[r] EXCEPT !.excused = TRUE] ELSE reading[r]]

Excuse(account) ==
  /\ entry' = IF entry.account = account THEN [entry EXCEPT !.excused = TRUE] ELSE entry
  /\ ExcuseReaders(account)

\* A writer that has changed the balance of the account will delete its entry.
Awaited(account) == \E w \in Writer : WriteAt(w, "delete") /\ writing[w].account = account

-----------------------------------------------------------------------------
(* Readers.                                                                 *)

\* The user's row.
ReadUser(r) ==
  /\ ReadAt(r, "none")
  /\ reading' = [reading EXCEPT ![r] = [step |-> "look", account |-> stellar_public_key,
                                        balance |-> -1, excused |-> FALSE]]
  /\ UNCHANGED <<balance, stellar_public_key, entry, writing, changes, faults, stale>>

\* An entry is served as it is, with the account of the row; without one, or without
\* Redis, Horizon is asked, or an error of Redis is the answer.
LookUp(r) ==
  /\ ReadAt(r, "look")
  /\ \/ /\ entry # NoEntry /\ UNCHANGED faults
        /\ reading' = [reading EXCEPT ![r] = Quiet]
        /\ stale' = (stale \/ (~entry.excused /\ entry.balance < balance[entry.account]
                               /\ ~Awaited(entry.account)))
     \/ /\ \/ entry = NoEntry /\ UNCHANGED faults
           \/ Fault
        /\ reading' = [reading EXCEPT ![r].step = "ask"] /\ UNCHANGED stale
     \/ Fault /\ reading' = [reading EXCEPT ![r] = Quiet] /\ UNCHANGED stale
  /\ UNCHANGED <<balance, stellar_public_key, entry, writing, changes>>

Answer(r, value, excused) ==
  [step |-> "fill", account |-> reading[r].account, balance |-> value, excused |-> excused]

\* A query that fails is answered with an error, or as a balance of 0 that is cached
\* like any other.
Ask(r) ==
  /\ ReadAt(r, "ask")
  /\ \/ /\ reading' = [reading EXCEPT ![r] = Answer(r, balance[reading[r].account], FALSE)]
        /\ UNCHANGED faults
     \/ Fault /\ \E x \in {Quiet, Answer(r, 0, TRUE)} : reading' = [reading EXCEPT ![r] = x]
  /\ UNCHANGED <<balance, stellar_public_key, entry, writing, changes, stale>>

\* SETEX, after the answer or before it; or it fails.
Fill(r) ==
  /\ ReadAt(r, "fill")
  /\ reading' = [reading EXCEPT ![r] = Quiet]
  /\ \/ /\ entry' = [account |-> reading[r].account, balance |-> reading[r].balance,
                     left |-> Ttl, excused |-> reading[r].excused]
        /\ UNCHANGED faults
     \/ Fault /\ UNCHANGED entry
  /\ UNCHANGED <<balance, stellar_public_key, writing, changes, stale>>

-----------------------------------------------------------------------------
(* Writers.                                                                 *)

\* Variant: the cached balance is deleted before the balance changes.
Transfer_DeletesFirst(w, account) ==
  /\ WriteAt(w, "none") /\ Change
  /\ balance' = [balance EXCEPT ![account] = @ + 1]
  /\ entry' = IF entry.account = account THEN entry ELSE NoEntry
  /\ UNCHANGED <<stellar_public_key, reading, writing, faults, stale>>

\* walletService, the issuances, the campaigns' distribution, refunds and referral
\* bonuses change a balance ...
Transfer(w, account) ==
  /\ WriteAt(w, "none") /\ Change
  /\ balance' = [balance EXCEPT ![account] = @ + 1]
  /\ writing' = [writing EXCEPT ![w] = [step |-> "delete", account |-> account]]
  /\ UNCHANGED <<stellar_public_key, entry, reading, faults, stale>>

\* ... and delete the entry of the user who registered with that account; nobody is
\* found for one that was only linked, and the deletion may fail. A reader that has
\* asked before it is about to fill the cache with the old balance.
DeleteEntry(w) ==
  /\ WriteAt(w, "delete")
  /\ LET account == writing[w].account IN
     \/ /\ account = "wallet"
        /\ entry' = NoEntry
        /\ ExcuseReaders(account)
        /\ UNCHANGED faults
     \/ account = "linked" /\ Excuse(account) /\ UNCHANGED faults
     \/ account = "wallet" /\ Fault /\ Excuse(account)
  /\ writing' = [writing EXCEPT ![w] = [step |-> "none", account |-> "none"]]
  /\ UNCHANGED <<balance, stellar_public_key, changes, stale>>

\* Batches, daily bonuses and inbound actions give points and delete nothing.
AwardPoints(account) ==
  /\ Change
  /\ balance' = [balance EXCEPT ![account] = @ + 1]
  /\ Excuse(account)
  /\ UNCHANGED <<stellar_public_key, writing, faults, stale>>

\* PATCH /users/:id links another account; the cached balance stays.
Relink ==
  /\ Change
  /\ \E account \in Account \ {stellar_public_key} : stellar_public_key' = account
  /\ UNCHANGED <<balance, entry, reading, writing, faults, stale>>

Tick ==
  /\ entry # NoEntry
  /\ entry' = IF entry.left = 1 THEN NoEntry ELSE [entry EXCEPT !.left = entry.left - 1]
  /\ UNCHANGED <<balance, stellar_public_key, reading, writing, changes, faults, stale>>

Next ==
  \/ Tick \/ Relink
  \/ \E account \in Account :
       AwardPoints(account) \/ \E w \in Writer : Transfer(w, account)
  \/ \E w \in Writer : DeleteEntry(w)
  \/ \E r \in Reader : ReadUser(r) \/ LookUp(r) \/ Ask(r) \/ Fill(r)

-----------------------------------------------------------------------------
TypeOK ==
  /\ balance \in [Account -> 0..MaxChanges] /\ stellar_public_key \in Account
  /\ entry \in [account : Account \union {"none"}, balance : -1..MaxChanges, left : 0..Ttl, excused : BOOLEAN]
  /\ reading \in [Reader -> [step : {"none", "look", "ask", "fill"}, account : Account \union {"none"},
                             balance : -1..MaxChanges, excused : BOOLEAN]]
  /\ writing \in [Writer -> [step : {"none", "delete"}, account : Account \union {"none"}]]
  /\ changes \in 0..MaxChanges /\ faults \in 0..MaxChanges /\ stale \in BOOLEAN

\* A balance that a change made obsolete is not served after its writer deleted it,
\* unless a reader had asked before the change or its query had failed, or the change
\* deletes nothing.
ServedIsCurrent == ~stale
=============================================================================
