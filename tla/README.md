# TLA+ models of Nova Rewards

Nova Rewards is a loyalty platform on Stellar. Soroban contracts (Rust, under
`contracts/`) hold tokens, vesting schedules, escrows, stakes and votes; a Node
backend (`novaRewards/backend`) keeps points and rewards in PostgreSQL, queues
jobs in Redis through BullMQ and pays tokens through Horizon; a Next.js frontend
signs transfers in the browser; scripts deploy the asset, migrate, encrypt and back
up the database. This directory models the parts whose correctness depends on
orders of events that tests hardly reach, checks them with TLC and proves the most
important of the results with TLAPS.

    tlc -config NovaToken.cfg MCNovaToken      a run (module and config below)
    tlapm ContractProofs.tla                   the proofs of a module

`PROJECT.json` lists the runs, the lines of code every definition stands for,
the hazards with the properties that guard against them, one mutant of the
model for every property, and the theorems.

## The system and its hard parts

### Contracts

A contract invocation is atomic: it runs alone, and an `Err` or a panic
discards everything it wrote. What makes contracts hard is not concurrency
but *protocol*: any caller may send any invocation at any time, in any order,
with the clock moving in between, with integers of fixed width, and with other
contracts (the token) changing under it.

| component | state | operations | what must hold |
|---|---|---|---|
| `nova_token` | admin, balances, total supply, allowances with an expiry ledger | initialize, mint, burn, transfer, transfer_from, approve, increase, decrease | supply equals balances; nobody's balance falls without a signature or a live allowance |
| `vesting` | admin, pool, schedules (cliff, duration, released, revoked) | fund, create, claim, revoke | never pays more than vested; entitlement only grows; the pool accounts for deposits |
| `governance` | admin, quorum, proposals, who voted; reads the token's balances and supply | propose, vote, finalise, execute, set_quorum, approve_upgrade | tallies are holdings, decisions are final, a percentage quorum can be reached |
| `escrow` | admin, escrows, id counter | create, fund, release, refund, approve_upgrade | deposits stay in their owner's escrows and settle once, as agreed |
| `treasury` | cap, period, withdrawn in the period, total | deposit, withdraw, set cap and duration | the counters are the withdrawals; bursts are bounded |
| `reward_pool` | fee, treasury, lock; moves the token | deposit, withdraw in two transfers, set fee, treasury and lock | two transfers conserve tokens; only the pool pays |
| `redemption` | expiry per campaign, rewards by user | issue, redeem, reclaim after expiry | what is issued is redeemed, reclaimed or replaced, once; the window decides |
| `referral` | referrals, counters, pool | fund, register, claim | counters are referrals; both parts of a reward are covered |
| `contract_state` | version, values, snapshots per version | set, delete, snapshot, migrate, recover, approve_upgrade | snapshots of past versions never change |
| `nova-rewards` | balances, stakes, rate, pause, snapshots, recovery operations | stake, unstake, claim, swap, pause, emergency pause, snapshot, restore, recover | balance and stake are what the account was given and gave, through every restore; yield is bounded; a recovery applies once |
| `campaign`, `admin_roles`, `distribution` | — | — | not modelled: the sources join two versions of each contract and do not compile |
| `errors`, integration tests, fuzz targets | — | — | no state of their own |

Interactions: governance reads the token's balances and supply when votes are
cast and proposals finalised; the reward pool calls the token twice in a
withdrawal; upgrades of escrow, governance and contract_state share one
multisig scheme. The other contracts record amounts and call nobody.

### Backend

Here the difficulty is concurrency and failure: requests interleave at every
`await`, several servers may run, clients repeat requests, jobs are retried,
workers and servers stop, and Horizon's answers get lost.

| component | state | operations | hard behaviour | what must hold |
|---|---|---|---|---|
| point ledger | `user_balance`, `point_transactions` with a trigger, `rewards`, `redemptions` | redeem with an idempotency key, record a transaction, administer rewards, daily bonus | row locks, unique index, READ COMMITTED, failures, crashes | no stock or balance is spent twice or lost; everything ends |
| campaign distribution | BullMQ jobs; the account's sequence number on Stellar | start, batch, submit, retry, stall | concurrent submissions with one sequence number, lost answers, restarted jobs | nobody is paid twice in a run; only the paid are reported |
| reward issuance | `reward_issuances`, queue, dead-letter queue, failures table | enqueue, process, retry, fail | crash between the row and the queue, retries | every queued job has its row; a failure is kept, and final but for a last attempt cut short between row and queue; every row ends |
| contract event stream | `contract_events`, cursors | insert with cursor, dispatch, retry loop, backfill | handlers that overlap, replay after a crash, connections that start from now | in order and once while events come one at a time, but for what a connection passed over; every row ends |
| webhooks | deliveries with attempts and backoff | dispatch, attempt, poll | several servers poll the same rows; a POST whose outcome is lost | accepted once but for lost answers and overlaps; delivered or exhausted |
| referral bonuses, drops | bonus transactions, claims | check, then insert | two requests between check and insert | more than once only by a race |
| batches, inbound actions, list jobs | jobs in BullMQ or on a Redis list, awards, payments | queue, run, report, retry | a worker dies between two items or after taking a job; a payment whose answer is lost | an item once per run; a payment once and once per lost answer; true summaries |
| accounts | `users`, login challenges in Redis | register, update, delete, challenge, verify | every request is a chain of statements | a challenge is used up; a deleted account stays anonymous |
| sessions and tokens | refresh and reset tokens | login, refresh, logout, reset | two refreshes, or a refresh and a reset, at once | active tokens are bounded by logins and races; a reset token is used up |
| Stellar access | the account's sequence number, pending transactions | pay, retry, rebuild, fee bump | an answer lost for a payment that was applied | paid once, and once more only for a lost answer |
| transactions | `transactions` | record, refund, reconcile, list by cursor | two refunds, refunds recorded by hand; rows of one millisecond, in either direction | refunded by `processRefund` and reported once; pages complete and without repetition |
| request guards | idempotency keys, rate limit window, failed logins, circuit breaker | — | check, handle, store; Redis fails at any of them, and the request passes | handled once but for overlaps; limits kept but for what Redis failed to count |
| caches | the balance in Redis | read through, invalidate | a reader that fills the cache after the writer emptied it; a failed query cached as 0 | obsolete balances only for a time to live after an overlap or a failure |
| administration, search, analytics, reports, audit, messages, flags, governance routes | — | reading, formatting, sending | — | — |

### Operations and the browser

| component | state | operations | hard behaviour | what must hold |
|---|---|---|---|---|
| deployment scripts | trustlines, balances and flags on the ledger, logs, the state file | deploy, verify, rollback | cut short, run twice, answers lost | the supply is issued once; the state file has its supply |
| field encryption | encrypted columns, the servers' keys | initial encryption, key rotation in batches | servers on old and new keys, rows that come and go | every server reads every row; a clean run leaves none behind |
| migrations | the schema, `schema_migrations`, files | up, down | runs at the same time, one clock value for all of a run | the schema is what is recorded |
| backups | files, manifests | back up, expire, plan a restore | two servers in one millisecond, a crash between file and manifest | one backup is always kept; a plan restores what was there |
| API client | tokens, queue of waiting calls | call, refresh, retry, answer from the cache | calls refused while a refresh is under way, or after it for the old token | nobody waits for ever; a write again only for a lost answer |
| wallet in the browser | the connected wallet, its balance | connect, switch, refresh, read from the API, disconnect | answers that cross, three writers of one balance | the balance shown is of the wallet shown or of the user's linked one |
| history and poller | loaded pages, a transaction's status | load, retry, poll | a page fails; two polls overlap | no gaps; the status shown is the verdict |
| transfer form | tabs, the signature, the ledger, the record | check, sign, submit, record | lost answers, several tabs | what was paid is told and recorded |

The NestJS code in `apps/api` is a second, partial backend that no compose
file, chart or workflow builds. The other pages and components of the frontend, the
SDK and the infrastructure (`infra`, `terraform`, `k8s`, `helm`, `monitoring`) hold
no state of this kind.

## Modules

| module | models | built from |
|---|---|---|
| `NovaToken` | contracts/nova_token | `Totals` |
| `Vesting` | contracts/vesting | `Totals` |
| `Governance` | contracts/governance, composed with the token | `NovaToken` (INSTANCE) |
| `Escrow` | contracts/escrow | `Totals` |
| `ContractState` | contracts/contract_state, with `approve_upgrade`, the same code in three contracts | |
| `Treasury`, `Redemption`, `Referral` | the contracts of these names | `Totals` |
| `RewardPool` | contracts/reward_pool, composed with the token | `NovaToken` (INSTANCE) |
| `Contracts` | the eight contracts above but the token, side by side | one module per contract (INSTANCE) |
| `NovaRewards` | contracts/nova-rewards, and its proofs | `TotalTheorems` |
| `PointLedger` | the point ledger of the backend, statement by statement; its proofs | `TotalTheorems`, `AtomicLedger` (INSTANCE, what it implements) |
| `AtomicLedger` | what the ledger promises: each operation at one moment | |
| `Distribution` | bulk distribution, BullMQ and the network; its proofs | |
| `EventStream`, `Issuance`, `Webhooks`, `Claims` | contract events; reward issuance; webhooks; drops and referral bonuses | |
| `BatchJobs`, `InboundActions`, `ListJobs` | the other queues | |
| `ApiClient`, `WalletSession`, `ClientFeeds`, `ClientTransfer` | the browser | |
| `Jobs` | the eleven modules of the three rows above, side by side | one module per component (INSTANCE) |
| `Accounts`, `Sessions` | users and logins; refresh and reset tokens | |
| `Payments`, `Transactions` | payments from one Stellar account; their rows | |
| `Guards`, `BalanceCache` | middleware and circuit breaker; the cached balance | |
| `Deployment`, `FieldEncryption`, `Migrations`, `Backups` | the scripts and jobs of these names | |
| `Totals`, `TotalTheorems` | the sum of a function over a finite set; lemmas on sums, and on sizes and orders of finite sets | |
| `Services` | the ten modules from `Accounts` to `Backups`, side by side | one module per component (INSTANCE) |
| `NovaTokenProofs`, `ContractProofs`, `JobProofs`, `ServiceProofs` | proofs | the modules they name |
| `MC*` | small instances for TLC | `MCNovaToken` extends `NovaToken`, `MCContracts` extends `Contracts` |

`Contracts`, `Jobs` and `Services` hold components that share no state. They
choose one at the start and let only its actions happen, so that the states are the sum
of the components' states and not their product; a property of such a run is the
conjunction of what the components promise, each part named in its own module. `Jobs`, `Services`,
`NovaRewards` and `PointLedger` are run without an MC module: their configurations give the constants
as sets and numbers. Where
components do share state they are composed: governance and the reward pool with the token,
the bulk distribution with the account's
sequence number.

### How state and actions correspond to the code

*Contracts.* A variable is a storage key (the comment beside it names the
`DataKey`); a key that was never written has a value of its own, a constant
`NoX` that is no stored value. One action is one invocation: its guards are the
code's early returns, panics and trapping arithmetic, which all leave the state
as it was, and its inputs include values the code has to refuse. Time and the
ledger sequence are variables that a separate action moves on. Authorisation is
the set of addresses that signed, where a property depends on it. Variables marked
*history* exist for the properties only.

i128::MAX, u64::MAX and 10 000 basis points are constants (`MaxAmount`,
`MaxU64`, `BpsDenominator`), small in the runs. Checked arithmetic becomes a
guard, saturating arithmetic a saturation, and both are reached.

*PointLedger.* A request has a transaction record: the statement it has
finished, what it has read, and by that the rows it has locked. One action is
one statement that reads, waits or commits. `SELECT … FOR UPDATE`
(`LockReward`, `LockBalance`, `LockForRecord`) is enabled only when no open
transaction holds the row. What a transaction writes appears in the tables in
its commit action, because other transactions do not see it before: the trigger
`sync_user_balance` writes `balance_after` whatever the balance is, so the
commit stores the balance computed from the earlier read. The unique index on
`idempotency_key` is `KeyInserted`: the insert waits for an open transaction
with the key and fails when that key is committed. The daily bonus job runs its
insert and its mark as two statements. A crash rolls every open transaction back.

*Distribution.* A task is a recipient of a job, with its attempt; a transaction
in flight carries the sequence number its attempt loaded. The network applies a
transaction only with the next number, refuses one that is stale, or drops it; an
answer may be lost while the transaction is still to be applied. A worker that
dies makes its jobs run again from the first recipient, until they have stalled
too often. For each recipient three histories say of which attempts the network
refused the number, of which it applied another transaction of the account meanwhile,
and which failed for another reason; `RefusedByProgress` compares them attempt by
attempt.

*Backend services and jobs.* A request, handler, worker or server is a record with
the step it is at and what it has read; an action is the work between two `await`s: one
statement, one command to Redis, one call. What is answered to a client matters only
where a client acts on it. What the environment does (a crash, a lost answer, an expired
key) is an action with a bound on how often (`MaxMishaps` and its like). Where the code does
promise less than "once", a *history* variable counts what explains the surplus (`together`:
requests that held one challenge at the same time; `lost`: answers that were lost), and
the property says that nothing else does.

*Scripts and browser.* The same: an operator runs a script, and a step of it is one
command or call, after which it may be cut short. In the browser one action is what runs
between two turns of the event loop; answers arrive late and in any order.

## Runs

| run | shows | bounds |
|---|---|---|
| `nova_token` | supply = balances until an i128 saturates (and is covered even then); balances fall only with a signature or by a live allowance; a spender's power grows only with the owner's signature | two accounts, amounts up to a small i128, three ledgers |
| `contracts` | treasury, reward pool with the token, redemption, referral, contract_state with upgrade approvals, vesting, governance with the token, escrow: what they record is what was paid or voted; what is settled stays so | see the comments of `MCContracts`: two accounts, schedules or escrows each, amounts and times up to every boundary |
| `vesting_funding` (violation) | a revocation returns tokens to the pool that were never taken out of it | as above |
| `nova_rewards` | an account's balance and stake are together what it was given less what it gave, in any order of staking, snapshots and restores; yields within the maximum rate, an earlier restore's included; a recovery id applies once | two users, two ids, a year of one unit, an i128 of -3..2 |
| `rewards_pause` (violation) | an emergency pause blocks users after its time | as above |
| `point_ledger` | stock and redemptions agree; the interleaved statements implement `AtomicLedger`; every request and every bonus job ends | one user, one reward, two keys, two requests, one midnight |
| `daily_bonus` (violation) | the bonus replaces the user's balance | as above |
| `distribution` | paid at most once per run and lost answer; the result names only the paid; an attempt is refused only after another transaction of the account was applied since it loaded the account, and a recipient is given up only when every attempt was refused so, not sent, not funded or not answered | three recipients, batches of two, two attempts, one stall |
| `jobs` | the background work of the backend: exactly once where nothing overlaps or is lost, bounded surplus where it does, and everything settles again and again; what a browser waits for, shows and tells | see `Jobs.cfg`: two requests or servers, one to three items, one to three mishaps |
| `events_once` (violation) | an event that is delivered again is stored again | as above |
| `services` | accounts, sessions, payments, transactions, guards, cache, deployment, encryption, migrations and backups | see `Services.cfg`: two or three of whatever overlaps, one to three mishaps |
| `token_reuse` (violation) | a revoked refresh token is rotated | as above |

Every property has a mutant: a change of one definition that a slip in the code
would make, under which TLC finds the property violated.

### Why the bounds are enough

* The contracts' properties relate at most two accounts, two schedules or two
  escrows at a time; a second one is what a first can be confused with. In the
  token a third account adds only a further pair; the proofs hold for any number.
* Amounts reach every boundary the code has: zero, one, equality with the
  balance, a product or a sum that does not fit. In `nova_rewards` a year is one unit
  of time and the rate is one half, so yields are truncated, and `set_balance` stores the largest i128 and a negative one; in `governance` and `reward_pool` percentages are halves, so rounding
  happens with few units. Governance has one amount to mint and three ledgers, enough for a
  proposal to be voted on, finalised after its period, passed or rejected, and executed.
* Contention in the ledger is per row. Two requests on the same row, the same
  key or both show every conflict of two transactions; a third can only wait for
  one of them. The proofs hold for any number of each.
* Distribution needs a recipient that shares a batch, one in a later batch, one
  that cannot be paid, a retry, and a run after a stall. The proofs hold for any.
* The races of `jobs` and `services` are between two requests, servers, runs or
  tabs; a third takes part where order matters among those that wait or were served
  (the rate limiter, the API client, three events or recipients). Thresholds
  of the code (five failures, three bumps) are smaller where they are parameters, so that
  the instance reaches both sides of each. Two of them are reached in one component only: a
  failed contract event is repeated once (`EventRetries` = 1; with two the run no longer ends
  within minutes, and the theorem on events holds for any number), and `Services` has
  two reset tokens, so that a second one invalidates the first.
* Mishaps are limited to what it takes to make them meet: one of each pair in a
  sequence, or two where a retry can fail again.

### Fairness

Two runs check liveness.

`point_ledger` (`AllEnd`): a request's next step is strongly fair: PostgreSQL queues
the waiters of a row and serves them in turn, so a request whose row is free again and
again gets it. The bonus job is strongly fair for the same reason. Rollbacks, failures,
crashes and new requests are not required to happen. No request holds a row while it
waits for one that another, waiting for the first, holds: the reward is always locked
before the balance, and the key is inserted last.

`jobs` (`EverythingSettles`): the timers of the event loop and of the webhook poll fire
again and again, BullMQ hands waiting jobs to the worker, and a step that has begun is
awaited. These are weakly fair; the retry loop of contract events is strongly fair,
because a handler may take a row between two of its turns. Clients, the browser, the network,
failures and crashes are not required to do anything. The property is `[]<>`: new work may always come,
but again and again none is left.

The other runs state safety only. A step in `services`, or of the browser, may be the last
one: a tab is closed, a script is interrupted, a client gives up, and the code promises nothing then.

## Proofs

For every value of the constants (any set of accounts, users, rewards, keys, jobs and
concurrent requests; only finiteness and ranges are assumed: `TokenAssumption`,
`LedgerAssumption`, `RewardsAssumption`, `DistributionAssumption`, `ContractAssumptions`,
`JobAssumptions` and `ServiceAssumptions`; the runs evaluate all of them):

| module | theorem | says |
|---|---|---|
| `NovaTokenProofs` | `TokenTypeCorrect`, `SupplyIsAlwaysHoldings`, `SupplyIsAlwaysCovered` | the token's invariants |
| | `DebitsAlwaysAuthorized` | no debit without a signature or a live allowance, as an action property |
| | `SpendingPowerAlwaysFromOwner` | what a spender may take grows only by the owner's signature, as an action property |
| `PointLedger` | `LedgerTypeCorrect` | balances and stocks stay in range: no CHECK constraint ever has to refuse a write of the modelled transactions |
| | `ReadsStayCurrent` | locks are exclusive, and what was read under a lock is current when it is used |
| | `StockIsAccounted` | stock and redemptions account for each other |
| | `LedgerAppearsAtomic` | the ledger implements `AtomicLedger`: each redemption, recorded transaction and change by an administrator appears to happen at one moment |
| | `CommitsMoveBalances` | each commit moves a balance by exactly what it records (`BalanceMoves`) |
| `ContractProofs` | `ContractsTypeCorrect` | stored values keep their types and widths, in all eight contracts |
| | `WithdrawalsAlwaysAccounted` | the treasury's counters are the withdrawals, and no window of a period's length takes more than the caps in force allow twice |
| | `FeesAlwaysFromPool` | a withdrawal's two transfers conserve tokens, also between the two |
| | `IssuedAlwaysAccounted` | every reward is claimable, redeemed, reclaimed or replaced |
| | `ReferralsAlwaysAccounted` | counters are referrals, and pool and payouts account for the funding |
| | `VersionsAlwaysKept` | snapshots of past versions are kept; an upgrade has as many different signers as the threshold |
| | `VestingAlwaysAccounted` | paid ≤ vested ≤ granted, the pool accounts for deposits, payouts and returns, and no arithmetic of a schedule can trap |
| | `VotesAlwaysCounted` | tallies are the holdings of the voters at their votes; a percentage quorum can be reached |
| | `DepositsAlwaysKept` | every deposit is in an escrow of its depositor, unless escrows were made before `initialize` |
| | `AlwaysSettledForGood` | as an action property: only the pool pays, the window of the issue decides, entitlements only grow, decisions and settlements are final |
| `NovaRewards` | `RewardsTypeCorrect`, `PointsAlwaysAccounted`, `YieldAlwaysBounded` | the stored values keep their widths whatever i128 `set_balance` stores; of each account, balance and stake are together what it was given less what it gave, through every restore, and only `set_balance` makes a balance negative; what a stake is paid stays within the maximum rate |
| | `RecoveryAlwaysRecorded` | as an action property: while paused, only a recovery under a new id changes anything |
| `Distribution` | `DistributionTypeCorrect`, `AlwaysPaidOncePerRun`, `ResultsAlwaysTrue`, `RefusalsMeanProgress` | paid once per run and lost answer; only the paid are reported; a stale number means that another transaction was applied since the attempt loaded the account, and who is given up has used every attempt |
| `JobProofs` | `JobsTypeCorrect` | stored values keep their types, in all eleven components |
| | `EventsAlwaysOnceInOrder` | while events come one at a time, the table holds them in order and once, over crashes, retries and backfills, but for those a connection that does not resume passed over |
| | `IssuancesAlwaysAccounted` | a job has its row, "failed" is final but for a last attempt between its two writes or cut short there, a failure is kept |
| | `DeliveriesAlwaysBounded` | deliveries are accepted once, but for what is lost or overlaps; POSTs are bounded; a pending delivery has a sender |
| | `AlwaysGivenOnce` | claims and bonuses beyond one are those that passed the check together, and all are qualified |
| | `RunsAlwaysAccounted` | an item at most once per run, an award once per post and death, a payment once and once per lost answer |
| | `ClientsAlwaysHold` | in the browser: calls that wait for a token are released, and a write is repeated only for a lost answer; the balance shown is of the connected or the linked wallet and the status is the transaction's verdict; the history has no gaps; a payment is told and recorded but for what was lost |
| `ServiceProofs` | `ServicesTypeCorrect` | stored values keep their types, and counters their bounds, in all ten components |
| | `IdentityAlwaysHolds` | challenges and reset tokens are used up but for requests that held them together; a deleted account stays anonymous; active refresh tokens are logins and refreshes that raced |
| | `MoneyAlwaysAccounted` | a payment is applied once and once more per lost answer; `processRefund` refunds a transaction once, whatever refunds are recorded besides, and a reconciliation reports a row once; a listing in either direction shows every row and each once, but for the millisecond in which a page ends |
| | `GuardsAlwaysHold` | a key is handled once, a window keeps its limit for what Redis counted, failures expire, what is served was not deleted, each but for the overlap or fault that the property names |
| | `OperationsAlwaysAccounted` | the supply is issued again only where scripts overlapped; servers read every row while the keys rotate; the schema is what is recorded; the planned backup is there, and was complete in time |
| `TotalTheorems` | `TotalMove` | moving an amount between two accounts keeps their sum |

*Sums.* A total is the cardinality of a set of units (`Totals`), so what one
changed entry does to a sum (`TotalChange`, `TotalMove`) follows from the
cardinality theorems without induction.

*The token* needs no strengthening but its types: each operation changes one or
two balances and the supply by amounts its guards bound.

*The ledger.* None of its properties is inductive: that a commit may store
`before - points` depends on what happened since `before` was read. The
invariant is `IInv == TypeOK /\ LocksExclusive /\ ReadsCurrent`: no two requests
hold the same reward, balance or key, and what a request has read (a stock that
is positive and whose reward is active at the cost that was read, a balance that equals
`before` and covers the points, a key without a row) is still so. One lemma per action shows that it is kept; `FinishKeeps`,
`BeginKeeps` and `RewardRowKeeps` are shared. `StockInv` adds that a reward that
does not exist has no redemptions. `StockAccounted` and `BalanceMoves` then follow
step by step. So does the refinement: the abstract state is the three tables, the commit of
a redemption is `Redeem`, that of a recorded transaction `Record`, the insert of the bonus
`GrantBonus`; every other statement stutters. That `Redeem` is enabled at the commit is just
what `ReadsCurrent` says.

*Vesting.* What has vested is monotone in time only for a schedule that
`create_schedule` accepted, so the invariant keeps its guards (`Sound`): the dates fit u64, the product
fits i128, and what was revoked is within the grant. That released ≤ vested is
inductive follows from `VestedBounds`. In addition ids are fresh (`k[2] < nextId[k[1]]`), so
that creation overwrites nothing, and the pool is empty before `initialize`, which resets it.

*Treasury.* The bound on a burst compares the withdrawals of any window of a period's length
with twice the cap, and a window meets at most two periods. `TreasuryInv` therefore says what
every stretch that ends where the running period begins has seen (one cap at most), that
nothing is recorded beyond the clock or the end of the period, and that nothing was before
`initialize`; the step that begins a new period turns the first into the next.

*Reward pool.* The fee taken is compared with the highest rate ever in force, so `PoolInv` keeps
the current one below it; between the two transfers of a withdrawal the sum of the token's
balances is unchanged because each is a `TotalMove`. A token that is not initialised has no
supply, or its `initialize` would lose what was minted.

*Redemption and referral.* The stored expiry is that of the window in force at the issue
(`Windowed`), without which neither invocation could be placed in time; in `Referral` the pool is
empty before `initialize`. The sums change in one entry per step (`Totals`).

*contract_state and upgrades.* `UpgradeInv`: a list of approvals names each endorser of its hash once,
and only configured signers, so that its length is the number of different signers that the threshold is
compared with. `StateInv` adds that nothing is ever stored under the empty key, to which a recovery
would otherwise restore, and that no version exists before `initialize`.

*Governance.* `TokenInv` repeats for the governed token what `NovaTokenProofs` shows: the supply is the sum of the
balances until a mint saturates, and never more. `GovInv` adds that the tallies are not negative and that
every quorum that was accepted is positive and at most one hundred per cent; a percentage of the supply
is then at most what the holders own together, so that it can be reached. That a tally is what
its voters hold is kept by each vote adding one holding (`TotalInsert`), for as long as no holding moves.

*Escrow.* `EscrowAgreed` keeps on record who asked for a release before the timeout. An escrow
is never overwritten because ids from the counter on are free (`EscrowInv`), as long as `initialize`
has not reset the counter over existing escrows, the case that the property excludes.

*The contracts together.* `StepOfEach`: a step of the composition is a step or a stutter of each contract. The
invariant is the conjunction `ContractInv`, and every property that the runs check follows from it.

*nova-rewards.* `RewardsInv` adds to the properties that a stake, and the copy of it in a snapshot, was paid
within the maximum rate over the time it has existed, and that the copies of balance and stake in a snapshot account
for each other (`SnapshotsBounded`, `SnapshotsAccounted`): a restore brings the copies back, and would otherwise bring back
an entitlement, or a stake beside the points it was paid back as. What an account was given and gave (`credited`) and what
its stake has earned are part of the snapshot, because a restore is meant to undo both; a restore of one of the two
alone breaks the sum.

*Contract events.* "Once and in order" cannot be seen from the table alone. `OrderInv` says what holds as long as events
came one at a time: one handler at most has received an event, nothing that the table accepts lies between
the cursor and the event that the stream delivers next, and the rows lie between the first one and
the cursor without gaps. That a retry count is bounded needs to count who may still
fail a row: the passes that have it to do and the handler that stored it (`EventRowInv`). `missed` are the events that
happened before a connection that starts from now; no other event is passed over.

*Issuance.* The interplay of request, row, job and worker is one case distinction on the state of the job (`KeyInv`): a
job that waits or runs has a pending row, attempts left and no trace of giving up; one that failed is
out of attempts, unless ineligible, and its failure is in the table when it is about to be removed. Between the row's
mark and the queue's move the last attempt is `marked`; a server that dies there leaves a failed row to a job that runs again.
A request that is to queue a job is the only one, and its key is untouched (`RequestsInv`). Attempts are
counted by what ended, stalled or runs (`AttemptsCounted`).

*Webhooks.* What a server read before its POST is still the row, unless another server has stored the outcome of the same
attempt (`SenderInv`). While a row is due, the POSTs beyond what its attempt accounts for are those of the servers that
send it (`PostedInv`); when its outcome is stored, the attempt counts one for every server. `CleanInv`
says who may send a delivery for which nothing was lost: one server, and none after acceptance.

*Claims.* Recorded claims and the requests that passed the check and have not recorded yet are together
at most the limit and those that raced (`ClaimsCounted`); the same for bonuses. *Batches*: an item that the present
run has not reached was applied fewer times than there were runs. *Inbound actions*: awards are the ends of posts and stalls, and the
one award under way is told by its step. *List jobs*: the id is in the list or with one worker at most, and
`pending` and `failed` never name a recipient whose payment was answered, and of the payments of a recipient all but
the last were not heard of.

*API client.* While a token is refreshed exactly one call refreshes it, and the queue holds just the calls that wait (`OneRefresh`),
so that both ends of a refresh release all of them. A call is sent once per attempt, and once more for its
one retry after a refresh (`SentPerAttempt`); a refusal belongs to the token that the call was sent with, which may have been
replaced meanwhile, so that a late one starts a second refresh; a write that is not answered yet was handled once per lost answer (`WrittenIfDone`).

*Wallet.* What a read brings, and what is shown, is of the connected wallet, or of the linked one that the header asks for, unless one was exchanged under way (`OfKey`), and a read
that is alone on its way brings nothing older than what is shown (`Alone`); both rest on reads never having more than the wallet
now has, since a balance in the model only grows.

*History and poller.* The list is an interval of the transactions that ends where its first page began (`Extent`), and the cursor of the
next page is its lower end, as long as there is one. A fetch is for the page shown or the one after it (`Fetching`), and the
first repeats a page, which the code appends a second time; from that the set shown is still without gaps.

*Transfers.* Sequence numbers are taken in the order in which transactions are built (`SentSound`, `SequenceTaken`), a
transaction belongs to the tab that built it until that tab is done (`FormsSound`), and one in the pool is waited for by its tab or was
given up with its answer lost (`PoolWatched`).

*The jobs together.* As for the contracts: `StepOfEach`, `JobInv`. Fairness plays no part in the safety proofs.

*Accounts and sessions.* A challenge still in Redis was deleted by nobody, so that all its logins are counted among its
readers (`ChallengeAccounted`); likewise everyone who set the password with a reset token that is not used up still
holds it (`ResetAccounted`). For refresh tokens `TokensAccounted` counts, beside the active rows, the
successors on their way.

*Payments.* Of a request's transactions that were applied, the answers are lost but for the one that it reports as
submitted (`LossesAccounted`). `BuildsBounded` bounds the rebuilt transactions by what the retries, the refresh and
the fee bumps allow, so that a number never leaves its range.

*Transactions.* `LocksExclusive`: a row is locked by one refund, which has seen it neither refunded nor a refund, and that
stays so while it holds the lock (`RefundKnown`); what was recorded as refunded stays so (`StaysRefunded`), so that a refund
recorded by hand is never counted among those that `processRefund` made. *Pages*: newest first, nothing shown comes again, and
every row from the beginning is shown, still to come, or of the millisecond in which a page ended (`Downwards`); oldest
first, none is left out, and what comes again dates from that millisecond (`Upwards`); that the last, short page leaves nothing
needs the rank of a row among those that the cursor admits.

*Guards and cache.* At most one guarded request is at the handler or behind it, and its answer is cached (`OneGuarded`,
`HandledCached`), unless Redis failed one of them, which makes the request unguarded. While requests are served in order, a stamp that Redis counted and pruned no longer counts for any script that may
still admit: one a whole window later has come, or those after it have reached the limit (`PrunedForGood`). A balance in the cache, or in the hands of a reader about to store it, is excused, current, or will be
deleted by the writer that changed it (`EntryCurrent`, `ReaderCurrent`). The three mechanisms of `Guards` share no
variables and have an invariant each.

*Migrations and encrypted fields.* What a rollback takes back is last only as long as the applied migrations are the first ones, at
dates that follow their order, and a run holds what comes next (`Ordered`); two runs together, or one that applies several, end that, which is what
the property excludes. In a rotation every row behind the cursor needs no update (`Scanned`), and what is in the batch under
work is as it was read or needs none: from that a clean dry run implies that no row is left under the old
key (`Checked`), and only then does a server drop it.

*Deployment.* Supplies that exist, and those that a script or a late transaction may still issue, are together at most one
and the overlaps (`SupplyCounted`). That only dry runs succeed rests on the order of the logs: a log with
a trustline that says success is not the newest, and a script that has trusted knows of one (`LogsKept`).

*Backups.* Two servers with one id have shared it (`Apart`). Of an id that is not shared the owner alone writes file and
manifest, and nobody removes them meanwhile (`Own`), so that they match but between two calls (`Matched`). A server removes only
after its own manifest was written, and only what is older than its cycle; hence what it removes is never
the last (`Succeeded`, `NewerIsThere`). The planned backup is the newest at or before the target, which exists because
no file ends before it begins (`Whole`).

*The types of the services.* Most follow from the invariants above. The rest are bounds on counters, each inductive only together with
what is still on its way (`TypesInv`): the stamps of a window and the requests between arrival and script are no more than
the scripts begun; failed logins counted and about to be counted are no more than the failures; no cached balance is above the
number of changes; a reader's cursor holds the date and the id of a row.

Only model-checked: liveness (`AllEnd`, `EverythingSettles`), which the prover cannot reach.

## Divergences between code and documents

Shown by runs: `vesting_funding`, `rewards_pause`, `daily_bonus`, `events_once`,
`token_reuse` (each quotes the line it contradicts in `PROJECT.json`).

Met while modelling, and without a run:

* nova_token: decreasing an allowance below its value leaves a negative one
  (saturating at i128::MIN, lib.rs:428) where the comment (:399) says zero.
* vesting: `claim_vested` asks for no signature (lib.rs:296);
  docs/contracts-full-reference.md:455 says that the beneficiary signs.
* governance: a proposal created before `initialize` has its id reused while its
  `HasVoted` marks stay (lib.rs:172); finalising traps when supply × bps does not
  fit (:211).
* escrow: the parties together cannot release after the timeout (lib.rs:197
  against the comment at :185). With a repeated signer in the list the upgrade
  threshold can be out of reach (:118). An escrow funded before `initialize` is
  overwritten by the first one after it (`DepositsKeptOnceInitialised` excludes the case).
* treasury: a new duration applies to the running period at once (lib.rs:157,
  against :277).
* reward_pool: a fee of 100 % makes every withdrawal fail (lib.rs:317); a
  missing treasury matters only with a fee (:285 against :236); the daily caps of
  the header do not exist.
* redemption: issuing again overwrites an unclaimed reward (lib.rs:200 against
  :13); the event of an expired redemption is discarded with the `Err`.
* nova-rewards: `recover_funds` from an account to itself adds to its balance
  (lib.rs:1247); operation ids are shared by all kinds of recovery, so a reused id
  does nothing, silently; a rate change is retroactive; `check_daily_limit` has no
  caller; tests/recovery.rs calls `pause` with another signature.
* redemptions: a repetition that arrives together with the first request gets an
  error instead of the replay (the insert violates the unique index;
  redemptionRepository.js:27 and the route's description promise the replay); a
  key is looked up without its user; a cost below one half rounds to zero points
  and fails a CHECK.
* distribution: the worker passes no campaign, so `assertCampaignEligible` is never
  applied (comment at campaignDistributionService.js:109); more than three
  concurrent recipients can use up their attempts on stale sequence numbers.
* issuance: `processRewardIssuance` passes `recipient` where `distributeRewards`
  reads `toWallet`, so every attempt fails; its header promises confirmation. A last attempt
  whose server dies after it marked the row leaves "failed" to a job that runs once more
  (rewardIssuanceService.js:161-164); `FailedIsFinal` names the case.
* contract events: the header of contractEventService.js relies on a unique index
  of `contract_events` that no migration creates, and nothing starts the listener. The
  Dockerfiles run Node 20, which has no EventSource: `createNodeSSE` streams from `now`
  whatever the stored cursor is (contractEventService.js:104), and what happened before it is
  lost unless a backfill is run (`missed`). The table accepts four types of event
  (migration 008) of those that `extractEventType` returns.
* distribution lists: a recipient whose payment was applied but whose answer was lost is listed
  as failed and paid again by the retry (rewardDistributionJobService.js:96-114).
* database: migrations 006, 007 and 010 define `rewards` and `point_transactions`
  differently; the model follows 008 to 014.
* accounts: the login's SELECT omits `wallet_address`, so the tokens of a known user have
  no subject; the wallet login signs with HS256 what `authenticateUser` verifies as RS256;
  a deleted account is revived by a login with its wallet; the profile's
  deletion keeps e-mail and wallet; with a random IV, `WHERE email =` never
  matches an encrypted column.
* sessions: access tokens have no `jti`, so a logout revokes none of them;
  `revokeAllUserRefreshJtis` does nothing; no migration defines `password_hash`.
* Stellar access: Horizon's `result_codes.transaction` is a string where
  `extractResultCodes` expects a list, so neither the fee bump nor the new sequence number is ever tried
  (`readable` is this choice in `Payments`); `submitFeeBump` stores nothing;
  `walletService` writes a status that the table refuses.
* transactions: `routes/transactions.js` holds a stray fragment and does not parse;
  `routes/campaigns.js` and two handlers of `routes/rewards.js` use functions that are not
  imported. PostgreSQL refuses `FOR UPDATE` on the nullable side of an outer join
  (transactionRepository.js:340), so that a refund which has been paid on the network is rolled back
  (`LockRefused`; the model also has what the code intends, `LockOriginal`). A client may record
  a refund of any reference, which marks nothing as refunded (transactionService.js:196-203). The cursor
  keeps milliseconds: newest first it skips rows of the same millisecond, oldest first it repeats the last
  row, and does not end where a whole page has one millisecond. `created_at` is the time of
  `BEGIN`, so that a row of an earlier date may appear later (`Insert`, `Commit`).
* guards: the circuit breaker's fallback answers "not found" as accepted and keeps the first
  caller's closure; an abuse counter whose `INCR` lost its answer, or whose `EXPIRE` failed, never expires
  (abuseDetection.js:81-86, `stuck`) and keeps an address soft-locked for ever. The
  limiter, the login check and the idempotency key let requests pass while Redis fails.
* caches: cacheService.js:18 says that a distribution invalidates the balance; nothing does. The two
  balance endpoints have keys of their own (`balance:`, `tokenBalance:`), and one of them caches a failed
  query as 0 for thirty seconds (users.js:796-809).
* deployment: a deployment verifies itself by its log, which still says `in_progress`, so that it only
  succeeds if a later log exists (`OnlyDryRunsSucceed` states what this code does, not what it should); two deployments in one second share a log; a rollback burns the
  whole balance and removes the state file of another deployment.
* encryption: plaintext secrets of webhooks look encrypted, so the first pass leaves
  them and `decrypt` throws, where webhookRepository.js:14-18 says that it is safe.
* migrations: the migrations of one run share `applied_at`, by which a rollback orders.
* server: `gracefulShutdown` says that all writers are done (server.js:213-249), but does not wait for
  the requests.
* backups: the plan may name a backup during whose own run the target lies; a crash
  leaves files without manifest; nothing that is started calls `startBackupJob`.
* browser: a retry of page k + 1 loads page k again and appends it twice; RedeemForm never
  shows its confirmation; TrustlineButton reads `data.exists` where the API sends
  `data.data.exists`; the dashboard and the transfer form read two different wallets, and the
  header's balance is that of the user's linked wallet (`FetchBalanceFromAPI`). A 401 that comes after
  the refresh starts a second one with the refresh token that was used already, since the first
  stored only the access token (apiClient.ts:283-287).

## Not modelled

Events, TTL extension of storage and views without effect (they change no state
that is decided upon); the answers given to clients; the audit log; caches that
nothing modelled reads; signatures and hashes; who may call an administrative
route. Of nova-rewards: the swap configuration, upgrade and migrate. Of the point
ledger: a second server running the same daily job, and `updateRewardStock`, which
has no caller. The contracts campaign, admin_roles and distribution do not compile.
`Guards!AnswersAreOwn` (a fallback answers its own caller) does not hold of the code and is
stated for the reader only: no document promises it.

Most of the JavaScript is not modelled because there is nothing in it to check in this
way: of about 65 000 lines the pages, components and stylesheets of the frontend, the generated
types (`lib/api-types.ts`), mocks, the administrative and analytic queries, route
declarations with their validation and API comments, e-mail, sockets and formatting keep no
state that two actors share. The code that does is about a tenth of it, and each part is in a
module above. Not wired and therefore left out: the NestJS `MerchantWebhooks`,
`alertsEngine`, RedemptionFlow, CampaignManager, StellarDropModal, useContractEvents,
AuthContext, the service worker's `syncTransactions`. Modelled although
only tests or unmounted components use them, because the code has the hazard:
`ListJobs`, `ApiClient`, `ClientFeeds`. The tables above and `PROJECT.json` give the
reason for every component.

## Plan

What would come next, in this order.

1. The abstract bank (authorised moves of balances) that `NovaToken` implements.
2. Two servers that run the daily bonus, and the contracts that do not compile once they do.
