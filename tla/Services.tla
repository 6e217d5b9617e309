------------------------------ MODULE Services ------------------------------
(***************************************************************************)
(* The services around the ledger, composed: accounts, sessions, payments  *)
(* and their records, the guards of a request, and what runs against the   *)
(* database and the network from a shell. They share no state: one         *)
(* component is chosen at the start and only its actions happen, so that   *)
(* the states are the sum of the components' and not their product.        *)
(***************************************************************************)
EXTENDS Integers, Sequences, FiniteSets

CONSTANTS \* Accounts
          AccountVisit, AccountNonces, AccountChanges,
          \* Sessions
          SessionCall, SessionTokens, SessionResets,
          \* Payments
          PaymentRequest, PaymentBalance, PaymentRetries, PaymentBumps, PaymentMishaps,
          \* Transactions
          RowHash, RowRefund, RowTick, RowTime, RowLimit, NoHash,
          \* Guards
          GuardRequest, GuardErrors, WindowSize, WindowLimit, WindowTime, WindowScripts,
          SoftLock, CredStuff, LoginFailures, BreakerRetries,
          \* BalanceCache
          CacheReader, CacheWriter, CacheTtl, CacheChanges,
          \* Deployment
          DeployScript, DeployRuns, DeployMishaps,
          \* FieldEncryption
          FieldServer, FieldRows, FieldBatch, FieldLookalike, FieldFailures,
          \* Migrations
          MigrationRun, MigrationFiles, MigrationUnsafe, MigrationTime,
          \* Backups
          BackupServer, BackupDays, BackupTime, BackupMishaps

VARIABLES component,
          \* Accounts
          user, nonce, nonces, visit, account_logins, together, account_changes,
          \* Sessions
          refresh_tokens, is_deleted, reset_tokens, request, session_logins, raced,
          session_missed, resets,
          \* Payments
          payment_sequence, payment_balance, pending, readable, payment, transfers,
          applied, pay_lost, pay_mishaps,
          \* Transactions
          transactions, refund, locked, reported, posted, clock, open, reader, row_shown,
          again, ends, began,
          \* Guards
          key, keyed, handled, unguarded, errors, now, stamps, arrived, scripts,
          admitted, inOrder, login, counter, blocked, circuit, calls,
          \* BalanceCache
          cache_balance, stellar_public_key, entry, reading, writing, cache_changes,
          cache_faults, stale,
          \* Deployment
          trustline, holding, logs, stateFile, deploy, late, started,
          deploy_mishaps, overlaps, excused,
          \* FieldEncryption
          row, inserted, keys, field_run, verified, failures,
          \* Migrations
          schema, schema_migrations, migration_files, run, migration_time, torn, mixed,
          \* Backups
          temps, backup_files, manifests, cycle, backup_time, backup_mishaps, died,
          shared, completed

Acc == INSTANCE Accounts WITH
  Visit <- AccountVisit, MaxNonces <- AccountNonces, MaxChanges <- AccountChanges,
  logins <- account_logins, changes <- account_changes

Ses == INSTANCE Sessions WITH
  Call <- SessionCall, MaxTokens <- SessionTokens, MaxResets <- SessionResets,
  logins <- session_logins, missed <- session_missed

Pay == INSTANCE Payments WITH
  Request <- PaymentRequest, Balance <- PaymentBalance, maxTimeoutRetries <- PaymentRetries,
  MAX_FEE_BUMP_ATTEMPTS <- PaymentBumps, MaxMishaps <- PaymentMishaps,
  sequence <- payment_sequence, balance <- payment_balance, lost <- pay_lost,
  mishaps <- pay_mishaps

Txs == INSTANCE Transactions WITH
  Hash <- RowHash, Refund <- RowRefund, Tick <- RowTick, MaxTime <- RowTime,
  Limit <- RowLimit, shown <- row_shown

Grd == INSTANCE Guards WITH
  Request <- GuardRequest, MaxErrors <- GuardErrors, Window <- WindowSize,
  Limit <- WindowLimit, MaxTime <- WindowTime, MaxScripts <- WindowScripts,
  SOFT_LOCK_THRESHOLD <- SoftLock, CRED_STUFF_THRESHOLD <- CredStuff,
  MaxFailures <- LoginFailures, Retries <- BreakerRetries

Bal == INSTANCE BalanceCache WITH
  Reader <- CacheReader, Writer <- CacheWriter, Ttl <- CacheTtl, MaxChanges <- CacheChanges,
  balance <- cache_balance, changes <- cache_changes, faults <- cache_faults

Dep == INSTANCE Deployment WITH
  Script <- DeployScript, MaxRuns <- DeployRuns, MaxMishaps <- DeployMishaps,
  script <- deploy, mishaps <- deploy_mishaps

Enc == INSTANCE FieldEncryption WITH
  Server <- FieldServer, Rows <- FieldRows, BatchSize <- FieldBatch,
  Lookalike <- FieldLookalike, MaxFailures <- FieldFailures, script <- field_run

Mig == INSTANCE Migrations WITH
  Run <- MigrationRun, Migrations <- MigrationFiles, Unsafe <- MigrationUnsafe,
  MaxTime <- MigrationTime, files <- migration_files, time <- migration_time

Bak == INSTANCE Backups WITH
  Server <- BackupServer, retentionDays <- BackupDays, MaxTime <- BackupTime,
  MaxMishaps <- BackupMishaps, files <- backup_files, time <- backup_time,
  mishaps <- backup_mishaps

ASSUME ServiceAssumptions ==
  /\ Acc!AccountsAssumption /\ Ses!SessionsAssumption /\ Pay!PaymentsAssumption
  /\ Txs!TransactionsAssumption /\ Grd!GuardsAssumption /\ Bal!BalanceCacheAssumption
  /\ Dep!DeploymentAssumption /\ Enc!FieldEncryptionAssumption /\ Mig!MigrationsAssumption
  /\ Bak!BackupsAssumption

Components == {"accounts", "sessions", "payments", "refunds", "pages", "keys",
               "window", "failures", "breaker", "cache", "deployment", "encryption",
               "migrations", "backups"}

keyVars == <<key, keyed, handled, unguarded>>
windowVars == <<now, stamps, arrived, scripts, admitted, inOrder>>
loginVars == <<login, counter, blocked>>
breakerVars == <<circuit, calls>>
accountVars == <<user, nonce, nonces, visit, account_logins, together, account_changes>>
sessionVars == <<refresh_tokens, is_deleted, reset_tokens, request, session_logins,
                 raced, session_missed, resets>>
paymentVars == <<payment_sequence, payment_balance, pending, readable, payment,
                 transfers, applied, pay_lost, pay_mishaps>>
refundVars == <<refund, locked, reported, posted>>
pageVars == <<clock, open, reader, row_shown, again, ends, began>>
rowVars == <<transactions, refundVars, pageVars>>
guardVars == <<keyVars, windowVars, loginVars, breakerVars, errors>>
cacheVars == <<cache_balance, stellar_public_key, entry, reading, writing,
               cache_changes, cache_faults, stale>>
deployVars == <<trustline, holding, logs, stateFile, deploy, late, started,
                deploy_mishaps, overlaps, excused>>
fieldVars == <<row, inserted, keys, field_run, verified, failures>>
migrationVars == <<schema, schema_migrations, migration_files, run, migration_time,
                   torn, mixed>>
backupVars == <<temps, backup_files, manifests, cycle, backup_time, backup_mishaps,
                died, shared, completed>>
vars == <<component, accountVars, sessionVars, paymentVars, rowVars, guardVars, cacheVars,
          deployVars, fieldVars, migrationVars, backupVars>>

Init ==
  /\ component \in Components
  /\ Acc!Init /\ Ses!Init /\ Pay!Init /\ Txs!Init /\ Grd!Init /\ Bal!Init /\ Dep!Init
  /\ Enc!Init /\ Mig!Init /\ Bak!Init
  \* What is not under test starts in one way only.
  /\ component # "payments" => readable
  /\ component # "pages" => reader.direction = "desc"
  /\ component # "breaker" => ~circuit.fallback
  /\ component # "cache" => stellar_public_key = "wallet"
  /\ component # "encryption" => inserted = 0
  /\ component # "migrations" => migration_files = 0

Others_accounts ==
  /\ component = "accounts"
  /\ UNCHANGED <<component, sessionVars, paymentVars, rowVars, guardVars, cacheVars,
                 deployVars, fieldVars, migrationVars, backupVars>>

Others_sessions ==
  /\ component = "sessions"
  /\ UNCHANGED <<component, accountVars, paymentVars, rowVars, guardVars, cacheVars,
                 deployVars, fieldVars, migrationVars, backupVars>>

Others_payments ==
  /\ component = "payments"
  /\ UNCHANGED <<component, accountVars, sessionVars, rowVars, guardVars, cacheVars,
                 deployVars, fieldVars, migrationVars, backupVars>>

Others_refunds ==
  /\ component = "refunds"
  /\ UNCHANGED <<component, accountVars, sessionVars, paymentVars, guardVars, cacheVars,
                 deployVars, fieldVars, migrationVars, backupVars, pageVars>>

Others_pages ==
  /\ component = "pages"
  /\ UNCHANGED <<component, accountVars, sessionVars, paymentVars, guardVars, cacheVars,
                 deployVars, fieldVars, migrationVars, backupVars, refundVars>>

Others_keys ==
  /\ component = "keys"
  /\ UNCHANGED <<component, accountVars, sessionVars, paymentVars, rowVars, cacheVars,
                 deployVars, fieldVars, migrationVars, backupVars, windowVars, loginVars,
                 breakerVars>>

Others_window ==
  /\ component = "window"
  /\ UNCHANGED <<component, accountVars, sessionVars, paymentVars, rowVars, cacheVars,
                 deployVars, fieldVars, migrationVars, backupVars, keyVars, loginVars,
                 breakerVars>>

Others_failures ==
  /\ component = "failures"
  /\ UNCHANGED <<component, accountVars, sessionVars, paymentVars, rowVars, cacheVars,
                 deployVars, fieldVars, migrationVars, backupVars, keyVars, windowVars,
                 breakerVars>>

Others_breaker ==
  /\ component = "breaker"
  /\ UNCHANGED <<component, accountVars, sessionVars, paymentVars, rowVars, cacheVars,
                 deployVars, fieldVars, migrationVars, backupVars, keyVars, windowVars,
                 loginVars>>

Others_cache ==
  /\ component = "cache"
  /\ UNCHANGED <<component, accountVars, sessionVars, paymentVars, rowVars, guardVars,
                 deployVars, fieldVars, migrationVars, backupVars>>

Others_deployment ==
  /\ component = "deployment"
  /\ UNCHANGED <<component, accountVars, sessionVars, paymentVars, rowVars, guardVars,
                 cacheVars, fieldVars, migrationVars, backupVars>>

Others_encryption ==
  /\ component = "encryption"
  /\ UNCHANGED <<component, accountVars, sessionVars, paymentVars, rowVars, guardVars,
                 cacheVars, deployVars, migrationVars, backupVars>>

Others_migrations ==
  /\ component = "migrations"
  /\ UNCHANGED <<component, accountVars, sessionVars, paymentVars, rowVars, guardVars,
                 cacheVars, deployVars, fieldVars, backupVars>>

Others_backups ==
  /\ component = "backups"
  /\ UNCHANGED <<component, accountVars, sessionVars, paymentVars, rowVars, guardVars,
                 cacheVars, deployVars, fieldVars, migrationVars>>

Next ==
  \/ Others_accounts /\ Acc!Next
  \/ Others_sessions /\ Ses!Next
  \/ Others_payments /\ Pay!Next
  \/ Others_refunds /\ Txs!RefundNext
  \/ Others_pages /\ Txs!PageNext
  \/ Others_keys /\ Grd!KeyNext
  \/ Others_window /\ Grd!WindowNext
  \/ Others_failures /\ Grd!LoginNext
  \/ Others_breaker /\ Grd!BreakerNext
  \/ Others_cache /\ Bal!Next
  \/ Others_deployment /\ Dep!Next
  \/ Others_encryption /\ Enc!Next
  \/ Others_migrations /\ Mig!Next
  \/ Others_backups /\ Bak!Next

Spec == Init /\ [][Next]_vars

-----------------------------------------------------------------------------
\* The stored values of every component have the types its code stores.
TypeOK ==
  /\ component \in Components
  /\ Acc!TypeOK /\ Ses!TypeOK /\ Pay!TypeOK /\ Txs!TypeOK /\ Grd!TypeOK /\ Bal!TypeOK
  /\ Dep!TypeOK /\ Enc!TypeOK /\ Mig!TypeOK /\ Bak!TypeOK

\* A login challenge and a reset token are used once, unless requests had read them
\* before the first of them used them up; an account that was deleted while an update
\* was under way keeps no personal data; refresh tokens that are still good are no more
\* than the logins, and the refreshes that raced another one
\* (stellarAuthService, users, tokenService, passwordResetService).
IdentityHolds ==
  /\ Acc!ChallengeUsedUp /\ Acc!DeletedIsAnonymous
  /\ Ses!ActiveTokensBounded /\ Ses!ResetTokenUsedUp

\* A payment is applied to the ledger once, and once more only for an answer that was
\* lost after the ledger applied it; processRefund refunds a transaction once, whatever
\* rows are recorded as refunds besides; a reconciliation reports a row once; and the
\* pages of a listing show every row that was there when it began, and each once, but for
\* rows of the millisecond in which a page ended, which a descending listing may leave
\* out and an ascending one may repeat
\* (stellarTransactionService, tokenTransferService, transactionRepository).
MoneyAccounted ==
  /\ Pay!PaidOncePerLoss
  /\ Txs!RefundedOnce /\ Txs!ReconciledOnce /\ Txs!PagesComplete

\* Requests with one idempotency key are handled once, those apart that came while
\* another was under way or that Redis failed; while requests are served in order, those
\* in a window of the rate limiter exceed its limit only by what Redis failed to count;
\* failed logins are forgotten again unless Redis failed the first of them; and a cached
\* balance that a change made obsolete is not served once its writer has deleted it,
\* unless its reader had asked before or its query had failed
\* (idempotency, slidingRateLimiter, abuseDetection, users, cacheService).
GuardsHold ==
  /\ Grd!HandledOncePerKey /\ Grd!WindowWithinLimit /\ Grd!FailuresExpire
  /\ Bal!ServedIsCurrent

\* The supply is issued once, and once more only by deployments that overlapped; the
\* state file of a deployment outlives its supply only until a rollback removes it; a
\* deployment alone is never reported as a success; every server reads every row while
\* the keys rotate, and a clean run leaves none to migrate; the schema is what
\* schema_migrations records, and a rollback takes back the last migration unless several
\* share its time; a backup has its manifest, one is always kept, and the plan of a
\* recovery restores what was there
\* (deploy, rollback, encrypt-existing-rows, migrate, backupService, restore-pitr).
OperationsAccounted ==
  /\ Dep!SupplyIssuedOnce /\ Dep!StateIsBacked /\ Dep!OnlyDryRunsSucceed
  /\ Enc!EveryServerReads /\ Enc!CleanRunMigrates
  /\ Mig!SchemaAsRecorded /\ Mig!LastRolledBack
  /\ Bak!FileAndManifest /\ Bak!BackupKept /\ Bak!PlanRestores

\* A refresh token that has been used is not accepted again: tokenService promises that
\* it is found revoked.
ReuseDetected == Ses!ReuseDetected
=============================================================================
