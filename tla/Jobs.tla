-------------------------------- MODULE Jobs --------------------------------
(***************************************************************************)
(* What the backend does in the background, the two chains of checks that  *)
(* pay something once, and what the clients in a browser have under way,   *)
(* composed. They share no state: one component is chosen at the start and *)
(* only its actions happen, so that the states are the sum of the          *)
(* components' and not their product.                                      *)
(***************************************************************************)
EXTENDS Integers, Sequences, FiniteSets

CONSTANTS NoKey,   \* no idempotency key
          \* EventStream: contract events
          EventCount, EventRefused, EventUntyped, EventHandler, EventPass,
          EventRetries, EventPage, EventRows, EventFaults,
          \* Issuance: reward issuance
          IssuanceKey, IssuanceRequest, IssuanceAttempts, IssuanceStalls, IssuanceTroubles,
          \* Webhooks
          WebhookServer, WebhookDelivery, WebhookAttempts, WebhookDelays, WebhookUpsets,
          \* Claims: drops and referral bonuses
          ClaimRequest, BonusRequest, MaxClaims, MinPoints, BonusPoints, MaxPoints,
          \* BatchJobs
          BatchItems, BatchRefused, BatchAttempts, BatchStalls, BatchFlaws,
          \* InboundActions
          InboundCall, InboundStalls, InboundFlops,
          \* ListJobs
          Recipient, Refusing, ListRetries, ListWorker, ListGlitches,
          \* ApiClient
          ApiRequest, ApiWrite, ApiRetries, ApiFaults,
          \* WalletSession
          Wallet, NoWallet, WalletRead, WalletChanges, WalletReloads,
          \* ClientFeeds
          FeedItems, FeedPage, FeedLimit, FeedPoll, FeedFaults,
          \* ClientTransfer
          TransferTab, TransferHoldings, TransferTries, TransferMishaps

VARIABLES component,
          \* EventStream
          resumes, emitted, stream, position, handler, rows, cursor, pass, backfill, faults,
          missed, orderly,
          \* Issuance
          active, request, issuance, job, work, deadLetter, failures, troubles, ineligible,
          \* Webhooks
          webhook, delivery, sending, accepted, posted, shaky, upsets,
          \* Claims
          expired, earned, listed, claim, claims, bonus, bonuses, bonus_claimed, together,
          qualified,
          \* BatchJobs
          state, made, stalls, next, processed, succeeded, failed, summary, progress,
          applied, runs, flaws,
          \* InboundActions
          call, known, action, awarding, awards, audits, flops,
          \* ListJobs
          queue, stored, worker, sent, unheard, glitches, deaths,
          \* ApiClient
          token, refreshToken, understood, isRefreshingToken, pendingRefreshQueue,
          api_call, sentWith, cached, api_faults, sends, api_handled, api_lost,
          \* WalletSession
          store, linked, account, holdings, publicKey, wallet_shown, prompt, reads,
          wallet_reloads, crossed, overlapped, backwards, robbed,
          \* ClientFeeds
          feed_made, view, inFlight, cursors, repeated, verdict, poll, status, abort,
          unsure, overlap, feed_faults,
          \* ClientTransfer
          transfer_sequence, holds, transfer_balance, sender, trusts, transfer_sent, form,
          told, recorded, transfer_lost, transfer_missed, transfer_mishaps

Events == INSTANCE EventStream WITH
  MaxEvents <- EventCount, Refused <- EventRefused, Untyped <- EventUntyped,
  Handler <- EventHandler, Pass <- EventPass, MAX_RETRIES <- EventRetries,
  PAGE_LIMIT <- EventPage, MaxRows <- EventRows, MaxFaults <- EventFaults

Issuance == INSTANCE Issuance WITH
  Key <- IssuanceKey, Request <- IssuanceRequest, Attempts <- IssuanceAttempts,
  MaxStalls <- IssuanceStalls, MaxTroubles <- IssuanceTroubles

Webhooks == INSTANCE Webhooks WITH
  Server <- WebhookServer, Delivery <- WebhookDelivery, MAX_ATTEMPTS <- WebhookAttempts,
  Delays <- WebhookDelays, MaxUpsets <- WebhookUpsets

Claims == INSTANCE Claims

Batch == INSTANCE BatchJobs WITH
  Items <- BatchItems, Refused <- BatchRefused, Attempts <- BatchAttempts,
  MaxStalls <- BatchStalls, MaxFlaws <- BatchFlaws

Inbound == INSTANCE InboundActions WITH
  Call <- InboundCall, MaxStalls <- InboundStalls, MaxFlops <- InboundFlops

List == INSTANCE ListJobs WITH
  MaxRetries <- ListRetries, Worker <- ListWorker, MaxGlitches <- ListGlitches

Api == INSTANCE ApiClient WITH
  Request <- ApiRequest, Write <- ApiWrite, MAX_RETRY_ATTEMPTS <- ApiRetries,
  MaxFaults <- ApiFaults, call <- api_call, faults <- api_faults,
  handled <- api_handled, lost <- api_lost

Wal == INSTANCE WalletSession WITH
  Read <- WalletRead, MaxChanges <- WalletChanges, MaxReloads <- WalletReloads,
  shown <- wallet_shown, reloads <- wallet_reloads

Fee == INSTANCE ClientFeeds WITH
  MaxItems <- FeedItems, pageSize <- FeedPage, pageLimit <- FeedLimit, Poll <- FeedPoll,
  MaxFaults <- FeedFaults, made <- feed_made, faults <- feed_faults

Trf == INSTANCE ClientTransfer WITH
  Tab <- TransferTab, Holdings <- TransferHoldings, MaxTries <- TransferTries,
  MaxMishaps <- TransferMishaps, sequence <- transfer_sequence,
  balance <- transfer_balance, sent <- transfer_sent, lost <- transfer_lost,
  missed <- transfer_missed, mishaps <- transfer_mishaps

ASSUME JobAssumptions ==
  /\ Events!EventStreamAssumption /\ Issuance!IssuanceAssumption
  /\ Webhooks!WebhooksAssumption /\ Claims!ClaimsAssumption /\ Batch!BatchJobsAssumption
  /\ Inbound!InboundActionsAssumption /\ List!ListJobsAssumption
  /\ Api!ApiClientAssumption /\ Wal!SessionAssumption /\ Fee!FeedsAssumption
  /\ Trf!TransferAssumption

Components == {"events", "issuance", "webhooks", "claims", "batch", "inbound", "list",
               "api", "wallet", "history", "poller", "transfer"}

eventsVars == <<resumes, emitted, stream, position, handler, rows, cursor, pass, backfill,
               faults, missed, orderly>>
issuanceVars == <<active, request, issuance, job, work, deadLetter, failures, troubles, ineligible>>
webhooksVars == <<webhook, delivery, sending, accepted, posted, shaky, upsets>>
claimsVars == <<expired, earned, listed, claim, claims, bonus, bonuses, bonus_claimed, together,
               qualified>>
batchVars == <<state, made, stalls, next, processed, succeeded, failed, summary, progress,
              applied, runs, flaws>>
inboundVars == <<call, known, action, awarding, awards, audits, flops>>
listVars == <<queue, stored, worker, sent, unheard, glitches, deaths>>
jobVars == <<eventsVars, issuanceVars, webhooksVars, claimsVars, batchVars, inboundVars,
             listVars>>
apiVars == <<token, refreshToken, understood, isRefreshingToken, pendingRefreshQueue,
             api_call, sentWith, cached, api_faults, sends, api_handled, api_lost>>
walletVars == <<store, linked, account, holdings, publicKey, wallet_shown, prompt, reads,
                wallet_reloads, crossed, overlapped, backwards, robbed>>
scrollVars == <<view, inFlight, cursors, repeated>>
pollVars == <<poll, status, abort, unsure, overlap>>
feedVars == <<feed_made, scrollVars, verdict, pollVars, feed_faults>>
transferVars == <<transfer_sequence, holds, transfer_balance, sender, trusts, transfer_sent,
                  form, told, recorded, transfer_lost, transfer_missed, transfer_mishaps>>
clientVars == <<apiVars, walletVars, feedVars, transferVars>>
vars == <<component, jobVars, clientVars>>

Init ==
  /\ component \in Components
  /\ Events!Init /\ Issuance!Init /\ Webhooks!Init /\ Claims!Init
  /\ Batch!Init /\ Inbound!Init /\ List!Init
  /\ Api!Init /\ Wal!Init /\ Fee!Init /\ Trf!Init
  \* The user's wallet may as well be one as another.
  /\ linked \in {NoWallet, CHOOSE w \in Wallet : TRUE}
  \* What is not under test starts in one way only.
  /\ component # "events" => resumes
  /\ component # "claims" => listed
  /\ component # "inbound" => known
  /\ component # "api" => understood
  /\ component # "wallet" => store = "context" /\ account = CHOOSE w \in Wallet : TRUE
  /\ component # "history" => feed_made = 0

InEvents ==
  /\ component = "events"
  /\ UNCHANGED <<component, issuanceVars, webhooksVars, claimsVars, batchVars,
                 inboundVars, listVars, clientVars>>

InIssuance ==
  /\ component = "issuance"
  /\ UNCHANGED <<component, eventsVars, webhooksVars, claimsVars, batchVars,
                 inboundVars, listVars, clientVars>>

InWebhooks ==
  /\ component = "webhooks"
  /\ UNCHANGED <<component, eventsVars, issuanceVars, claimsVars, batchVars,
                 inboundVars, listVars, clientVars>>

InClaims ==
  /\ component = "claims"
  /\ UNCHANGED <<component, eventsVars, issuanceVars, webhooksVars, batchVars,
                 inboundVars, listVars, clientVars>>

InBatch ==
  /\ component = "batch"
  /\ UNCHANGED <<component, eventsVars, issuanceVars, webhooksVars, claimsVars,
                 inboundVars, listVars, clientVars>>

InInbound ==
  /\ component = "inbound"
  /\ UNCHANGED <<component, eventsVars, issuanceVars, webhooksVars, claimsVars,
                 batchVars, listVars, clientVars>>

InList ==
  /\ component = "list"
  /\ UNCHANGED <<component, eventsVars, issuanceVars, webhooksVars, claimsVars,
                 batchVars, inboundVars, clientVars>>

InApi ==
  /\ component = "api"
  /\ UNCHANGED <<component, jobVars, walletVars, feedVars, transferVars>>

InWallet ==
  /\ component = "wallet"
  /\ UNCHANGED <<component, jobVars, apiVars, feedVars, transferVars>>

InHistory ==
  /\ component = "history"
  /\ UNCHANGED <<component, jobVars, apiVars, walletVars, transferVars, pollVars>>

InPoller ==
  /\ component = "poller"
  /\ UNCHANGED <<component, jobVars, apiVars, walletVars, transferVars, scrollVars>>

InTransfer ==
  /\ component = "transfer"
  /\ UNCHANGED <<component, jobVars, apiVars, walletVars, feedVars>>

Next ==
  \/ InEvents /\ Events!Next
  \/ InIssuance /\ Issuance!Next
  \/ InWebhooks /\ Webhooks!Next
  \/ InClaims /\ Claims!Next
  \/ InBatch /\ Batch!Next
  \/ InInbound /\ Inbound!Next
  \/ InList /\ List!Next
  \/ InApi /\ Api!Next
  \/ InWallet /\ Wal!Next
  \/ InHistory /\ Fee!HistoryNext
  \/ InPoller /\ Fee!PollerNext
  \/ InTransfer /\ Trf!Next

\* The timers of the event loop and of the webhook job fire again and again,
\* BullMQ hands waiting jobs to the worker, and a step that has begun is awaited.
\* SF: a crash or an answer of another server may come between. Clients, the
\* network, failures and crashes are not required to do anything.
Fairness ==
  /\ SF_vars(InEvents /\ \E p \in EventPass : Events!StartPass(p))
  /\ SF_vars(InEvents /\ \E p \in EventPass : Events!Retry(p))
  /\ \A r \in IssuanceRequest : WF_vars(InIssuance /\ Issuance!Serve(r))
  /\ \A k \in IssuanceKey : WF_vars(InIssuance /\ Issuance!Work(k))
  /\ \A s \in WebhookServer : WF_vars(InWebhooks /\ Webhooks!Tick(s))
  /\ \A s \in WebhookServer, d \in WebhookDelivery : WF_vars(InWebhooks /\ Webhooks!Send(s, d))
  /\ \A d \in WebhookDelivery : WF_vars(InWebhooks /\ Webhooks!BecomesDue(d))
  /\ WF_vars(InBatch /\ Batch!Run)
  /\ \A r \in InboundCall : WF_vars(InInbound /\ Inbound!Run(r))
  /\ WF_vars(InList /\ List!Push)
  /\ \A w \in ListWorker : WF_vars(InList /\ List!Run(w))

Spec == Init /\ [][Next]_vars /\ Fairness

-----------------------------------------------------------------------------
\* The stored values of every component have the types its code stores.
TypeOK ==
  /\ component \in Components
  /\ Events!TypeOK /\ Issuance!TypeOK /\ Webhooks!TypeOK /\ Claims!TypeOK
  /\ Batch!TypeOK /\ Inbound!TypeOK /\ List!TypeOK
  /\ Api!TypeOK /\ Wal!TypeOK /\ Fee!TypeOK /\ Trf!TypeOK

\* contractEventService: while events come one at a time, what is stored is, in
\* order and each once, what the table accepts, over disconnections and crashes, except
\* what a connection that does not resume at the cursor passed over.
OrderlyExactlyOnce == Events!OrderlyExactlyOnce

\* rewardIssuance: a queued job has its row, "failed" is only said when nothing is
\* tried any more, but for the last attempt of a server that died between the row and
\* the queue, and a failed issuance does not vanish from queue and table both.
IssuancesAccounted ==
  Issuance!JobHasRow /\ Issuance!FailedIsFinal /\ Issuance!FailureNotLost

\* webhookService: an endpoint accepts a delivery once, unless an answer, a
\* statement or a sender was lost or two servers overlapped, a delivery is POSTed
\* once per attempt and server and once more per crash or failed statement, and
\* none is forgotten as pending.
DeliveriesBounded ==
  Webhooks!AcceptedOnce /\ Webhooks!PostsBounded /\ Webhooks!PendingIsUnderWay

\* dropService and referralService: what is claimed or paid beyond once is what
\* raced past the check together, and nobody unqualified gets anything.
GivenOnce ==
  /\ Claims!ClaimsWithinLimit /\ Claims!ClaimsQualified
  /\ Claims!BonusOncePerRace /\ Claims!MarkedMeansPaid

\* The queues of batches, inbound actions and distribution lists: repeated runs
\* apply an item at most once per run, an award once per death of the worker, and
\* a payment once and once per lost answer, once per run at most; summaries are true.
RunsAccounted ==
  /\ Batch!AppliedOncePerRun /\ Batch!SummaryComplete
  /\ Inbound!AwardsPerPost /\ List!PaidPerRun

\* Calls that wait for a refreshed token are let go, each is sent a bounded number of
\* times, and a write is handled once more only for an answer that was lost; the balance
\* shown is of the connected or the linked wallet and never an older one, and a wallet
\* stays connected, unless answers crossed or overlapped; the history has no gaps, and
\* the status shown for a transaction is its verdict; a payment the ledger applied is
\* told to the user and recorded, unless the answer was lost or the record failed
\* (apiClient, WalletContext, walletStore, useInfiniteScroll, txPoller, TransferForm).
ClientHolds ==
  /\ Api!WaitersAreReleased /\ Api!SendsBounded /\ Api!WrittenOncePerLoss
  /\ Wal!BalanceIsOfWallet /\ Wal!BalanceNotBackwards /\ Wal!KeptUnlessCrossed
  /\ Fee!HistoryWithoutGaps /\ Fee!StatusIsVerdict
  /\ Trf!PaymentsTold /\ Trf!PaymentsRecorded

\* Again and again there is nothing left to do: rows are processed or given up,
\* issuances decided, deliveries accepted or exhausted, jobs ended.
EverythingSettles ==
  []<>(/\ Events!RowsSettled /\ Issuance!IssuancesSettled /\ Webhooks!DeliveriesSettled
       /\ Batch!BatchEnded /\ Inbound!ActionsEnded /\ List!ListJobEnded)

\* contractEventService: a replayed event is refused. (Violated.)
StoredOnce == Events!StoredOnce

=============================================================================
