------------------------------ MODULE Issuance ------------------------------
(* Reward issuance: a request stores a pending row under its idempotency key *)
(* and queues a job with that key; a worker attempts the transfer; a job     *)
(* without attempts left is copied to a dead-letter queue and a table, and   *)
(* only then removed. BullMQ: attemptsMade counts the runs that ended, and a *)
(* job whose worker died is run again, once, without being counted.          *)
(*                                                                           *)
(* distributeRewards reads toWallet and is given recipient, so a transfer    *)
(* always throws and no row is ever confirmed.                               *)
EXTENDS Integers, FiniteSets

CONSTANTS Key,        \* idempotency keys: the requests that differ
          Request,    \* requests that may run at the same time
          Attempts,   \* defaultJobOptions.attempts
          MaxStalls,  \* maxStalledCount of BullMQ
          MaxTroubles,\* bound on crashes and failed statements
          NoKey

IssuanceAssumption ==
  /\ IsFiniteSet(Key) /\ NoKey \notin Key /\ Attempts \in Nat \ {0}
  /\ MaxStalls \in Nat /\ MaxTroubles \in Nat

VARIABLES active,     \* getActiveCampaign finds the campaign
          request,    \* what each request is doing
          issuance,   \* reward_issuances: status and attempts
          job,        \* the reward-issuance queue, by jobId
          work,       \* the step of the worker, or of its failed handler
          deadLetter, \* jobs added to reward-issuance-dlq
          failures,   \* reward_issuance_failures: rows per job
          troubles,   \* crashes and failed statements so far
          ineligible  \* history: keys whose campaign was found inactive

issuanceVars == <<active, request, issuance, job, work, deadLetter, failures,
                  troubles, ineligible>>

NoRow  == [status |-> "none", attempts |-> 0]
NoJob  == [state |-> "none", made |-> 0, stalls |-> 0]
Waits  == [step |-> "idle", key |-> NoKey]

Init ==
  /\ active = TRUE
  /\ request = [r \in Request |-> Waits]
  /\ issuance = [k \in Key |-> NoRow]
  /\ job = [k \in Key |-> NoJob]
  /\ work = [k \in Key |-> "none"]
  /\ deadLetter = [k \in Key |-> 0] /\ failures = [k \in Key |-> 0]
  /\ troubles = 0 /\ ineligible = {}

Trouble == troubles < MaxTroubles /\ troubles' = troubles + 1

\* The merchant or the clock ends the campaign.
CampaignEnds ==
  /\ active /\ active' = FALSE
  /\ UNCHANGED <<request, issuance, job, work, deadLetter, failures, troubles, ineligible>>

-----------------------------------------------------------------------------
(* enqueueRewardIssuance                                                    *)

\* getIssuanceByKey: a key that is known is a duplicate, whatever its status.
LookUp(r, k) ==
  /\ request[r] = Waits /\ r = CHOOSE q \in Request : request[q] = Waits
  /\ issuance[k] = NoRow
  /\ request' = [request EXCEPT ![r] = [step |-> "create", key |-> k]]
  /\ UNCHANGED <<active, issuance, job, work, deadLetter, failures, troubles, ineligible>>

\* createIssuance: the unique key lets one of two requests through.
CreateIssuance(r) ==
  /\ request[r].step = "create"
  /\ LET k == request[r].key
     IN  IF issuance[k] = NoRow
         THEN /\ issuance' = [issuance EXCEPT ![k].status = "pending"]
              /\ request' = [request EXCEPT ![r].step = "enqueue"]
         ELSE /\ request' = [request EXCEPT ![r] = Waits]
              /\ UNCHANGED issuance
  /\ UNCHANGED <<active, job, work, deadLetter, failures, troubles, ineligible>>

\* rewardIssuanceQueue.add: a jobId that exists is not added again.
Enqueue(r) ==
  /\ request[r].step = "enqueue"
  /\ LET k == request[r].key
     IN job' = [job EXCEPT ![k] = IF @ = NoJob THEN [NoJob EXCEPT !.state = "wait"] ELSE @]
  /\ request' = [request EXCEPT ![r] = Waits]
  /\ UNCHANGED <<active, issuance, work, deadLetter, failures, troubles, ineligible>>

-----------------------------------------------------------------------------
(* processRewardIssuance. A run that throws is counted; the job waits for    *)
(* the next one or, when there is none, the failed handler starts.           *)

Take(k) ==
  /\ job[k].state = "wait"
  /\ job' = [job EXCEPT ![k].state = "active"]
  /\ work' = [work EXCEPT ![k] = "count"]
  /\ UNCHANGED <<active, request, issuance, deadLetter, failures, troubles, ineligible>>

Throw(k) ==
  /\ job' = [job EXCEPT ![k].made = @ + 1,
                        ![k].state = IF job[k].made + 1 < Attempts THEN "wait" ELSE "failed"]
  /\ work' = [work EXCEPT ![k] = IF job[k].made + 1 < Attempts THEN "none" ELSE "dlq"]

IncrementAttempts(k) ==
  /\ work[k] = "count"
  /\ issuance' = [issuance EXCEPT ![k].attempts = @ + 1]
  /\ work' = [work EXCEPT ![k] = "campaign"]
  /\ UNCHANGED <<active, request, job, deadLetter, failures, troubles, ineligible>>

\* A statement outside the try block fails, and the run with it: the row is not marked,
\* not even by the last attempt.
StatementFails(k) ==
  /\ work[k] \in {"count", "campaign", "refuse", "mark"}
  /\ Trouble /\ Throw(k)
  /\ UNCHANGED <<active, request, issuance, deadLetter, failures, ineligible>>

\* An inactive campaign ends the job without an error.
CheckCampaign(k) ==
  /\ work[k] = "campaign"
  /\ work' = [work EXCEPT ![k] = IF active THEN "transfer" ELSE "refuse"]
  /\ ineligible' = IF active THEN ineligible ELSE ineligible \cup {k}
  /\ UNCHANGED <<active, request, issuance, job, deadLetter, failures, troubles>>

MarkIneligible(k) ==
  /\ work[k] = "refuse"
  /\ issuance' = [issuance EXCEPT ![k].status = "failed"]
  /\ work' = [work EXCEPT ![k] = "refused"]
  /\ UNCHANGED <<active, request, job, deadLetter, failures, troubles, ineligible>>

\* BullMQ completes the job and removes it (removeOnComplete).
Complete(k) ==
  /\ work[k] = "refused"
  /\ job' = [job EXCEPT ![k] = NoJob]
  /\ work' = [work EXCEPT ![k] = "none"]
  /\ UNCHANGED <<active, request, issuance, deadLetter, failures, troubles, ineligible>>

\* The transfer throws; the last attempt has to mark the row first.
Transfer(k) ==
  /\ work[k] = "transfer"
  /\ IF job[k].made >= Attempts - 1
     THEN work' = [work EXCEPT ![k] = "mark"] /\ UNCHANGED job
     ELSE Throw(k)
  /\ UNCHANGED <<active, request, issuance, deadLetter, failures, troubles, ineligible>>

\* markFailed of the last attempt. BullMQ still has the job as active.
MarkFailed(k) ==
  /\ work[k] = "mark"
  /\ issuance' = [issuance EXCEPT ![k].status = "failed"]
  /\ work' = [work EXCEPT ![k] = "marked"]
  /\ UNCHANGED <<active, request, job, deadLetter, failures, troubles, ineligible>>

\* The error is thrown on, and BullMQ moves the job to failed.
MoveToFailed(k) ==
  /\ work[k] = "marked" /\ Throw(k)
  /\ UNCHANGED <<active, request, issuance, deadLetter, failures, troubles, ineligible>>

-----------------------------------------------------------------------------
(* The worker's failed handler and handleRewardIssuanceFailure.             *)

AddDeadLetter(k) ==
  /\ work[k] = "dlq"
  /\ deadLetter' = [deadLetter EXCEPT ![k] = @ + 1]
  /\ work' = [work EXCEPT ![k] = "record"]
  /\ UNCHANGED <<active, request, issuance, job, failures, troubles, ineligible>>

\* Variant: the job is removed although its failure could not be recorded.
RecordFailure_RemovesAnyway(k) ==
  /\ work[k] = "record"
  /\ \/ failures' = [failures EXCEPT ![k] = IF @ = 0 THEN 1 ELSE @] /\ UNCHANGED troubles
     \/ Trouble /\ UNCHANGED failures
  /\ work' = [work EXCEPT ![k] = "remove"]
  /\ UNCHANGED <<active, request, issuance, job, deadLetter, ineligible>>

\* recordFailure keeps the first row of a job; when it fails the job stays.
RecordFailure(k) ==
  /\ work[k] = "record"
  /\ \/ /\ failures' = [failures EXCEPT ![k] = IF @ = 0 THEN 1 ELSE @]
        /\ work' = [work EXCEPT ![k] = "remove"]
        /\ UNCHANGED troubles
     \/ /\ Trouble
        /\ work' = [work EXCEPT ![k] = "none"]
        /\ UNCHANGED failures
  /\ UNCHANGED <<active, request, issuance, job, deadLetter, ineligible>>

RemoveJob(k) ==
  /\ work[k] = "remove"
  /\ job' = [job EXCEPT ![k] = NoJob]
  /\ work' = [work EXCEPT ![k] = "none"]
  /\ UNCHANGED <<active, request, issuance, deadLetter, failures, troubles, ineligible>>

-----------------------------------------------------------------------------
\* The server dies. Its requests and handlers are lost; a job that was active
\* waits again, or fails unprocessed when it stalled before, and then the
\* handler finds attempts left and does nothing.
Crash ==
  /\ Trouble
  /\ request' = [r \in Request |-> Waits]
  /\ work' = [k \in Key |-> "none"]
  /\ job' = [k \in Key |->
       IF job[k].state # "active" THEN job[k]
       ELSE [job[k] EXCEPT !.state = IF job[k].stalls < MaxStalls THEN "wait" ELSE "failed",
                           !.stalls = @ + 1]]
  /\ UNCHANGED <<active, issuance, deadLetter, failures, ineligible>>

Serve(r) == CreateIssuance(r) \/ Enqueue(r)

Work(k) ==
  \/ Take(k) \/ IncrementAttempts(k) \/ CheckCampaign(k) \/ MarkIneligible(k) \/ Complete(k)
  \/ Transfer(k) \/ MarkFailed(k) \/ MoveToFailed(k) \/ AddDeadLetter(k) \/ RecordFailure(k) \/ RemoveJob(k)

Next ==
  \/ CampaignEnds \/ Crash
  \/ \E r \in Request : Serve(r) \/ \E k \in Key : LookUp(r, k)
  \/ \E k \in Key : Work(k) \/ StatementFails(k)

-----------------------------------------------------------------------------
TypeOK ==
  /\ active \in BOOLEAN
  /\ request \in [Request -> [step : {"idle", "create", "enqueue"}, key : Key \cup {NoKey}]]
  /\ issuance \in [Key -> [status : {"none", "pending", "failed"},
                           attempts : 0..(Attempts + MaxTroubles)]]
  /\ job \in [Key -> [state : {"none", "wait", "active", "failed"}, made : 0..Attempts,
                      stalls : 0..(MaxStalls + 1)]]
  /\ work \in [Key -> {"none", "count", "campaign", "refuse", "refused", "transfer", "mark",
                       "marked", "dlq", "record", "remove"}]
  /\ deadLetter \in [Key -> 0..1] /\ failures \in [Key -> 0..1]
  /\ troubles \in 0..MaxTroubles /\ ineligible \subseteq Key

\* A queued job always has its row: the worker never marks a row that is not
\* there, whichever of request and worker is faster.
JobHasRow == \A k \in Key : job[k].state # "none" => issuance[k].status # "none"

\* A row is failed only when its job is out of the queue or the campaign was inactive,
\* but for a last attempt: between its two writes, and when a server died there, so
\* that the stalled job runs again while everybody reads "failed".
FailedIsFinal ==
  \A k \in Key :
    issuance[k].status = "failed" /\ k \notin ineligible =>
      \/ job[k].state \in {"none", "failed"}
      \/ job[k].made = Attempts - 1 /\ (work[k] = "marked" \/ job[k].stalls > 0)

\* A failed issuance does not vanish: the job is in Redis until the table has it.
FailureNotLost ==
  \A k \in Key :
    issuance[k].status = "failed" /\ k \notin ineligible /\ job[k].state = "none" =>
      failures[k] = 1

\* No row is pending, unless a crash or a failed statement cost it its job.
IssuancesSettled == troubles > 0 \/ \A k \in Key : issuance[k].status # "pending"
=============================================================================
