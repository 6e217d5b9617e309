------------------------------ MODULE ListJobs ------------------------------
(* The distribution jobs on a Redis list: the id of a job is popped, the job *)
(* read, processed recipient by recipient and written back; recipients that  *)
(* failed are put in the list again until the retries are used up. Whatever  *)
(* processRecipient throws is a failure, an answer lost after the payment    *)
(* included. A worker that dies has popped the id and nobody else knows it.  *)
EXTENDS Integers, Sequences, FiniteSets

CONSTANTS Recipient, Refusing, \* recipients, and those whose transfer always fails
          MaxRetries,          \* maxRetries
          Worker,              \* callers of processNextJob
          MaxGlitches          \* bound on transfers that fail or whose answer is lost, and on deaths

ListJobsAssumption ==
  /\ IsFiniteSet(Recipient) /\ Refusing \subseteq Recipient /\ IsFiniteSet(Worker)
  /\ MaxRetries \in Nat /\ MaxGlitches \in Nat

VARIABLES queue,    \* the id of the job: "new", "listed" or "popped"
          stored,   \* the job as saved in Redis
          worker,   \* each worker's copy, its step, and the run's recipients
          sent,     \* how often a recipient was paid
          unheard,  \* history: how often the answer of a payment was lost
          glitches, deaths

listVars == <<queue, stored, worker, sent, unheard, glitches, deaths>>

NoJob == [status |-> "none", pending |-> {}, successful |-> {}, failed |-> {}, retryCount |-> 0]
Idle  == [step |-> "idle", job |-> NoJob, todo |-> {}, failures |-> {}]

Init ==
  /\ queue = "new" /\ stored = NoJob
  /\ worker = [w \in Worker |-> Idle]
  /\ sent = [r \in Recipient |-> 0] /\ unheard = [r \in Recipient |-> 0] /\ glitches = 0 /\ deaths = 0

\* enqueueJob saves the job ...
Save ==
  /\ stored = NoJob
  /\ stored' = [NoJob EXCEPT !.status = "queued", !.pending = Recipient]
  /\ UNCHANGED <<queue, worker, sent, unheard, glitches, deaths>>

\* ... and then appends its id.
Push ==
  /\ stored.status = "queued" /\ queue = "new"
  /\ queue' = "listed"
  /\ UNCHANGED <<stored, worker, sent, unheard, glitches, deaths>>

\* lPop
Pop(w) ==
  /\ queue = "listed" /\ worker[w] = Idle
  /\ queue' = "popped"
  /\ worker' = [worker EXCEPT ![w].step = "read"]
  /\ UNCHANGED <<stored, sent, unheard, glitches, deaths>>

\* The job is read and saved as processing.
Begin(w) ==
  /\ worker[w].step = "read"
  /\ LET job == [stored EXCEPT !.status = "processing", !.failed = {}]
     IN  /\ stored' = job
         /\ worker' = [worker EXCEPT ![w] = [step |-> "run", job |-> job,
                                             todo |-> job.pending, failures |-> {}]]
  /\ UNCHANGED <<queue, sent, unheard, glitches, deaths>>

\* processRecipient for the next recipient: the payment is made and heard of, or
\* refused, or it is made and its answer is lost, which counts as a failure.
ProcessRecipient(w, r) ==
  /\ worker[w].step = "run" /\ r \in worker[w].todo
  /\ \/ /\ r \notin Refusing
        /\ sent' = [sent EXCEPT ![r] = @ + 1]
        /\ worker' = [worker EXCEPT ![w].todo = @ \ {r}]
        /\ UNCHANGED <<unheard, glitches>>
     \/ /\ IF r \in Refusing THEN UNCHANGED glitches
           ELSE glitches < MaxGlitches /\ glitches' = glitches + 1
        /\ worker' = [worker EXCEPT ![w].todo = @ \ {r}, ![w].failures = @ \cup {r}]
        /\ UNCHANGED <<sent, unheard>>
     \/ /\ r \notin Refusing /\ glitches < MaxGlitches
        /\ glitches' = glitches + 1
        /\ sent' = [sent EXCEPT ![r] = @ + 1] /\ unheard' = [unheard EXCEPT ![r] = @ + 1]
        /\ worker' = [worker EXCEPT ![w].todo = @ \ {r}, ![w].failures = @ \cup {r}]
  /\ UNCHANGED <<queue, stored, deaths>>

\* Variant: one retry more.
Outcome_OneMore(w) ==
  LET job == worker[w].job
      failures == worker[w].failures
      again == failures # {} /\ job.retryCount <= MaxRetries
  IN  [status |-> IF failures = {} THEN "completed" ELSE IF again THEN "retrying" ELSE "failed",
       pending |-> failures, failed |-> failures,
       successful |-> job.successful \cup (job.pending \ failures),
       retryCount |-> job.retryCount + IF again THEN 1 ELSE 0]

Outcome(w) ==
  LET job == worker[w].job
      failures == worker[w].failures
      again == failures # {} /\ job.retryCount < MaxRetries
  IN  [status |-> IF failures = {} THEN "completed" ELSE IF again THEN "retrying" ELSE "failed",
       pending |-> failures, failed |-> failures,
       successful |-> job.successful \cup (job.pending \ failures),
       retryCount |-> job.retryCount + IF again THEN 1 ELSE 0]

\* Variant: all recipients are pending again.
End_AllAgain(w) ==
  /\ worker[w].step = "run" /\ worker[w].todo = {}
  /\ stored' = [Outcome(w) EXCEPT !.pending = IF Outcome(w).status = "retrying" THEN Recipient ELSE @]
  /\ worker' = [worker EXCEPT ![w] = IF Outcome(w).status = "retrying"
                                     THEN [Idle EXCEPT !.step = "push"] ELSE Idle]
  /\ UNCHANGED <<queue, sent, unheard, glitches, deaths>>

\* The outcome is saved.
End(w) ==
  /\ worker[w].step = "run" /\ worker[w].todo = {}
  /\ stored' = Outcome(w)
  /\ worker' = [worker EXCEPT ![w] = IF Outcome(w).status = "retrying"
                                     THEN [Idle EXCEPT !.step = "push"] ELSE Idle]
  /\ UNCHANGED <<queue, sent, unheard, glitches, deaths>>

\* A job that is to be retried is appended again.
PushAgain(w) ==
  /\ worker[w].step = "push"
  /\ queue' = "listed"
  /\ worker' = [worker EXCEPT ![w] = Idle]
  /\ UNCHANGED <<stored, sent, unheard, glitches, deaths>>

Die(w) ==
  /\ worker[w] # Idle /\ deaths < MaxGlitches
  /\ deaths' = deaths + 1
  /\ worker' = [worker EXCEPT ![w] = Idle]
  /\ UNCHANGED <<queue, stored, sent, unheard, glitches>>

Run(w) == Pop(w) \/ Begin(w) \/ End(w) \/ PushAgain(w) \/ \E r \in Recipient : ProcessRecipient(w, r)

Next == Save \/ Push \/ \E w \in Worker : Run(w) \/ Die(w)

-----------------------------------------------------------------------------
Jobs == [status : {"none", "queued", "processing", "retrying", "completed", "failed"},
         pending : SUBSET Recipient, successful : SUBSET Recipient, failed : SUBSET Recipient,
         retryCount : 0..MaxRetries]

TypeOK ==
  /\ queue \in {"new", "listed", "popped"} /\ stored \in Jobs
  /\ worker \in [Worker -> [step : {"idle", "read", "run", "push"}, job : Jobs,
                            todo : SUBSET Recipient, failures : SUBSET Recipient]]
  /\ sent \in [Recipient -> Nat] /\ unheard \in [Recipient -> Nat]
  /\ glitches \in 0..MaxGlitches /\ deaths \in 0..MaxGlitches

\* Nobody is paid more often than once and once per lost answer, nor more often
\* than the job was run, however often workers die and in whatever state they leave
\* it; and whom the job lists as successful was paid and the answer heard.
PaidPerRun ==
  \A r \in Recipient : /\ sent[r] <= unheard[r] + 1
                       /\ sent[r] <= stored.retryCount + 1
                       /\ r \in stored.successful => sent[r] = unheard[r] + 1

\* A job whose workers live has ended.
ListJobEnded == stored.status \in {"none", "completed", "failed"} \/ deaths > 0
=============================================================================
