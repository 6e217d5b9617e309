---------------------------- MODULE Distribution ----------------------------
(* Campaign distribution: the reward-distribution worker pays the recipients *)
(* of a job out of one Stellar account. The recipients of a batch are paid   *)
(* concurrently; every payment loads the account, signs a transaction with   *)
(* the next sequence number and waits for the network, which applies at most *)
(* one transaction for a sequence number. An answer may be lost while its    *)
(* transaction is applied later; a job whose worker died is run again.       *)
(*                                                                           *)
(* Left out: the cache, whose errors are caught, the direct payments of      *)
(* POST /rewards/distribute, and trustlines removed between check and        *)
(* payment.                                                                  *)
EXTENDS Integers, FiniteSets, FiniteSetTheorems, TLAPS

CONSTANTS Job,         \* jobs on the queue
          Size,        \* Size[j]: the number of recipients of job j
          Payable,     \* the tasks whose recipient has a NOVA trustline
          Amount,      \* what each recipient is to get
          Funds,       \* the NOVA the distribution account starts with
          BATCH_SIZE,
          MAX_RECIPIENT_RETRIES,
          Concurrency, \* jobs the worker runs at a time
          MaxStalled   \* how often a job may stall before BullMQ gives it up

Task == UNION {{j} \X (1..Size[j]) : j \in Job}
Attempts == 1..MAX_RECIPIENT_RETRIES

ASSUME DistributionAssumption ==
  /\ IsFiniteSet(Job) /\ Size \in [Job -> Nat \ {0}]
  /\ Payable \subseteq Task
  /\ Amount \in Nat \ {0} /\ Funds \in Nat
  /\ BATCH_SIZE \in Nat \ {0} /\ MAX_RECIPIENT_RETRIES \in Nat \ {0}
  /\ Concurrency \in Nat \ {0} /\ MaxStalled \in Nat

VARIABLES job,      \* the status of each job, where its batch starts, and how
                    \* often it stalled
          task,     \* what is going on for each recipient, and the attempt
          inflight, \* transactions sent and not yet decided
          sequence, \* the sequence number of the distribution account
          funds,    \* its NOVA balance
          payments, \* history: how often each recipient was paid
          lost,     \* history: how many answers for the recipient were lost
          refused,  \* history: the attempts of this run that had a stale sequence
          excused,  \* history: those that were not sent, not answered or not funded
          overtaken \* history: those with another transaction applied meanwhile

attempts == <<refused, excused, overtaken>>
history == <<payments, lost, attempts>>
vars == <<job, task, inflight, sequence, funds, history>>

-----------------------------------------------------------------------------
Steps == {"ahead", "waiting", "submitted", "paid", "failed"}

Ahead == [step |-> "ahead", attempt |-> 1]

Tx == [task : Task, run : 0..MaxStalled, attempt : Attempts, seq : Nat]

\* The task waits for the answer to this transaction.
Awaited(tx) ==
  LET t == tx.task
  IN  /\ task[t].step = "submitted"
      /\ tx.run = job[t[1]].stalls /\ tx.attempt = task[t].attempt

\* The recipients of the batch that starts after the first n.
Batch(j, n) == {t \in Task : t[1] = j /\ t[2] > n /\ t[2] <= n + BATCH_SIZE}

Settled(j) == \A t \in Task : t[1] = j => task[t].step \notin {"waiting", "submitted"}

\* Variant: one attempt too many.
FailAttempt_OneMore(t) ==
  IF task[t].attempt <= MAX_RECIPIENT_RETRIES
  THEN [step |-> "waiting", attempt |-> task[t].attempt + 1]
  ELSE [task[t] EXCEPT !.step = "failed"]

\* The attempt failed: the next one, or none is left.
FailAttempt(t) ==
  IF task[t].attempt < MAX_RECIPIENT_RETRIES
  THEN [step |-> "waiting", attempt |-> task[t].attempt + 1]
  ELSE [task[t] EXCEPT !.step = "failed"]

\* The attempt under way ends without a refusal.
Excuse(t) == [excused EXCEPT ![t] = @ \cup {task[t].attempt}]

-----------------------------------------------------------------------------
Init ==
  /\ job = [j \in Job |-> [status |-> "queued", cursor |-> 0, stalls |-> 0]]
  /\ task = [t \in Task |-> Ahead]
  /\ inflight = {}
  /\ sequence = 0
  /\ funds = Funds
  /\ payments = [t \in Task |-> 0]
  /\ lost = [t \in Task |-> 0]
  /\ refused = [t \in Task |-> {}]
  /\ excused = [t \in Task |-> {}]
  /\ overtaken = [t \in Task |-> {}]

-----------------------------------------------------------------------------
Opened(j, n) ==
  [t \in Task |-> IF t \in Batch(j, n) THEN [step |-> "waiting", attempt |-> 1]
                                       ELSE task[t]]

StartJob(j) ==
  /\ job[j].status = "queued"
  /\ Cardinality({i \in Job : job[i].status = "active"}) < Concurrency
  /\ job' = [job EXCEPT ![j].status = "active", ![j].cursor = 0]
  /\ task' = Opened(j, 0)
  /\ UNCHANGED <<inflight, sequence, funds, history>>

\* Variant: the next batch begins with the last recipient of this one.
NextBatch_Overlaps(j) ==
  /\ job[j].status = "active"
  /\ Settled(j)
  /\ LET next == job[j].cursor + BATCH_SIZE - 1
     IN  IF job[j].cursor + BATCH_SIZE < Size[j]
         THEN /\ job' = [job EXCEPT ![j].cursor = next]
              /\ task' = Opened(j, next)
         ELSE job' = [job EXCEPT ![j].status = "completed"] /\ UNCHANGED task
  /\ UNCHANGED <<inflight, sequence, funds, history>>

\* Promise.all: the whole batch is settled.
NextBatch(j) ==
  /\ job[j].status = "active"
  /\ Settled(j)
  /\ LET next == job[j].cursor + BATCH_SIZE
     IN  IF next < Size[j]
         THEN /\ job' = [job EXCEPT ![j].cursor = next]
              /\ task' = Opened(j, next)
         ELSE job' = [job EXCEPT ![j].status = "completed"] /\ UNCHANGED task
  /\ UNCHANGED <<inflight, sequence, funds, history>>

\* Variant: the account is loaded once for all attempts.
Submit_Stale(t) ==
  /\ task[t].step = "waiting"
  /\ t \in Payable
  /\ funds >= Amount
  /\ task' = [task EXCEPT ![t].step = "submitted"]
  /\ inflight' = inflight \cup {[task |-> t, run |-> job[t[1]].stalls, attempt |-> task[t].attempt,
                                 seq |-> IF task[t].attempt = 1 THEN sequence + 1 ELSE 1]}
  /\ UNCHANGED <<job, sequence, funds, history>>

\* The trustline is checked, the account loaded, the payment signed and sent.
Submit(t) ==
  /\ task[t].step = "waiting"
  /\ t \in Payable
  /\ funds >= Amount
  /\ task' = [task EXCEPT ![t].step = "submitted"]
  /\ inflight' = inflight \cup {[task |-> t, run |-> job[t[1]].stalls,
                                 attempt |-> task[t].attempt, seq |-> sequence + 1]}
  /\ UNCHANGED <<job, sequence, funds, history>>

\* No trustline, not enough funds, or Horizon does not answer: nothing is sent.
NotSubmitted(t) ==
  /\ task[t].step = "waiting"
  /\ task' = [task EXCEPT ![t] = FailAttempt(t)]
  /\ excused' = Excuse(t)
  /\ UNCHANGED <<job, inflight, sequence, funds, payments, lost, refused, overtaken>>

\* The network takes a transaction with the next number: the payment is made,
\* or it fails because the funds are gone, and the number is used all the same.
Apply(tx) ==
  /\ tx.seq = sequence + 1
  /\ inflight' = inflight \ {tx}
  /\ sequence' = sequence + 1
  /\ IF funds >= Amount
     THEN /\ funds' = funds - Amount
          /\ payments' = [payments EXCEPT ![tx.task] = @ + 1]
     ELSE UNCHANGED <<funds, payments>>
  /\ IF Awaited(tx)
     THEN task' = [task EXCEPT ![tx.task] = IF funds >= Amount THEN [@ EXCEPT !.step = "paid"]
                                                               ELSE FailAttempt(tx.task)]
     ELSE UNCHANGED task
  /\ excused' = IF Awaited(tx) /\ funds < Amount THEN Excuse(tx.task) ELSE excused
  /\ overtaken' = [t \in Task |->
       IF task[t].step = "submitted" /\ ~(tx.task = t /\ Awaited(tx))
       THEN overtaken[t] \cup {task[t].attempt} ELSE overtaken[t]]
  /\ UNCHANGED <<job, lost, refused>>

\* tx_bad_seq: another transaction had the number.
Refuse(tx) ==
  /\ Awaited(tx)
  /\ tx.seq <= sequence
  /\ inflight' = inflight \ {tx}
  /\ task' = [task EXCEPT ![tx.task] = FailAttempt(tx.task)]
  /\ refused' = [refused EXCEPT ![tx.task] = @ \cup {task[tx.task].attempt}]
  /\ UNCHANGED <<job, sequence, funds, payments, lost, excused, overtaken>>

\* Variant: a payment that was not answered counts as made.
LoseAnswer_AssumedPaid(tx) ==
  /\ Awaited(tx)
  /\ task' = [task EXCEPT ![tx.task].step = "paid"]
  /\ lost' = [lost EXCEPT ![tx.task] = @ + 1]
  /\ excused' = Excuse(tx.task)
  /\ UNCHANGED <<job, inflight, sequence, funds, payments, refused, overtaken>>

\* The request times out; the network may still apply the transaction.
LoseAnswer(tx) ==
  /\ Awaited(tx)
  /\ task' = [task EXCEPT ![tx.task] = FailAttempt(tx.task)]
  /\ lost' = [lost EXCEPT ![tx.task] = @ + 1]
  /\ excused' = Excuse(tx.task)
  /\ UNCHANGED <<job, inflight, sequence, funds, payments, refused, overtaken>>

\* A transaction nobody waits for is refused, or its time bounds pass.
Drop(tx) ==
  /\ ~Awaited(tx)
  /\ inflight' = inflight \ {tx}
  /\ UNCHANGED <<job, task, sequence, funds, history>>

\* The attempts of a run that ends are no longer those of the run under way.
Forgotten(h) == [t \in Task |-> IF job[t[1]].status = "active" THEN {} ELSE h[t]]

\* The worker dies. Its jobs stall; BullMQ queues each again, from the first
\* recipient, unless it stalled too often.
Crash ==
  /\ job' = [j \in Job |->
       IF job[j].status # "active" THEN job[j]
       ELSE IF job[j].stalls < MaxStalled
            THEN [status |-> "queued", cursor |-> 0, stalls |-> job[j].stalls + 1]
            ELSE [job[j] EXCEPT !.status = "failed"]]
  /\ task' = [t \in Task |-> IF job[t[1]].status = "active" THEN Ahead ELSE task[t]]
  /\ refused' = Forgotten(refused) /\ excused' = Forgotten(excused)
  /\ overtaken' = Forgotten(overtaken)
  /\ UNCHANGED <<inflight, sequence, funds, payments, lost>>

-----------------------------------------------------------------------------
Next ==
  \/ \E j \in Job : StartJob(j) \/ NextBatch(j)
  \/ \E t \in Task : Submit(t) \/ NotSubmitted(t)
  \/ \E tx \in inflight : Apply(tx) \/ Refuse(tx) \/ LoseAnswer(tx) \/ Drop(tx)
  \/ Crash

Spec == Init /\ [][Next]_vars

-----------------------------------------------------------------------------
\* The stored values have their types; the account is never overdrawn.
TypeOK ==
  /\ job \in [Job -> [status : {"queued", "active", "completed", "failed"},
                      cursor : Nat, stalls : 0..MaxStalled]]
  /\ task \in [Task -> [step : Steps, attempt : Attempts]]
  /\ inflight \subseteq Tx
  /\ sequence \in Nat /\ funds \in 0..Funds
  /\ payments \in [Task -> Nat] /\ lost \in [Task -> Nat]
  /\ refused \in [Task -> SUBSET Attempts] /\ excused \in [Task -> SUBSET Attempts]
  /\ overtaken \in [Task -> SUBSET Attempts]

\* A recipient is paid once, and once more for each answer that was lost and
\* each run of the job that stalled: neither retries nor batches pay twice.
PaidOncePerRun == \A t \in Task : payments[t] <= 1 + lost[t] + job[t[1]].stalls

\* The job's result names no recipient as paid who was not.
ReportedPaid == \A t \in Task : task[t].step = "paid" => payments[t] > 0

\* An attempt is refused only if, between the moment it loaded the account and the
\* answer, the network applied another transaction of the account (an earlier attempt of
\* the same recipient included, when its answer was lost). And no recipient is given up
\* before the last attempt, or for another reason than that each of them was refused so,
\* not sent, not funded or not answered.
RefusedByProgress ==
  \A t \in Task :
    /\ refused[t] \subseteq overtaken[t]
    /\ task[t].step = "failed" => Attempts = refused[t] \cup excused[t]

-----------------------------------------------------------------------------
(* Proofs, for any jobs, recipients, batch sizes, attempts and stalls. *)

\* The payments for a recipient that the network may still apply.
Sent(t) == {tx \in inflight : tx.task = t}

\* Only a job that runs, or has run, has recipients that were begun, and those no further
\* than its batch.
Placed(t) ==
  /\ job[t[1]].status \in {"queued", "failed"} => task[t].step = "ahead"
  /\ job[t[1]].status = "active" /\ t[2] > job[t[1]].cursor + BATCH_SIZE => task[t].step = "ahead"

\* A payment that was made or may still be made is that of the attempt that waits for it or
\* was answered, of a lost answer, or of a run that stalled.
PaidFor(t) ==
  payments[t] + Cardinality(Sent(t)) <= lost[t] + job[t[1]].stalls
    + (IF task[t].step \in {"submitted", "paid"} \/ job[t[1]].status = "failed" THEN 1 ELSE 0)

\* What is in flight belongs to earlier runs and attempts, or to the attempt under way,
\* whose number is still to come unless another transaction was applied meanwhile.
Older(tx) ==
  LET t == tx.task
  IN  /\ tx.run <= job[t[1]].stalls
      /\ tx.run = job[t[1]].stalls =>
           /\ task[t].step = "ahead" => job[t[1]].status = "failed"
           /\ task[t].step = "waiting" => tx.attempt < task[t].attempt
           /\ task[t].step = "submitted" => tx.attempt <= task[t].attempt
      /\ Awaited(tx) => sequence < tx.seq \/ task[t].attempt \in overtaken[t]

\* The attempts before the one under way are accounted for.
Tried(t) ==
  task[t].step \in {"waiting", "submitted"} =>
    1..(task[t].attempt - 1) \subseteq refused[t] \cup excused[t]

DistributionInv ==
  /\ TypeOK /\ IsFiniteSet(inflight) /\ ReportedPaid /\ RefusedByProgress
  /\ \A t \in Task : Placed(t) /\ PaidFor(t) /\ Tried(t)
  /\ \A tx \in inflight : Older(tx)

LEMMA TaskOfJob ==
  ASSUME NEW t \in Task
  PROVE  t[1] \in Job /\ t[2] \in Nat
<1>1. PICK j \in Job : t \in {j} \X (1..Size[j])
  BY DEF Task
<1>2. t[2] \in 1..Size[j] /\ Size[j] \in Nat
  BY <1>1, DistributionAssumption
<1>3. QED
  BY <1>1, <1>2

LEMMA SentFinite ==
  ASSUME IsFiniteSet(inflight), NEW t
  PROVE  IsFiniteSet(Sent(t)) /\ Cardinality(Sent(t)) \in Nat
<1>1. Sent(t) \subseteq inflight
  BY DEF Sent
<1>2. QED
  BY <1>1, FS_Subset, FS_CardinalityType

LEMMA OneMore ==
  ASSUME NEW S, IsFiniteSet(S), NEW x
  PROVE  Cardinality(S \cup {x}) \in Nat /\ Cardinality(S \cup {x}) <= Cardinality(S) + 1
<1>1. Cardinality(S) \in Nat
  BY FS_CardinalityType
<1>2. CASE x \in S
  <2>1. S \cup {x} = S
    BY <1>2
  <2>2. QED
    BY <1>1, <2>1
<1>3. CASE x \notin S
  BY <1>1, <1>3, FS_AddElement
<1>4. QED
  BY <1>2, <1>3

LEMMA InitDistribution == Init => DistributionInv
<1> SUFFICES ASSUME Init PROVE DistributionInv
  OBVIOUS
<1>1. /\ 0 \in Nat /\ 0 \in 0..MaxStalled /\ 1 \in 1..MAX_RECIPIENT_RETRIES /\ Funds \in 0..Funds
  BY DistributionAssumption
<1>2. TypeOK
  <2>1. job \in [Job -> [status : {"queued", "active", "completed", "failed"},
                         cursor : Nat, stalls : 0..MaxStalled]]
    BY <1>1 DEF Init
  <2>2. task \in [Task -> [step : Steps, attempt : Attempts]]
    BY <1>1 DEF Init, Ahead, Steps, Attempts
  <2>3. QED
    BY <1>1, <2>1, <2>2 DEF Init, TypeOK
<1>3. ReportedPaid /\ RefusedByProgress /\ IsFiniteSet(inflight) /\ \A tx \in inflight : Older(tx)
  BY FS_EmptySet DEF Init, ReportedPaid, RefusedByProgress, Ahead
<1>4. ASSUME NEW t \in Task PROVE Placed(t) /\ PaidFor(t) /\ Tried(t)
  <2>1. Sent(t) = {} /\ Cardinality(Sent(t)) = 0
    BY FS_EmptySet DEF Init, Sent
  <2>2. QED
    BY <2>1, TaskOfJob DEF Init, Placed, PaidFor, Tried, Ahead
<1>5. QED
  BY <1>2, <1>3, <1>4 DEF DistributionInv

\* A batch is opened: its recipients are all still ahead.
LEMMA OpenKeeps ==
  ASSUME DistributionInv, NEW j \in Job, NEW n \in Nat,
         \A t \in Batch(j, n) : task[t].step = "ahead",
         job[j].status \in {"queued", "active"},
         job[j].status = "queued" \/ \A t \in Task : t[1] = j /\ t[2] > n + BATCH_SIZE => task[t].step = "ahead",
         job' = [job EXCEPT ![j].status = "active", ![j].cursor = n],
         task' = Opened(j, n),
         UNCHANGED <<inflight, sequence, funds, history>>
  PROVE  DistributionInv'
<1>1. /\ job \in [Job -> [status : {"queued", "active", "completed", "failed"},
                          cursor : Nat, stalls : 0..MaxStalled]]
      /\ task \in [Task -> [step : Steps, attempt : Attempts]]
      /\ inflight \subseteq Tx
      /\ BATCH_SIZE \in Nat /\ 1 \in Attempts
  BY DistributionAssumption DEF DistributionInv, TypeOK, Attempts
<1>2. /\ \A i \in Job : job'[i].stalls = job[i].stalls /\ (i # j => job'[i] = job[i])
      /\ job'[j].status = "active" /\ job'[j].cursor = n
      /\ job' \in [Job -> [status : {"queued", "active", "completed", "failed"},
                           cursor : Nat, stalls : 0..MaxStalled]]
  BY <1>1, ZenonT(60)
<1>3. ASSUME NEW t \in Task
      PROVE  \/ /\ t \in Batch(j, n) /\ task[t].step = "ahead"
                /\ task'[t] = [step |-> "waiting", attempt |-> 1]
             \/ t \notin Batch(j, n) /\ task'[t] = task[t]
  BY DEF Opened
<1>4. task' \in [Task -> [step : Steps, attempt : Attempts]]
  BY <1>1 DEF Opened, Steps
<1>5. TypeOK' /\ IsFiniteSet(inflight)'
  BY <1>2, <1>4 DEF DistributionInv, TypeOK, history, attempts
<1>6. ReportedPaid' /\ RefusedByProgress'
  BY <1>3 DEF DistributionInv, ReportedPaid, RefusedByProgress, history, attempts
<1>7. ASSUME NEW t \in Task PROVE Placed(t)' /\ PaidFor(t)' /\ Tried(t)'
  <2>1. t[1] \in Job /\ t[2] \in Nat /\ Placed(t) /\ PaidFor(t) /\ Sent(t)' = Sent(t)
    BY TaskOfJob DEF DistributionInv, Sent
  <2>2. Placed(t)'
    <3>1. CASE t[1] = j
      <4>1. t \notin Batch(j, n) /\ t[2] > n + BATCH_SIZE => task'[t].step = "ahead"
        BY <1>3, <2>1, <3>1 DEF Placed
      <4>2. t[2] > n + BATCH_SIZE => t \notin Batch(j, n)
        BY <1>1, <2>1 DEF Batch
      <4>3. QED
        BY <1>2, <3>1, <4>1, <4>2 DEF Placed
    <3>2. CASE t[1] # j
      <4>1. t \notin Batch(j, n)
        BY <3>2 DEF Batch
      <4>2. QED
        BY <1>2, <1>3, <2>1, <3>2, <4>1 DEF Placed
    <3>3. QED
      BY <3>1, <3>2
  <2>3. PaidFor(t)'
    BY <1>2, <1>3, <2>1 DEF PaidFor, history
  <2>4. Tried(t)'
    <3>1. 1..(1 - 1) = {}
      OBVIOUS
    <3>2. QED
      BY <1>3, <3>1 DEF DistributionInv, Tried, history, attempts
  <2>5. QED
    BY <2>2, <2>3, <2>4
<1>8. ASSUME NEW tx \in inflight PROVE Older(tx)'
  <2>1. tx.task \in Task /\ tx.task[1] \in Job /\ Older(tx)
    BY <1>1, TaskOfJob DEF Tx, DistributionInv
  <2>2. CASE tx.task \in Batch(j, n)
    BY <1>2, <1>3, <2>1, <2>2 DEF Older, Awaited, Batch
  <2>3. CASE tx.task \notin Batch(j, n)
    BY <1>2, <1>3, <2>1, <2>3 DEF Older, Awaited, history, attempts, Placed, DistributionInv
  <2>4. QED
    BY <2>2, <2>3
<1>9. QED
  BY <1>5, <1>6, <1>7, <1>8 DEF DistributionInv

LEMMA JobSteps ==
  ASSUME DistributionInv, NEW j \in Job, StartJob(j) \/ NextBatch(j)
  PROVE  DistributionInv'
<1>1. /\ job \in [Job -> [status : {"queued", "active", "completed", "failed"},
                          cursor : Nat, stalls : 0..MaxStalled]]
      /\ inflight \subseteq Tx
      /\ BATCH_SIZE \in Nat
  BY DistributionAssumption DEF DistributionInv, TypeOK
<1>2. CASE StartJob(j)
  <2>1. \A t \in Batch(j, 0) : task[t].step = "ahead"
    BY <1>2 DEF StartJob, DistributionInv, Placed, Batch
  <2>2. QED
    BY <1>2, <2>1, OpenKeeps DEF StartJob
<1>3. CASE NextBatch(j)
  <2> DEFINE next == job[j].cursor + BATCH_SIZE
  <2>1. next \in Nat /\ job[j].status = "active"
    BY <1>1, <1>3 DEF NextBatch
  <2>2. CASE next < Size[j]
    <3>1. \A t \in Task : t[1] = j /\ t[2] > next => task[t].step = "ahead"
      BY <2>1 DEF DistributionInv, Placed
    <3>2. \A t \in Batch(j, next) : task[t].step = "ahead"
      BY <3>1 DEF Batch
    <3>3. \A t \in Task : t[1] = j /\ t[2] > next + BATCH_SIZE => task[t].step = "ahead"
      BY <1>1, <2>1, <3>1, TaskOfJob
    <3>4. job' = [job EXCEPT ![j].status = "active", ![j].cursor = next]
      <4>1. job' = [job EXCEPT ![j].cursor = next]
        BY <1>3, <2>2 DEF NextBatch
      <4>2. job[j] \in [status : {"queued", "active", "completed", "failed"},
                        cursor : Nat, stalls : 0..MaxStalled]
        BY <1>1
      <4> HIDE DEF next
      <4>3. [job[j] EXCEPT !.cursor = next] = [job[j] EXCEPT !.status = "active", !.cursor = next]
        BY <2>1, <4>2
      <4>4. QED
        BY <1>1, <4>1, <4>3
    <3>5. task' = Opened(j, next) /\ UNCHANGED <<inflight, sequence, funds, history>>
      BY <1>3, <2>2 DEF NextBatch
    <3>6. QED
      BY <2>1, <3>2, <3>3, <3>4, <3>5, OpenKeeps
  <2>3. CASE ~(next < Size[j])
    <3>1. /\ job' = [job EXCEPT ![j].status = "completed"]
          /\ UNCHANGED <<task, inflight, sequence, funds, payments, lost>>
          /\ UNCHANGED <<refused, excused, overtaken>>
      BY <1>3, <2>3 DEF NextBatch, history, attempts
    <3>2. /\ \A i \in Job : job'[i].stalls = job[i].stalls /\ (i # j => job'[i] = job[i])
          /\ job'[j].status = "completed"
          /\ job' \in [Job -> [status : {"queued", "active", "completed", "failed"},
                               cursor : Nat, stalls : 0..MaxStalled]]
      BY <1>1, <3>1
    <3>3. \A t \in Task : Placed(t)' /\ PaidFor(t)' /\ Tried(t)'
      BY <2>1, <3>1, <3>2, TaskOfJob, ZenonT(60) DEF DistributionInv, Placed, PaidFor, Tried, Sent
    <3>4. \A tx \in inflight : Older(tx)'
      BY <1>1, <2>1, <3>1, <3>2, TaskOfJob DEF DistributionInv, Older, Awaited, Tx
    <3>5. QED
      BY <3>1, <3>2, <3>3, <3>4 DEF DistributionInv, TypeOK, ReportedPaid, RefusedByProgress
  <2>4. QED
    BY <2>2, <2>3
<1>4. QED
  BY <1>2, <1>3

\* A recipient's attempt ends: with its payment, or failed, with or without a next one.
LEMMA AttemptEnds ==
  ASSUME DistributionInv, NEW t \in Task, task[t].step \in {"waiting", "submitted"},
         NEW r \in [step : {"waiting", "paid", "failed"}, attempt : Attempts],
         r.step = "waiting" => r.attempt = task[t].attempt + 1,
         r.step = "failed" => task[t].attempt = MAX_RECIPIENT_RETRIES,
         task' = [task EXCEPT ![t] = r],
         job' = job, inflight' \subseteq inflight,
         sequence' \in {sequence, sequence + 1}, funds' \in 0..Funds,
         payments' \in [Task -> Nat], lost' \in [Task -> Nat],
         refused' \in [Task -> SUBSET Attempts], excused' \in [Task -> SUBSET Attempts],
         overtaken' \in [Task -> SUBSET Attempts],
         \A u \in Task \ {t} : /\ payments'[u] = payments[u] /\ lost'[u] = lost[u]
                               /\ refused'[u] = refused[u] /\ excused'[u] = excused[u]
                               /\ overtaken[u] \subseteq overtaken'[u],
         \A u \in Task \ {t} : sequence' # sequence /\ task[u].step = "submitted" =>
                                task[u].attempt \in overtaken'[u],
         r.step = "paid" => payments'[t] > 0,
         refused'[t] \subseteq overtaken'[t],
         refused[t] \cup excused[t] \subseteq refused'[t] \cup excused'[t],
         r.step # "paid" => task[t].attempt \in refused'[t] \cup excused'[t],
         PaidFor(t)'
  PROVE  DistributionInv'
<1>1. /\ job \in [Job -> [status : {"queued", "active", "completed", "failed"},
                          cursor : Nat, stalls : 0..MaxStalled]]
      /\ task \in [Task -> [step : Steps, attempt : Attempts]]
      /\ inflight \subseteq Tx /\ sequence \in Nat /\ IsFiniteSet(inflight)
      /\ payments \in [Task -> Nat] /\ lost \in [Task -> Nat]
      /\ refused \in [Task -> SUBSET Attempts] /\ excused \in [Task -> SUBSET Attempts]
      /\ MAX_RECIPIENT_RETRIES \in Nat /\ BATCH_SIZE \in Nat
  BY DistributionAssumption DEF DistributionInv, TypeOK
<1>2. /\ task'[t] = r /\ \A u \in Task \ {t} : task'[u] = task[u]
      /\ task' \in [Task -> [step : Steps, attempt : Attempts]]
  BY <1>1 DEF Steps
<1>3. TypeOK' /\ IsFiniteSet(inflight)'
  BY <1>1, <1>2, FS_Subset DEF DistributionInv, TypeOK
<1>4. ReportedPaid'
  BY <1>2 DEF DistributionInv, ReportedPaid
<1>5. /\ RefusedByProgress'
      /\ \A u \in Task : Tried(u)'
  <2>1. ASSUME NEW u \in Task
        PROVE  /\ refused'[u] \subseteq overtaken'[u]
               /\ task'[u].step = "failed" => Attempts = refused'[u] \cup excused'[u]
               /\ Tried(u)'
    <3>1. CASE u # t
      <4>1. /\ refused'[u] = refused[u] /\ excused'[u] = excused[u] /\ task'[u] = task[u]
            /\ overtaken[u] \subseteq overtaken'[u]
        BY <1>2, <3>1
      <4>2. QED
        BY <4>1 DEF DistributionInv, RefusedByProgress, Tried
    <3>2. CASE u = t
      <4> DEFINE done == refused'[t] \cup excused'[t]
      <4>1. /\ 1..(task[t].attempt - 1) \subseteq done /\ done \subseteq Attempts
            /\ task[t].attempt \in Attempts
            /\ r.step # "paid" => task[t].attempt \in done
        BY <1>1 DEF DistributionInv, Tried
      <4> HIDE DEF done
      <4>2. ASSUME r.step # "paid", NEW i \in 1..task[t].attempt
            PROVE  i \in done
        <5>1. task[t].attempt \in Nat /\ task[t].attempt \in done
          BY <1>1, <4>1, <4>2 DEF Attempts
        <5>2. i # task[t].attempt => i \in 1..(task[t].attempt - 1)
          BY <5>1
        <5>3. QED
          BY <4>1, <5>1, <5>2
      <4>3. r.step = "waiting" => r.attempt - 1 = task[t].attempt
        BY <1>1, <4>1 DEF Attempts
      <4>4. /\ r.step = "waiting" => 1..(r.attempt - 1) \subseteq done
            /\ r.step = "failed" => Attempts = done
        BY <4>1, <4>2, <4>3 DEF Attempts
      <4>5. r.step # "submitted"
        OBVIOUS
      <4>6. QED
        BY <1>2, <3>2, <4>4, <4>5 DEF Tried, done
    <3>3. QED
      BY <3>1, <3>2
  <2>2. QED
    BY <2>1 DEF RefusedByProgress
<1>6. ASSUME NEW u \in Task PROVE Placed(u)' /\ PaidFor(u)'
  <2>1. u[1] \in Job /\ u[2] \in Nat /\ Placed(u) /\ PaidFor(u) /\ Placed(t)
    BY TaskOfJob DEF DistributionInv
  <2>2. CASE u = t
    BY <1>2, <2>1, <2>2 DEF Placed
  <2>3. CASE u # t
    <3>1. Sent(u)' \subseteq Sent(u)
      BY DEF Sent
    <3>2. Cardinality(Sent(u)') <= Cardinality(Sent(u)) /\ Cardinality(Sent(u)') \in Nat
      BY <1>1, <3>1, SentFinite, FS_Subset, FS_CardinalityType
    <3>3. Placed(u)'
      BY <1>2, <2>1, <2>3 DEF Placed
    <3>4. /\ Cardinality(Sent(u)) \in Nat /\ payments[u] \in Nat /\ lost[u] \in Nat
          /\ job[u[1]].stalls \in Nat
      BY <1>1, <2>1, SentFinite
    <3>5. PaidFor(u)'
      BY <1>2, <2>1, <2>3, <3>2, <3>4 DEF PaidFor
    <3>6. QED
      BY <3>3, <3>5
  <2>4. QED
    BY <2>2, <2>3
<1>7. ASSUME NEW tx \in inflight' PROVE Older(tx)'
  <2>1. /\ tx \in inflight /\ tx.task \in Task /\ Older(tx)
        /\ tx.run \in Int /\ tx.attempt \in Nat /\ task[t].attempt \in Nat /\ r.attempt \in Nat
        /\ tx.seq \in Nat
    BY <1>1, DistributionAssumption DEF Tx, Attempts, DistributionInv
  <2>2. CASE tx.task = t
    BY <1>2, <2>1, <2>2 DEF Older, Awaited
  <2>3. CASE tx.task # t
    <3>1. /\ task'[tx.task] = task[tx.task] /\ overtaken[tx.task] \subseteq overtaken'[tx.task]
          /\ sequence' # sequence /\ task[tx.task].step = "submitted" =>
               task[tx.task].attempt \in overtaken'[tx.task]
      BY <1>2, <2>1, <2>3
    <3>2. QED
      BY <2>1, <3>1 DEF Older, Awaited
  <2>4. QED
    BY <2>2, <2>3
<1>8. QED
  BY <1>3, <1>4, <1>5, <1>6, <1>7 DEF DistributionInv

\* A transaction that nobody waits for is applied or dropped.
LEMMA UnawaitedEnds ==
  ASSUME DistributionInv, NEW tx \in inflight, NEW paid \in {0, 1},
         task' = task, job' = job, inflight' = inflight \ {tx},
         sequence' \in {sequence, sequence + 1}, funds' \in 0..Funds,
         payments' = [payments EXCEPT ![tx.task] = @ + paid],
         overtaken' \in [Task -> SUBSET Attempts],
         \A u \in Task : overtaken[u] \subseteq overtaken'[u],
         \A u \in Task : sequence' # sequence /\ task[u].step = "submitted" =>
                          task[u].attempt \in overtaken'[u],
         UNCHANGED <<lost, refused, excused>>
  PROVE  DistributionInv'
<1>1. /\ job \in [Job -> [status : {"queued", "active", "completed", "failed"},
                          cursor : Nat, stalls : 0..MaxStalled]]
      /\ inflight \subseteq Tx /\ sequence \in Nat /\ IsFiniteSet(inflight)
      /\ payments \in [Task -> Nat] /\ lost \in [Task -> Nat]
      /\ tx.task \in Task
  BY DEF DistributionInv, TypeOK, Tx
<1>2. payments' \in [Task -> Nat] /\ \A u \in Task : payments'[u] >= payments[u]
  BY <1>1
<1>3. TypeOK' /\ IsFiniteSet(inflight)' /\ ReportedPaid' /\ RefusedByProgress'
  <2>1. TypeOK' /\ IsFiniteSet(inflight)'
    BY <1>1, <1>2, FS_Subset DEF DistributionInv, TypeOK
  <2>2. ReportedPaid' /\ RefusedByProgress'
    BY <1>1, <1>2 DEF DistributionInv, ReportedPaid, RefusedByProgress
  <2>3. QED
    BY <2>1, <2>2
<1>4. ASSUME NEW u \in Task PROVE Placed(u)' /\ PaidFor(u)' /\ Tried(u)'
  <2>1. u[1] \in Job /\ Placed(u) /\ PaidFor(u)
    BY TaskOfJob DEF DistributionInv
  <2>2. /\ Cardinality(Sent(u)) \in Nat /\ IsFiniteSet(Sent(u)) /\ payments[u] \in Nat
        /\ lost[u] \in Nat /\ job[u[1]].stalls \in Nat
    BY <1>1, <2>1, SentFinite
  <2>3. payments'[u] + Cardinality(Sent(u)') <= payments[u] + Cardinality(Sent(u))
    <3>1. CASE u = tx.task
      <4>1. Sent(u)' = Sent(u) \ {tx} /\ tx \in Sent(u)
        BY <3>1 DEF Sent
      <4>2. Cardinality(Sent(u)') = Cardinality(Sent(u)) - 1
        BY <2>2, <4>1, FS_RemoveElement, ZenonT(60)
      <4>3. payments'[u] = payments[u] + paid
        BY <1>1, <3>1
      <4>4. QED
        BY <2>2, <4>2, <4>3
    <3>2. CASE u # tx.task
      <4>1. Sent(u)' = Sent(u) /\ payments'[u] = payments[u]
        BY <1>1, <3>2 DEF Sent
      <4>2. QED
        BY <2>2, <4>1
    <3>3. QED
      BY <3>1, <3>2
  <2>4. IsFiniteSet(Sent(u)') /\ Cardinality(Sent(u)') \in Nat /\ payments'[u] \in Nat
    BY <1>2, <1>3, SentFinite, FS_CardinalityType, FS_Subset, <2>2 DEF Sent
  <2>5. QED
    BY <2>1, <2>2, <2>3, <2>4 DEF Placed, PaidFor, Tried, DistributionInv
<1>5. ASSUME NEW other \in inflight' PROVE Older(other)'
  <2>1. other \in inflight /\ other.task \in Task /\ other.seq \in Nat /\ Older(other)
    BY <1>1 DEF DistributionInv, Tx
  <2>2. QED
    BY <1>1, <2>1 DEF Older, Awaited
<1>6. QED
  BY <1>3, <1>4, <1>5 DEF DistributionInv

\* The next attempt of a recipient, if there is one.
LEMMA NextAttempt ==
  ASSUME TypeOK, NEW t \in Task
  PROVE  /\ FailAttempt(t) \in [step : {"waiting", "paid", "failed"}, attempt : Attempts]
         /\ FailAttempt(t).step \in {"waiting", "failed"}
         /\ FailAttempt(t).step = "waiting" => FailAttempt(t).attempt = task[t].attempt + 1
         /\ FailAttempt(t).step = "failed" => task[t].attempt = MAX_RECIPIENT_RETRIES
<1>1. /\ task[t] \in [step : Steps, attempt : Attempts]
      /\ MAX_RECIPIENT_RETRIES \in Nat
  BY DistributionAssumption DEF TypeOK
<1>2. CASE task[t].attempt < MAX_RECIPIENT_RETRIES
  BY <1>1, <1>2 DEF FailAttempt, Attempts
<1>3. CASE ~(task[t].attempt < MAX_RECIPIENT_RETRIES)
  BY <1>1, <1>3 DEF FailAttempt, Attempts
<1>4. QED
  BY <1>2, <1>3

\* The attempt under way is excused.
LEMMA ExcuseOne ==
  ASSUME TypeOK, NEW t \in Task, excused' = Excuse(t)
  PROVE  /\ excused' \in [Task -> SUBSET Attempts]
         /\ excused'[t] = excused[t] \cup {task[t].attempt}
         /\ \A u \in Task \ {t} : excused'[u] = excused[u]
<1>1. task[t].attempt \in Attempts /\ excused \in [Task -> SUBSET Attempts]
  BY DEF TypeOK
<1>2. excused' = [excused EXCEPT ![t] = excused[t] \cup {task[t].attempt}]
  BY DEF Excuse
<1>3. QED
  BY <1>1, <1>2

LEMMA SubmitKeeps ==
  ASSUME DistributionInv, NEW t \in Task, Submit(t)
  PROVE  DistributionInv'
<1> DEFINE tx == [task |-> t, run |-> job[t[1]].stalls, attempt |-> task[t].attempt, seq |-> sequence + 1]
<1>1. /\ job \in [Job -> [status : {"queued", "active", "completed", "failed"},
                          cursor : Nat, stalls : 0..MaxStalled]]
      /\ task \in [Task -> [step : Steps, attempt : Attempts]]
      /\ inflight \subseteq Tx /\ sequence \in Nat /\ IsFiniteSet(inflight)
      /\ payments \in [Task -> Nat] /\ lost \in [Task -> Nat]
      /\ t[1] \in Job
  BY TaskOfJob DEF DistributionInv, TypeOK
<1>2. /\ task[t].step = "waiting" /\ task' = [task EXCEPT ![t].step = "submitted"]
      /\ inflight' = inflight \cup {tx}
      /\ UNCHANGED <<job, sequence, funds, payments, lost, refused, excused, overtaken>>
  BY DEF Submit, history, attempts
<1>3. /\ task'[t].step = "submitted" /\ task'[t].attempt = task[t].attempt
      /\ \A u \in Task \ {t} : task'[u] = task[u]
      /\ task' \in [Task -> [step : Steps, attempt : Attempts]]
  BY <1>1, <1>2 DEF Steps
<1>4. tx \in Tx
  BY <1>1 DEF Tx
<1>5. TypeOK' /\ IsFiniteSet(inflight)' /\ ReportedPaid' /\ RefusedByProgress'
  BY <1>1, <1>2, <1>3, <1>4, FS_AddElement DEF DistributionInv, TypeOK, ReportedPaid, RefusedByProgress
<1>6. ASSUME NEW u \in Task PROVE Placed(u)' /\ PaidFor(u)' /\ Tried(u)'
  <2>1. u[1] \in Job /\ u[2] \in Nat /\ Placed(u) /\ PaidFor(u)
    BY TaskOfJob DEF DistributionInv
  <2>2. CASE u = t
    <3>1. Sent(t)' = Sent(t) \cup {tx}
      BY <1>2 DEF Sent
    <3>2. /\ Cardinality(Sent(t)') <= Cardinality(Sent(t)) + 1 /\ Cardinality(Sent(t)') \in Nat
          /\ Cardinality(Sent(t)) \in Nat
      <4>1. IsFiniteSet(Sent(t)) /\ Cardinality(Sent(t)) \in Nat
        BY <1>1, SentFinite
      <4> HIDE DEF tx
      <4>2. Cardinality(Sent(t) \cup {tx}) <= Cardinality(Sent(t)) + 1 /\ Cardinality(Sent(t) \cup {tx}) \in Nat
        BY <4>1, OneMore
      <4>3. QED
        BY <3>1, <4>1, <4>2
    <3>3. payments[t] \in Nat /\ lost[t] \in Nat /\ job[t[1]].stalls \in Nat
      BY <1>1
    <3>4. job[t[1]].status \notin {"queued", "failed"}
      BY <1>2, <2>1, <2>2 DEF Placed
    <3>5. PaidFor(t)'
      BY <1>2, <1>3, <2>1, <2>2, <3>2, <3>3, <3>4 DEF PaidFor
    <3>6. Placed(t)'
      BY <1>2, <1>3, <2>1, <2>2, <3>4 DEF Placed
    <3>7. Tried(t)'
      BY <1>2, <1>3 DEF DistributionInv, Tried
    <3>8. QED
      BY <2>2, <3>5, <3>6, <3>7
  <2>3. CASE u # t
    <3>1. Sent(u)' = Sent(u)
      BY <1>2, <2>3 DEF Sent
    <3>2. QED
      BY <1>2, <1>3, <2>1, <2>3, <3>1 DEF Placed, PaidFor, Tried, DistributionInv
  <2>4. QED
    BY <2>2, <2>3
<1>7. ASSUME NEW other \in inflight' PROVE Older(other)'
  <2>1. CASE other = tx
    <3>1. sequence < sequence + 1 /\ task[t].attempt \in Nat /\ job[t[1]].stalls \in Nat
      BY <1>1, DistributionAssumption DEF Attempts
    <3>2. QED
      BY <1>1, <1>2, <1>3, <2>1, <3>1 DEF Older, Awaited
  <2>2. CASE other \in inflight
    <3>1. /\ other.task \in Task /\ Older(other) /\ other.attempt \in Nat /\ other.run \in Int
          /\ task[t].attempt \in Nat
      BY <1>1, <2>2, DistributionAssumption DEF Tx, Attempts, DistributionInv
    <3>2. CASE other.task = t
      BY <1>2, <1>3, <3>1, <3>2 DEF Older, Awaited
    <3>3. CASE other.task # t
      BY <1>2, <1>3, <3>1, <3>3 DEF Older, Awaited
    <3>4. QED
      BY <3>2, <3>3
  <2>3. QED
    BY <1>2, <2>1, <2>2
<1>8. QED
  BY <1>5, <1>6, <1>7 DEF DistributionInv

LEMMA NotSubmittedKeeps ==
  ASSUME DistributionInv, NEW t \in Task, NotSubmitted(t)
  PROVE  DistributionInv'
<1>1. /\ task \in [Task -> [step : Steps, attempt : Attempts]]
      /\ payments \in [Task -> Nat] /\ lost \in [Task -> Nat]
      /\ refused \in [Task -> SUBSET Attempts] /\ overtaken \in [Task -> SUBSET Attempts]
      /\ funds \in 0..Funds /\ TypeOK
  BY DEF DistributionInv, TypeOK
<1>2. /\ task[t].step = "waiting" /\ task' = [task EXCEPT ![t] = FailAttempt(t)]
      /\ excused' = Excuse(t)
      /\ UNCHANGED <<job, inflight, sequence, funds, payments, lost, refused, overtaken>>
  BY DEF NotSubmitted
<1>3. refused'[t] \subseteq overtaken'[t]
  BY <1>2 DEF DistributionInv, RefusedByProgress
<1>4. PaidFor(t)'
  <2>1. task'[t].step \in {"waiting", "failed"} /\ PaidFor(t)
    BY <1>1, <1>2, NextAttempt DEF DistributionInv
  <2>2. QED
    BY <1>2, <2>1 DEF PaidFor, Sent
<1>5. FailAttempt(t).step # "paid"
  BY <1>1, NextAttempt
<1>6. /\ excused' \in [Task -> SUBSET Attempts]
      /\ refused[t] \cup excused[t] \subseteq refused'[t] \cup excused'[t]
      /\ task[t].attempt \in refused'[t] \cup excused'[t]
      /\ \A u \in Task \ {t} : excused'[u] = excused[u]
  BY <1>1, <1>2, ExcuseOne
<1>7. QED
  BY <1>1, <1>2, <1>3, <1>4, <1>5, <1>6, NextAttempt, AttemptEnds

\* An awaited transaction: its recipient waits for it, and it is one of those sent.
LEMMA AwaitedSent ==
  ASSUME DistributionInv, NEW tx \in inflight, Awaited(tx)
  PROVE  /\ tx.task \in Task /\ tx.task[1] \in Job /\ task[tx.task].step = "submitted"
         /\ sequence < tx.seq \/ task[tx.task].attempt \in overtaken[tx.task]
         /\ tx.seq \in Nat
         /\ job[tx.task[1]].status # "failed"
         /\ payments[tx.task] + Cardinality(Sent(tx.task)) <= lost[tx.task] + job[tx.task[1]].stalls + 1
         /\ Cardinality({s \in inflight \ {tx} : s.task = tx.task}) = Cardinality(Sent(tx.task)) - 1
<1>1. tx.task \in Task /\ tx.seq \in Nat
  BY DEF DistributionInv, TypeOK, Tx
<1>2. tx.task[1] \in Job
  BY <1>1, TaskOfJob
<1>3. /\ task[tx.task].step = "submitted"
      /\ sequence < tx.seq \/ task[tx.task].attempt \in overtaken[tx.task]
  BY DEF DistributionInv, Older, Awaited
<1>4. job[tx.task[1]].status # "failed" /\ PaidFor(tx.task)
  BY <1>1, <1>3 DEF DistributionInv, Placed
<1>5. IsFiniteSet(Sent(tx.task)) /\ tx \in Sent(tx.task)
  BY SentFinite DEF DistributionInv, Sent
<1>6. {s \in inflight \ {tx} : s.task = tx.task} = Sent(tx.task) \ {tx}
  BY DEF Sent
<1>7. QED
  BY <1>1, <1>2, <1>3, <1>4, <1>5, <1>6, FS_RemoveElement DEF PaidFor

LEMMA ApplyKeeps ==
  ASSUME DistributionInv, NEW tx \in inflight, Apply(tx)
  PROVE  DistributionInv'
<1> DEFINE t == tx.task
<1>1. /\ task \in [Task -> [step : Steps, attempt : Attempts]]
      /\ payments \in [Task -> Nat] /\ lost \in [Task -> Nat]
      /\ refused \in [Task -> SUBSET Attempts] /\ excused \in [Task -> SUBSET Attempts]
      /\ funds \in 0..Funds /\ sequence \in Nat /\ TypeOK /\ t \in Task
      /\ job \in [Job -> [status : {"queued", "active", "completed", "failed"},
                          cursor : Nat, stalls : 0..MaxStalled]]
  BY DEF DistributionInv, TypeOK, Tx
<1>2. /\ inflight' = inflight \ {tx} /\ sequence' = sequence + 1
      /\ UNCHANGED <<job, lost, refused>>
  BY DEF Apply
<1>3. funds' \in 0..Funds
  BY <1>1, DistributionAssumption DEF Apply
<1>4. \/ funds >= Amount /\ payments' = [payments EXCEPT ![t] = @ + 1]
      \/ ~(funds >= Amount) /\ payments' = payments
  BY DEF Apply
<1>5. /\ overtaken' \in [Task -> SUBSET Attempts]
      /\ \A u \in Task : overtaken[u] \subseteq overtaken'[u]
      /\ \A u \in Task : /\ task[u].step = "submitted"
                         /\ u # t \/ ~Awaited(tx)
                         => task[u].attempt \in overtaken'[u]
  <2>1. overtaken' = [u \in Task |->
          IF task[u].step = "submitted" /\ ~(tx.task = u /\ Awaited(tx))
          THEN overtaken[u] \cup {task[u].attempt} ELSE overtaken[u]]
    BY DEF Apply
  <2>2. overtaken \in [Task -> SUBSET Attempts] /\ \A u \in Task : task[u].attempt \in Attempts
    BY <1>1 DEF TypeOK
  <2> DEFINE w(u) == IF task[u].step = "submitted" /\ ~(tx.task = u /\ Awaited(tx))
                     THEN overtaken[u] \cup {task[u].attempt} ELSE overtaken[u]
  <2>3. ASSUME NEW u \in Task
        PROVE  w(u) \in SUBSET Attempts /\ overtaken[u] \subseteq w(u)
    BY <2>2
  <2>4. overtaken' = [u \in Task |-> w(u)]
    BY <2>1
  <2>5. overtaken' \in [Task -> SUBSET Attempts] /\ \A u \in Task : overtaken'[u] = w(u)
    <3> HIDE DEF w
    <3>1. QED
      BY <2>3, <2>4
  <2>6. QED
    BY <2>3, <2>5
<1>6. CASE Awaited(tx)
  <2>1. /\ t[1] \in Job /\ task[t].step = "submitted" /\ job[t[1]].status # "failed"
        /\ payments[t] + Cardinality(Sent(t)) <= lost[t] + job[t[1]].stalls + 1
        /\ Cardinality(Sent(t)') = Cardinality(Sent(t)) - 1
        /\ Cardinality(Sent(t)) \in Nat /\ payments[t] \in Nat /\ lost[t] \in Nat
        /\ job[t[1]].stalls \in Nat
    <3>1. Sent(t)' = {s \in inflight \ {tx} : s.task = tx.task}
      BY <1>2 DEF Sent
    <3>2. Cardinality(Sent(t)) \in Nat
      BY SentFinite DEF DistributionInv
    <3>3. t[1] \in Job
      BY <1>6, AwaitedSent
    <3>4. payments[t] \in Nat /\ lost[t] \in Nat /\ job[t[1]].stalls \in Nat
      BY <1>1, <3>3
    <3>5. QED
      BY <1>6, <3>1, <3>2, <3>3, <3>4, AwaitedSent
  <2>2. refused'[t] \subseteq overtaken'[t]
    BY <1>1, <1>2, <1>5 DEF DistributionInv, RefusedByProgress
  <2>3. CASE funds >= Amount
    <3> DEFINE r == [task[t] EXCEPT !.step = "paid"]
    <3>1. /\ task' = [task EXCEPT ![t] = r] /\ payments' = [payments EXCEPT ![t] = @ + 1]
          /\ excused' = excused
      BY <1>1, <1>6, <2>3, DistributionAssumption DEF Apply
    <3>2. r \in [step : {"waiting", "paid", "failed"}, attempt : Attempts] /\ r.step = "paid"
      BY <1>1, ZenonT(60) DEF Steps
    <3>3. payments'[t] = payments[t] + 1 /\ payments' \in [Task -> Nat]
          /\ \A u \in Task \ {t} : payments'[u] = payments[u]
      BY <1>1, <3>1
    <3>4. task'[t].step = "paid"
      BY <1>1, <3>1, <3>2
    <3>5. PaidFor(t)'
      BY <1>2, <2>1, <3>3, <3>4 DEF PaidFor
    <3> HIDE DEF r
    <3>6. /\ job' = job /\ inflight' \subseteq inflight /\ sequence' \in {sequence, sequence + 1}
          /\ lost' \in [Task -> Nat] /\ refused' \in [Task -> SUBSET Attempts]
          /\ excused' \in [Task -> SUBSET Attempts]
          /\ payments'[t] > 0
      BY <1>1, <1>2, <2>1, <3>1, <3>3
    <3>7. \A u \in Task \ {t} : /\ payments'[u] = payments[u] /\ lost'[u] = lost[u]
                                /\ refused'[u] = refused[u] /\ excused'[u] = excused[u]
                                /\ overtaken[u] \subseteq overtaken'[u]
      BY <1>2, <1>5, <3>1, <3>3
    <3>8. \A u \in Task \ {t} : sequence' # sequence /\ task[u].step = "submitted" =>
                                 task[u].attempt \in overtaken'[u]
      BY <1>5
    <3>9. refused[t] \cup excused[t] \subseteq refused'[t] \cup excused'[t]
      BY <1>2, <3>1
    <3>10. QED
      BY <1>1, <1>3, <1>5, <2>1, <2>2, <3>1, <3>2, <3>3, <3>5, <3>6, <3>7, <3>8, <3>9, AttemptEnds
  <2>4. CASE ~(funds >= Amount)
    <3>1. /\ task' = [task EXCEPT ![t] = FailAttempt(t)] /\ payments' = payments
          /\ excused' = Excuse(t)
      BY <1>1, <1>6, <2>4, DistributionAssumption DEF Apply
    <3>2. task'[t].step \in {"waiting", "failed"} /\ FailAttempt(t).step # "paid"
      BY <1>1, <3>1, NextAttempt
    <3>3. PaidFor(t)'
      BY <1>2, <2>1, <3>1, <3>2 DEF PaidFor
    <3>4. /\ excused' \in [Task -> SUBSET Attempts]
          /\ excused'[t] = excused[t] \cup {task[t].attempt}
          /\ \A u \in Task \ {t} : excused'[u] = excused[u]
      BY <1>1, <3>1, ExcuseOne
    <3>5. /\ refused[t] \cup excused[t] \subseteq refused'[t] \cup excused'[t]
          /\ task[t].attempt \in refused'[t] \cup excused'[t]
          /\ refused' \in [Task -> SUBSET Attempts] /\ lost' \in [Task -> Nat]
          /\ payments' \in [Task -> Nat]
      BY <1>1, <1>2, <3>1, <3>4
    <3>6. \A u \in Task \ {t} : /\ payments'[u] = payments[u] /\ lost'[u] = lost[u]
                                /\ refused'[u] = refused[u] /\ excused'[u] = excused[u]
                                /\ overtaken[u] \subseteq overtaken'[u]
      BY <1>2, <1>5, <3>1, <3>4
    <3>7. \A u \in Task \ {t} : sequence' # sequence /\ task[u].step = "submitted" =>
                                 task[u].attempt \in overtaken'[u]
      BY <1>5
    <3>8. QED
      BY <1>1, <1>2, <1>3, <1>5, <2>1, <2>2, <3>1, <3>2, <3>3, <3>4, <3>5, <3>6, <3>7,
         NextAttempt, AttemptEnds
  <2>5. QED
    BY <2>3, <2>4
<1>7. CASE ~Awaited(tx)
  <2>1. task' = task /\ excused' = excused
    BY <1>7 DEF Apply
  <2>2. payments = [payments EXCEPT ![t] = @ + 0]
    BY <1>1
  <2>3. QED
    BY <1>2, <1>3, <1>4, <1>5, <1>7, <2>1, <2>2, UnawaitedEnds
<1>8. QED
  BY <1>6, <1>7

\* A refusal, a lost answer, and what nobody waits for.
LEMMA AnswerKeeps ==
  ASSUME DistributionInv, NEW tx \in inflight, Refuse(tx) \/ LoseAnswer(tx)
  PROVE  DistributionInv'
<1> DEFINE t == tx.task
<1>1. /\ task \in [Task -> [step : Steps, attempt : Attempts]]
      /\ payments \in [Task -> Nat] /\ lost \in [Task -> Nat]
      /\ refused \in [Task -> SUBSET Attempts] /\ excused \in [Task -> SUBSET Attempts]
      /\ overtaken \in [Task -> SUBSET Attempts]
      /\ funds \in 0..Funds /\ sequence \in Nat /\ TypeOK
      /\ job \in [Job -> [status : {"queued", "active", "completed", "failed"},
                          cursor : Nat, stalls : 0..MaxStalled]]
  BY DEF DistributionInv, TypeOK
<1>2. /\ Awaited(tx) /\ task' = [task EXCEPT ![t] = FailAttempt(t)]
      /\ UNCHANGED <<job, sequence, funds, payments, overtaken>>
  BY DEF Refuse, LoseAnswer
<1>3. /\ t \in Task /\ t[1] \in Job /\ task[t].step = "submitted" /\ job[t[1]].status # "failed"
      /\ payments[t] + Cardinality(Sent(t)) <= lost[t] + job[t[1]].stalls + 1
      /\ Cardinality({s \in inflight \ {tx} : s.task = t}) = Cardinality(Sent(t)) - 1
      /\ Cardinality(Sent(t)) \in Nat /\ tx.seq \in Nat
      /\ sequence < tx.seq \/ task[t].attempt \in overtaken[t]
      /\ task[t].attempt \in Attempts
  BY <1>1, <1>2, AwaitedSent, SentFinite DEF DistributionInv
<1>4. /\ task'[t].step \in {"waiting", "failed"} /\ FailAttempt(t).step # "paid"
      /\ payments[t] \in Nat /\ lost[t] \in Nat /\ job[t[1]].stalls \in Nat
  BY <1>1, <1>2, <1>3, NextAttempt
<1>5. CASE Refuse(tx)
  <2>1. /\ inflight' = inflight \ {tx} /\ tx.seq <= sequence /\ lost' = lost
        /\ refused' = [refused EXCEPT ![t] = refused[t] \cup {task[t].attempt}]
        /\ excused' = excused
    BY <1>5 DEF Refuse
  <2>2. /\ refused'[t] = refused[t] \cup {task[t].attempt}
        /\ refused' \in [Task -> SUBSET Attempts]
        /\ \A u \in Task \ {t} : refused'[u] = refused[u]
    BY <1>1, <1>3, <2>1
  <2>3. refused'[t] \subseteq overtaken'[t]
    <3>1. task[t].attempt \in overtaken[t]
      BY <1>1, <1>3, <2>1
    <3>2. QED
      BY <1>2, <1>3, <2>2, <3>1 DEF DistributionInv, RefusedByProgress
  <2>4. PaidFor(t)'
    BY <1>2, <1>3, <1>4, <2>1 DEF PaidFor, Sent
  <2>5. /\ refused[t] \cup excused[t] \subseteq refused'[t] \cup excused'[t]
        /\ task[t].attempt \in refused'[t] \cup excused'[t]
    BY <2>1, <2>2
  <2>6. QED
    BY <1>1, <1>2, <1>3, <1>4, <2>1, <2>2, <2>3, <2>4, <2>5, NextAttempt, AttemptEnds
<1>6. CASE LoseAnswer(tx)
  <2>1. /\ inflight' = inflight /\ refused' = refused /\ excused' = Excuse(t)
        /\ lost' = [lost EXCEPT ![t] = @ + 1]
    BY <1>6 DEF LoseAnswer
  <2>2. /\ lost'[t] = lost[t] + 1 /\ lost' \in [Task -> Nat]
        /\ \A u \in Task \ {t} : lost'[u] = lost[u]
    BY <1>1, <1>3, <2>1
  <2>3. refused'[t] \subseteq overtaken'[t]
    BY <1>2, <1>3, <2>1 DEF DistributionInv, RefusedByProgress
  <2>4. PaidFor(t)'
    BY <1>2, <1>3, <1>4, <2>1, <2>2 DEF PaidFor, Sent
  <2>5. /\ excused' \in [Task -> SUBSET Attempts]
        /\ excused'[t] = excused[t] \cup {task[t].attempt}
        /\ \A u \in Task \ {t} : excused'[u] = excused[u]
    BY <1>1, <1>3, <2>1, ExcuseOne
  <2>6. /\ refused[t] \cup excused[t] \subseteq refused'[t] \cup excused'[t]
        /\ task[t].attempt \in refused'[t] \cup excused'[t]
    BY <2>1, <2>5
  <2>7. QED
    BY <1>1, <1>2, <1>3, <1>4, <2>1, <2>2, <2>3, <2>4, <2>5, <2>6, NextAttempt, AttemptEnds
<1>7. QED
  BY <1>5, <1>6

\* The worker dies: of every job that ran, all recipients are ahead again, in a new run
\* or in none.
LEMMA CrashKeeps ==
  ASSUME DistributionInv, Crash
  PROVE  DistributionInv'
<1>1. /\ job \in [Job -> [status : {"queued", "active", "completed", "failed"},
                          cursor : Nat, stalls : 0..MaxStalled]]
      /\ task \in [Task -> [step : Steps, attempt : Attempts]]
      /\ inflight \subseteq Tx /\ sequence \in Nat /\ IsFiniteSet(inflight)
      /\ payments \in [Task -> Nat] /\ lost \in [Task -> Nat]
      /\ MaxStalled \in Nat /\ MAX_RECIPIENT_RETRIES \in Nat \ {0}
  BY DistributionAssumption DEF DistributionInv, TypeOK
<1>2. UNCHANGED <<inflight, sequence, funds, payments, lost>>
  BY DEF Crash
<1>3. ASSUME NEW j \in Job
      PROVE  /\ job'[j] \in [status : {"queued", "active", "completed", "failed"},
                             cursor : Nat, stalls : 0..MaxStalled]
             /\ \/ job[j].status # "active" /\ job'[j] = job[j]
                \/ /\ job[j].status = "active" /\ job'[j].status = "queued"
                   /\ job'[j].stalls = job[j].stalls + 1
                \/ /\ job[j].status = "active" /\ job'[j].status = "failed"
                   /\ job'[j].stalls = job[j].stalls
  <2>1. job[j].stalls < MaxStalled => job[j].stalls + 1 \in 0..MaxStalled
    BY <1>1
  <2>2. job'[j] = IF job[j].status # "active" THEN job[j]
                  ELSE IF job[j].stalls < MaxStalled
                       THEN [status |-> "queued", cursor |-> 0, stalls |-> job[j].stalls + 1]
                       ELSE [job[j] EXCEPT !.status = "failed"]
    BY DEF Crash
  <2>3. job[j] \in [status : {"queued", "active", "completed", "failed"},
                    cursor : Nat, stalls : 0..MaxStalled]
    BY <1>1
  <2>4. QED
    BY <2>1, <2>2, <2>3
<1>4. ASSUME NEW t \in Task
      PROVE  /\ job[t[1]].status = "active" =>
                  task'[t] = Ahead /\ refused'[t] = {} /\ excused'[t] = {} /\ overtaken'[t] = {}
             /\ job[t[1]].status # "active" =>
                  /\ task'[t] = task[t] /\ refused'[t] = refused[t]
                  /\ excused'[t] = excused[t] /\ overtaken'[t] = overtaken[t]
  BY DEF Crash, Forgotten
<1>5. job' \in [Job -> [status : {"queued", "active", "completed", "failed"},
                        cursor : Nat, stalls : 0..MaxStalled]]
  BY <1>3 DEF Crash
<1>6. task' \in [Task -> [step : Steps, attempt : Attempts]]
  <2>1. Ahead \in [step : Steps, attempt : Attempts]
    BY <1>1 DEF Ahead, Steps, Attempts
  <2>2. QED
    BY <1>1, <2>1 DEF Crash
<1>7. /\ refused' \in [Task -> SUBSET Attempts] /\ excused' \in [Task -> SUBSET Attempts]
      /\ overtaken' \in [Task -> SUBSET Attempts]
  BY DEF Crash, Forgotten, DistributionInv, TypeOK
<1>8. TypeOK' /\ IsFiniteSet(inflight)'
  BY <1>2, <1>5, <1>6, <1>7 DEF DistributionInv, TypeOK
<1>9. ReportedPaid' /\ RefusedByProgress'
  BY <1>1, <1>2, <1>4 DEF DistributionInv, ReportedPaid, RefusedByProgress, Ahead
<1>10. ASSUME NEW t \in Task PROVE Placed(t)' /\ PaidFor(t)' /\ Tried(t)'
  <2>1. t[1] \in Job /\ Placed(t) /\ PaidFor(t) /\ Sent(t)' = Sent(t)
    BY <1>2, TaskOfJob DEF DistributionInv, Sent
  <2>2. /\ payments[t] \in Nat /\ lost[t] \in Nat /\ job[t[1]].stalls \in Nat
        /\ Cardinality(Sent(t)) \in Nat
    BY <1>1, <2>1, SentFinite
  <2>3. Placed(t)'
    BY <1>3, <1>4, <2>1 DEF Placed, Ahead
  <2>4. PaidFor(t)'
    <3>1. CASE job[t[1]].status # "active"
      <4>1. job'[t[1]] = job[t[1]] /\ task'[t] = task[t]
        BY <1>3, <1>4, <2>1, <3>1
      <4>2. QED
        BY <1>2, <2>1, <4>1 DEF PaidFor
    <3>2. CASE job[t[1]].status = "active"
      <4>1. \/ job'[t[1]].stalls = job[t[1]].stalls + 1
            \/ job'[t[1]].status = "failed" /\ job'[t[1]].stalls = job[t[1]].stalls
        BY <1>3, <2>1, <3>2
      <4>2. payments[t] + Cardinality(Sent(t)) <= lost[t] + job[t[1]].stalls + 1
        BY <2>1, <2>2, <3>2 DEF PaidFor
      <4>3. QED
        BY <1>2, <2>1, <2>2, <4>1, <4>2 DEF PaidFor
    <3>3. QED
      BY <3>1, <3>2
  <2>5. Tried(t)'
    BY <1>4 DEF DistributionInv, Tried, Ahead
  <2>6. QED
    BY <2>3, <2>4, <2>5
<1>11. ASSUME NEW tx \in inflight PROVE Older(tx)'
  <2>1. tx.task \in Task /\ tx.task[1] \in Job /\ Older(tx) /\ tx.run \in 0..MaxStalled
    BY <1>1, TaskOfJob DEF Tx, DistributionInv
  <2>2. job[tx.task[1]].stalls \in Nat
    BY <1>1, <2>1
  <2>3. CASE job[tx.task[1]].status # "active"
    <3>1. /\ job'[tx.task[1]] = job[tx.task[1]] /\ task'[tx.task] = task[tx.task]
          /\ overtaken'[tx.task] = overtaken[tx.task]
      BY <1>3, <1>4, <2>1, <2>3
    <3>2. QED
      BY <1>2, <2>1, <3>1 DEF Older, Awaited
  <2>4. CASE job[tx.task[1]].status = "active"
    <3>1. /\ task'[tx.task].step = "ahead"
          /\ \/ job'[tx.task[1]].stalls = job[tx.task[1]].stalls + 1
             \/ job'[tx.task[1]].status = "failed" /\ job'[tx.task[1]].stalls = job[tx.task[1]].stalls
      BY <1>3, <1>4, <2>1, <2>4 DEF Ahead
    <3>2. QED
      BY <2>1, <2>2, <3>1 DEF Older, Awaited
  <2>5. QED
    BY <2>3, <2>4
<1>12. QED
  BY <1>2, <1>8, <1>9, <1>10, <1>11 DEF DistributionInv

LEMMA DistributionInductive == DistributionInv /\ [Next]_vars => DistributionInv'
<1> SUFFICES ASSUME DistributionInv, [Next]_vars PROVE DistributionInv'
  OBVIOUS
<1>1. CASE UNCHANGED vars
  BY <1>1 DEF vars, history, attempts, DistributionInv, TypeOK, ReportedPaid, RefusedByProgress,
              Placed, PaidFor, Tried, Sent, Older, Awaited
<1>2. ASSUME NEW tx \in inflight, Drop(tx) PROVE DistributionInv'
  <2>1. /\ task' = task /\ job' = job /\ inflight' = inflight \ {tx} /\ sequence' = sequence
        /\ funds' = funds /\ payments' = payments
        /\ UNCHANGED <<lost, refused, excused, overtaken>>
    BY <1>2 DEF Drop, history, attempts
  <2>2. /\ payments' = [payments EXCEPT ![tx.task] = @ + 0] /\ funds' \in 0..Funds
        /\ overtaken' \in [Task -> SUBSET Attempts]
    BY <2>1 DEF DistributionInv, TypeOK, Tx
  <2>3. QED
    BY <2>1, <2>2, UnawaitedEnds
<1>3. QED
  BY <1>1, <1>2, JobSteps, SubmitKeeps, NotSubmittedKeeps, ApplyKeeps, AnswerKeeps, CrashKeeps DEF Next

\* The worker's record of a distribution keeps its types, and the account is not overdrawn.
THEOREM DistributionTypeCorrect == Spec => []TypeOK
<1>1. DistributionInv => TypeOK
  BY DEF DistributionInv
<1>2. QED
  BY <1>1, InitDistribution, DistributionInductive, PTL DEF Spec

\* distributeRewards pays a recipient once, and once more at most for every answer that was
\* lost and every run that stalled.
THEOREM AlwaysPaidOncePerRun == Spec => []PaidOncePerRun
<1>1. DistributionInv => PaidOncePerRun
  <2>1. ASSUME DistributionInv, NEW t \in Task PROVE payments[t] <= 1 + lost[t] + job[t[1]].stalls
    <3>1. PaidFor(t) /\ t[1] \in Job /\ Cardinality(Sent(t)) \in Nat
      BY <2>1, SentFinite, TaskOfJob DEF DistributionInv
    <3>2. payments[t] \in Nat /\ lost[t] \in Nat /\ job[t[1]].stalls \in Nat
      BY <2>1, <3>1, DistributionAssumption DEF DistributionInv, TypeOK
    <3>3. QED
      BY <3>1, <3>2 DEF PaidFor
  <2>2. QED
    BY <2>1 DEF PaidOncePerRun
<1>2. QED
  BY <1>1, InitDistribution, DistributionInductive, PTL DEF Spec

\* The result of a job names only recipients who were paid.
THEOREM ResultsAlwaysTrue == Spec => []ReportedPaid
<1>1. DistributionInv => ReportedPaid
  BY DEF DistributionInv
<1>2. QED
  BY <1>1, InitDistribution, DistributionInductive, PTL DEF Spec

\* A stale sequence number always means that another transaction of the account was applied
\* since the attempt loaded it, and who is given up has used every attempt: refused so, not
\* sent, not funded or not answered.
THEOREM RefusalsMeanProgress == Spec => []RefusedByProgress
<1>1. DistributionInv => RefusedByProgress
  BY DEF DistributionInv
<1>2. QED
  BY <1>1, InitDistribution, DistributionInductive, PTL DEF Spec

=============================================================================
