----------------------------- MODULE BatchJobs ------------------------------
(* Batches queued by an administrator: rewards for users, or users to        *)
(* import. The worker goes through the items, reports its progress after     *)
(* each, and collects what failed instead of throwing. Only the report of    *)
(* the progress, or a worker that dies, makes a job start again, and it then *)
(* starts with the first item.                                               *)
EXTENDS Integers, FiniteSets

CONSTANTS Items,      \* how many items a batch has
          Refused,    \* items no run can process: unknown users, malformed rows
          Attempts,   \* defaultJobOptions.attempts
          MaxStalls,  \* maxStalledCount of BullMQ
          MaxFlaws    \* bound on failing reports and statements

Item == 1..Items

BatchJobsAssumption ==
  /\ Items \in Nat \ {0} /\ Refused \subseteq Item /\ Attempts \in Nat \ {0}
  /\ MaxStalls \in Nat /\ MaxFlaws \in Nat

VARIABLES state,     \* of the job in the queue
          made,      \* attemptsMade
          stalls,    \* how often it stalled
          next,      \* the item the run is at, and whether it is processed
          processed,
          succeeded, failed, \* what the run has counted
          summary,   \* returnvalue of the job
          progress,  \* what the last report says, in items
          applied,   \* how often an item was credited, or its user inserted
          runs,      \* history: runs started
          flaws

batchVars == <<state, made, stalls, next, processed, succeeded, failed, summary,
               progress, applied, runs, flaws>>

None == [succeeded |-> {}, failed |-> {}]

Init ==
  /\ state = "none" /\ made = 0 /\ stalls = 0
  /\ next = 1 /\ processed = FALSE /\ succeeded = {} /\ failed = {}
  /\ summary = None /\ progress = 0
  /\ applied = [i \in Item |-> 0] /\ runs = 0 /\ flaws = 0

\* POST /batch/rewards or /batch/import
Queue ==
  /\ state = "none" /\ state' = "waiting"
  /\ UNCHANGED <<made, stalls, next, processed, succeeded, failed, summary,
                 progress, applied, runs, flaws>>

StartRun ==
  /\ state = "waiting" /\ state' = "active"
  /\ next' = 1 /\ processed' = FALSE /\ succeeded' = {} /\ failed' = {}
  /\ runs' = runs + 1
  /\ UNCHANGED <<made, stalls, summary, progress, applied, flaws>>

\* recordPointTransaction or the INSERT of a user, which neither knows of an
\* earlier run; an error is kept in the list of failures.
Process ==
  /\ state = "active" /\ next <= Items /\ ~processed
  /\ processed' = TRUE
  /\ \/ /\ next \notin Refused
        /\ applied' = [applied EXCEPT ![next] = @ + 1]
        /\ succeeded' = succeeded \cup {next}
        /\ UNCHANGED <<failed, flaws>>
     \/ /\ IF next \in Refused THEN UNCHANGED flaws ELSE flaws < MaxFlaws /\ flaws' = flaws + 1
        /\ failed' = failed \cup {next}
        /\ UNCHANGED <<applied, succeeded>>
  /\ UNCHANGED <<state, made, stalls, next, summary, progress, runs>>

\* updateProgress
Report ==
  /\ state = "active" /\ processed
  /\ progress' = next /\ next' = next + 1 /\ processed' = FALSE
  /\ UNCHANGED <<state, made, stalls, succeeded, failed, summary, applied, runs, flaws>>

\* updateProgress fails outside the try block: the run throws.
ReportFails ==
  /\ state = "active" /\ processed /\ flaws < MaxFlaws
  /\ flaws' = flaws + 1 /\ made' = made + 1
  /\ state' = IF made + 1 < Attempts THEN "waiting" ELSE "failed"
  /\ UNCHANGED <<stalls, next, processed, succeeded, failed, summary, progress,
                 applied, runs>>

\* The worker dies; BullMQ lets the job wait again, or fails it.
Stall ==
  /\ state = "active" /\ stalls <= MaxStalls
  /\ stalls' = stalls + 1
  /\ state' = IF stalls < MaxStalls THEN "waiting" ELSE "failed"
  /\ UNCHANGED <<made, next, processed, succeeded, failed, summary, progress,
                 applied, runs, flaws>>

Complete ==
  /\ state = "active" /\ next > Items
  /\ state' = "completed"
  /\ summary' = [succeeded |-> succeeded, failed |-> failed]
  /\ UNCHANGED <<made, stalls, next, processed, succeeded, failed, progress,
                 applied, runs, flaws>>

Run == StartRun \/ Process \/ Report \/ Complete

Next == Queue \/ Run \/ ReportFails \/ Stall

-----------------------------------------------------------------------------
TypeOK ==
  /\ state \in {"none", "waiting", "active", "completed", "failed"}
  /\ made \in 0..Attempts /\ stalls \in 0..(MaxStalls + 1)
  /\ next \in 1..(Items + 1) /\ processed \in BOOLEAN
  /\ succeeded \subseteq Item /\ failed \subseteq Item
  /\ summary \in [succeeded : SUBSET Item, failed : SUBSET Item]
  /\ progress \in 0..Items /\ applied \in [Item -> Nat] /\ runs \in Nat /\ flaws \in 0..MaxFlaws

\* Nothing tells a second run what the first one did: an item is applied at
\* most once per run, and there are no more runs than attempts and stalls allow.
AppliedOncePerRun ==
  /\ \A i \in Item : applied[i] <= runs
  /\ runs <= 1 + made + stalls

\* A completed batch accounts for every item, and what it reports as done is
\* done. Of what it reports as failed the same can only be said of one run.
SummaryComplete ==
  state = "completed" =>
    /\ summary.succeeded \cup summary.failed = Item /\ summary.succeeded \cap summary.failed = {}
    /\ \A i \in summary.succeeded : applied[i] > 0
    /\ runs = 1 => \A i \in summary.failed : applied[i] = 0

\* A batch that was queued has ended.
BatchEnded == state \in {"none", "completed", "failed"}
=============================================================================
