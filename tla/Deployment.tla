----------------------------- MODULE Deployment -----------------------------
(* The deployment scripts: deploy.js and rollback.js, run by hand, each on its
   own copy of a log file, against one issuer and one distribution account.
   A submission whose answer is lost may be applied later, or never; a script
   may be cut off between any two steps.  One unit is the initial supply.
   The source of a transaction counts its sequence, so that one applied makes
   every other one loaded before it invalid. *)
EXTENDS Integers, Sequences, FiniteSets

CONSTANTS Script,          \* the scripts that may run at the same time
          MaxRuns,         \* bound on the scripts started
          MaxMishaps       \* bound on lost answers, failed reads and crashes

DeploymentAssumption ==
    IsFiniteSet(Script) /\ MaxRuns \in Nat /\ MaxMishaps \in Nat

VARIABLES trustline,  \* whether the distribution account trusts NOVA
          holding,    \* the NOVA it holds
          logs,       \* the files of deploy/logs, in the order they were begun
          stateFile,  \* the deployment contract-state.json names, or 0
          script,     \* what each script is doing, with its copy of the log
          late,       \* transactions sent whose answer was lost
          started, mishaps,
          overlaps,   \* history: supplies checked while another was being issued
          excused     \* history: a rollback failed, or emptied the account beside a deployment

deploymentVars ==
    <<trustline, holding, logs, stateFile, script, late, started, mishaps, overlaps, excused>>

NewLog == [outcome |-> "in_progress", trust |-> "none", supply |-> "none"]
Working(id, log, step) ==
    [step |-> step, id |-> id, log |-> log, fresh |-> FALSE, amount |-> 0, seen |-> FALSE]
Done == Working(0, NewLog, "none")

Init ==
    /\ trustline = FALSE /\ holding = 0 /\ stateFile = 0
    /\ logs = <<>> /\ late = {}
    /\ script = [s \in Script |-> Done]
    /\ started = 0 /\ mishaps = 0 /\ overlaps = 0 /\ excused = FALSE

At(s, steps) == script[s].step \in steps
GoTo(s, step) == script' = [script EXCEPT ![s] = [@ EXCEPT !.step = step]]
Mishap == mishaps < MaxMishaps /\ mishaps' = mishaps + 1
RollingBack(s) == At(s, {"burn?", "burn_load", "burn", "remove?", "remove_load", "remove", "finish"})
LedgerUnchanged == UNCHANGED <<trustline, holding, late>>
HistoryUnchanged == UNCHANGED <<overlaps, excused>>

\* The script writes its copy of the log over the file and goes on.
Persist(s, log, step) ==
    /\ logs' = [logs EXCEPT ![script[s].id] = log]
    /\ script' = [script EXCEPT ![s] = Working(@.id, log, step)]

\* The script ends, its log saying how.
Finish(s, outcome) ==
    /\ logs' = [logs EXCEPT ![script[s].id] = [script[s].log EXCEPT !.outcome = outcome]]
    /\ script' = [script EXCEPT ![s] = Done]
    /\ excused' = (excused \/ (RollingBack(s) /\ outcome = "failed"))

-----------------------------------------------------------------------------
(* Transactions. *)

Source(kind) == IF kind = "issue" THEN "issuer" ELSE "distribution"
Kinds == {"trust", "issue", "burn", "remove"}

\* What the ledger accepts, and what it then holds.
Accepted(kind, amount) ==
    /\ kind # "trust" => trustline
    /\ kind = "burn" => amount <= holding
    /\ kind = "remove" => holding = 0

Apply(kind, amount) ==
    /\ trustline' = IF kind = "trust" THEN TRUE ELSE (trustline /\ kind # "remove")
    /\ holding' = IF kind = "issue" THEN holding + 1
                  ELSE IF kind = "burn" THEN holding - amount ELSE holding

\* The sequence moves on: what was loaded or sent before from this source is void.
Voided(kind) ==
    [s \in Script |-> IF At(s, {k \in Kinds : Source(k) = Source(kind)})
                      THEN [script[s] EXCEPT !.fresh = FALSE] ELSE script[s]]
StillSent(kind) == {t \in late : Source(t.kind) # Source(kind)}

\* A burn leaves behind a deployment about to write that it saw a supply.
Emptied(kind) == kind = "burn" /\ \E s \in Script : At(s, {"write"})

\* The account is loaded, with its sequence, and the transaction built.
Loading(kind) ==
    CASE kind = "trust" -> "trust_load"
      [] kind = "issue" -> "issue_load"
      [] kind = "burn" -> "burn_load"
      [] OTHER -> "remove_load"

Load(s) ==
    /\ \E kind \in Kinds :
          /\ At(s, {Loading(kind)})
          /\ script' = [script EXCEPT ![s] = [@ EXCEPT !.step = kind, !.fresh = TRUE]]
    /\ UNCHANGED <<logs, stateFile, mishaps>> /\ LedgerUnchanged /\ HistoryUnchanged

\* What the log says once the transaction is answered, and what comes next.
AfterAnswer(kind, log) ==
    CASE kind = "trust" -> [step |-> "supply?", log |-> [log EXCEPT !.trust = "success"]]
      [] kind = "issue" -> [step |-> "init", log |-> [log EXCEPT !.supply = "success"]]
      [] kind = "burn" -> [step |-> "remove?", log |-> [log EXCEPT !.supply = "rolled_back"]]
      [] OTHER -> [step |-> "finish", log |-> [log EXCEPT !.trust = "rolled_back"]]

\* server.submitTransaction: applied, answered and logged, ...
SubmitApplied(s) ==
    \E kind \in Kinds :
       /\ At(s, {kind}) /\ script[s].fresh /\ Accepted(kind, script[s].amount)
       /\ Apply(kind, script[s].amount)
       /\ late' = StillSent(kind)
       /\ LET to == AfterAnswer(kind, script[s].log)
          IN /\ logs' = [logs EXCEPT ![script[s].id] = to.log]
             /\ script' = [Voided(kind) EXCEPT ![s] = Working(script[s].id, to.log, to.step)]
       /\ excused' = (excused \/ Emptied(kind))
       /\ UNCHANGED <<stateFile, mishaps, overlaps>>

\* ... or refused, which ends the script, ...
SubmitRefused(s) ==
    /\ At(s, Kinds)
    /\ ~script[s].fresh \/ ~Accepted(script[s].step, script[s].amount)
    /\ Finish(s, "failed")
    /\ UNCHANGED <<stateFile, mishaps, overlaps>> /\ LedgerUnchanged

\* ... or unanswered.  A script may also be killed, its log left as it is, and
\* any of its reads may fail.  What it sent may yet be applied.
Cut(s) ==
    /\ script[s].step # "none" /\ Mishap
    /\ \/ Finish(s, "failed")
       \/ /\ script' = [script EXCEPT ![s] = Done]
          /\ excused' = (excused \/ RollingBack(s))
          /\ UNCHANGED logs
    /\ late' = late \union
          {[kind |-> k, amount |-> script[s].amount] : k \in {k \in Kinds : At(s, {k}) /\ script[s].fresh}}
    /\ UNCHANGED <<trustline, holding, stateFile, overlaps>>

ApplyLate ==
    \E t \in late :
       /\ Accepted(t.kind, t.amount)
       /\ Apply(t.kind, t.amount)
       /\ late' = StillSent(t.kind)
       /\ script' = Voided(t.kind)
       /\ excused' = (excused \/ t.kind = "burn")
       /\ UNCHANGED <<logs, stateFile, mishaps, overlaps>>

-----------------------------------------------------------------------------
(* deploy.js *)

\* A dry run succeeds at once, and leaves a log of its own.
DryRun ==
    /\ logs' = Append(logs, [NewLog EXCEPT !.outcome = "success"])
    /\ UNCHANGED <<stateFile, script, mishaps>> /\ LedgerUnchanged /\ HistoryUnchanged

Deploy(s) ==
    /\ At(s, {"none"})
    /\ logs' = Append(logs, NewLog)
    /\ script' = [script EXCEPT ![s] = Working(Len(logs) + 1, NewLog, "trust?")]
    /\ UNCHANGED <<stateFile, mishaps>> /\ LedgerUnchanged /\ HistoryUnchanged

\* hasTrustline takes a failed read for a missing trustline.
CheckTrustline(s) ==
    /\ At(s, {"trust?"})
    /\ \/ /\ trustline
          /\ Persist(s, [script[s].log EXCEPT !.trust = "skipped"], "supply?")
          /\ UNCHANGED mishaps
       \/ /\ IF trustline THEN Mishap ELSE UNCHANGED mishaps
          /\ GoTo(s, "trust_load")
          /\ UNCHANGED logs
    /\ UNCHANGED stateFile /\ LedgerUnchanged /\ HistoryUnchanged

\* Supplies being issued: by a script that found none, or by a transaction sent.
BeingIssued(s) ==
    Cardinality({q \in Script \ {s} : At(q, {"issue_load", "issue"})})
    + Cardinality({t \in late : t.kind = "issue"})

CheckSupply(s) ==
    /\ At(s, {"supply?"})
    /\ \/ /\ holding > 0
          /\ Persist(s, [script[s].log EXCEPT !.supply = "skipped"], "init")
          /\ UNCHANGED overlaps
       \/ /\ holding = 0
          /\ GoTo(s, "issue_load")
          /\ overlaps' = overlaps + BeingIssued(s)
          /\ UNCHANGED logs
    /\ UNCHANGED <<stateFile, mishaps, excused>> /\ LedgerUnchanged

\* initContract: the trustline and the supply are read, ...
ReadSupply(s) ==
    /\ At(s, {"init"})
    /\ \/ trustline /\ holding > 0 /\ GoTo(s, "write") /\ UNCHANGED <<logs, excused>>
       \/ holding = 0 /\ Finish(s, "failed")
    /\ UNCHANGED <<stateFile, mishaps, overlaps>> /\ LedgerUnchanged

\* ... and the state written.  The verification then starts from the latest log.
WriteState(s) ==
    /\ At(s, {"write"})
    /\ stateFile' = script[s].id
    /\ script' = [script EXCEPT ![s] =
                   [@ EXCEPT !.step = "verify", !.seen = logs[Len(logs)].outcome = "success"]]
    /\ UNCHANGED <<logs, mishaps>> /\ LedgerUnchanged /\ HistoryUnchanged

Verify(s) ==
    /\ At(s, {"verify"})
    /\ Finish(s, IF trustline /\ holding > 0 /\ script[s].seen THEN "success" ELSE "failed")
    /\ UNCHANGED <<stateFile, mishaps, overlaps>> /\ LedgerUnchanged

-----------------------------------------------------------------------------
(* rollback.js *)

\* It works from the log as the file now is, and stops when the log has no step to reverse.
Rollback(s) ==
    /\ At(s, {"none"})
    /\ \E id \in DOMAIN logs :
          /\ logs[id].outcome # "rolled_back"
          /\ "success" \in {logs[id].supply, logs[id].trust}
          /\ script' = [script EXCEPT ![s] = Working(id, logs[id], "burn?")]
    /\ UNCHANGED <<logs, stateFile, mishaps>> /\ LedgerUnchanged /\ HistoryUnchanged

\* The whole balance is burnt.  A failed read is taken for an empty account.
CheckBurn(s) ==
    /\ At(s, {"burn?"})
    /\ \/ /\ script[s].log.supply = "success" /\ holding > 0
          /\ script' = [script EXCEPT ![s] = [@ EXCEPT !.step = "burn_load", !.amount = holding]]
          /\ UNCHANGED mishaps
       \/ /\ IF script[s].log.supply = "success" /\ holding > 0 THEN Mishap ELSE UNCHANGED mishaps
          /\ GoTo(s, "remove?")
    /\ UNCHANGED <<logs, stateFile>> /\ LedgerUnchanged /\ HistoryUnchanged

CheckRemove(s) ==
    /\ At(s, {"remove?"})
    /\ LET wanted == script[s].log.trust = "success" /\ trustline
       IN \/ wanted /\ holding = 0 /\ GoTo(s, "remove_load") /\ UNCHANGED <<logs, mishaps, excused>>
          \/ wanted /\ holding > 0 /\ Finish(s, "failed") /\ UNCHANGED mishaps
          \/ /\ IF wanted THEN Mishap ELSE UNCHANGED mishaps
             /\ GoTo(s, "finish")
             /\ UNCHANGED <<logs, excused>>
    /\ UNCHANGED <<stateFile, overlaps>> /\ LedgerUnchanged

\* contract-state.json goes, whichever deployment wrote it.
FinishRollback(s) ==
    /\ At(s, {"finish"})
    /\ stateFile' = 0
    /\ Finish(s, "rolled_back")
    /\ UNCHANGED <<mishaps, overlaps>> /\ LedgerUnchanged

Next ==
    \/ /\ started < MaxRuns /\ started' = started + 1
       /\ DryRun \/ \E s \in Script : Deploy(s) \/ Rollback(s)
    \/ /\ UNCHANGED started
       /\ \/ ApplyLate
          \/ \E s \in Script :
                \/ Load(s) \/ SubmitApplied(s) \/ SubmitRefused(s) \/ Cut(s)
                \/ CheckTrustline(s) \/ CheckSupply(s) \/ ReadSupply(s) \/ WriteState(s) \/ Verify(s)
                \/ CheckBurn(s) \/ CheckRemove(s) \/ FinishRollback(s)

-----------------------------------------------------------------------------

Log == [outcome : {"in_progress", "success", "failed", "rolled_back"},
        trust : {"none", "success", "skipped", "rolled_back"},
        supply : {"none", "success", "skipped", "rolled_back"}]

TypeOK ==
    /\ trustline \in BOOLEAN /\ holding \in Nat
    /\ logs \in Seq(Log) /\ Len(logs) <= MaxRuns
    /\ stateFile \in 0..MaxRuns
    /\ \A s \in Script : script[s].log \in Log /\ script[s].id \in 0..MaxRuns
    /\ \A t \in late : t.kind \in Kinds
    /\ holding > 0 => trustline
    /\ started \in 0..MaxRuns /\ mishaps \in 0..MaxMishaps /\ overlaps \in Nat /\ excused \in BOOLEAN

\* The initial supply is issued again only when it was checked while another
\* supply was on its way: neither a deployment run again after a failure, nor a
\* lost answer, nor a rollback in between issues it twice.
SupplyIssuedOnce == holding <= 1 + overlaps

\* contract-state.json names a deployment only while there is a supply, unless a
\* rollback is still to remove it, or one failed, or emptied the account beside
\* a deployment that had just seen it full.
StateIsBacked ==
    stateFile # 0 /\ ~excused => holding > 0 \/ \E s \in Script : RollingBack(s)

\* A deployment that trusted or issued something, whether now or before, succeeds only
\* beside a later log: its verification reads the newest log, and while that is its own
\* it is still in progress. So a first deployment is always reported as failed.
OnlyDryRunsSucceed ==
    \A id \in DOMAIN logs :
       logs[id].outcome = "success" /\ logs[id].trust # "none"
          => \E later \in DOMAIN logs : later > id

=============================================================================
