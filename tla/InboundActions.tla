--------------------------- MODULE InboundActions ---------------------------
(* Actions reported by an external caller. The route queues the action and   *)
(* then logs it as a delivery without a webhook, which the table refuses:    *)
(* the caller is always answered with an error, and may try again. The       *)
(* worker awards points and writes an audit entry. The route's queue sets no *)
(* attempts, so a job that throws is not run again; one whose worker died is.*)
EXTENDS Integers, FiniteSets

CONSTANTS Call,      \* POSTs of one action of one user by the caller
          MaxStalls, \* maxStalledCount of BullMQ
          MaxFlops   \* bound on failing audit entries and awards

InboundActionsAssumption == IsFiniteSet(Call) /\ MaxStalls \in Nat /\ MaxFlops \in Nat

VARIABLES call,     \* each POST: its step in the route and the answer
          known,    \* the action is one the worker awards points for
          action,   \* the job of each POST: state and stalls
          awarding, \* the step of the worker
          awards,   \* point transactions of each POST
          audits,   \* audit entries of each POST
          flops

inboundVars == <<call, known, action, awarding, awards, audits, flops>>

Init ==
  /\ call = [c \in Call |-> "none"]
  /\ known \in BOOLEAN
  /\ action = [c \in Call |-> [state |-> "none", stalls |-> 0]]
  /\ awarding = [c \in Call |-> "none"]
  /\ awards = [c \in Call |-> 0] /\ audits = [c \in Call |-> 0]
  /\ flops = 0

\* A POST that lacks headers, signature, timeliness or fields is refused. One
\* that is in order goes to the queue. The caller sends one after the other.
Post(c) ==
  /\ call[c] = "none"
  /\ \A d \in Call : call[d] \in {"none", "error", "refused"}
  /\ \/ call' = [call EXCEPT ![c] = "refused"] /\ UNCHANGED action
     \/ /\ call' = [call EXCEPT ![c] = "queued"]
        /\ action' = [action EXCEPT ![c].state = "waiting"]
  /\ UNCHANGED <<known, awarding, awards, audits, flops>>

\* createDelivery with webhookId null violates NOT NULL: the route answers 500.
LogDelivery(c) ==
  /\ call[c] = "queued"
  /\ call' = [call EXCEPT ![c] = "error"]
  /\ UNCHANGED <<known, action, awarding, awards, audits, flops>>

\* An action the worker does not know ends its job.
Take(c) ==
  /\ action[c].state = "waiting"
  /\ action' = [action EXCEPT ![c].state = IF known THEN "active" ELSE "done"]
  /\ awarding' = [awarding EXCEPT ![c] = IF known THEN "award" ELSE "none"]
  /\ UNCHANGED <<call, known, awards, audits, flops>>

\* recordPointTransaction
Award(c) ==
  /\ awarding[c] = "award"
  /\ awards' = [awards EXCEPT ![c] = @ + 1]
  /\ awarding' = [awarding EXCEPT ![c] = "audit"]
  /\ UNCHANGED <<call, known, action, audits, flops>>

\* AuditService.log
Audit(c) ==
  /\ awarding[c] = "audit"
  /\ audits' = [audits EXCEPT ![c] = @ + 1]
  /\ action' = [action EXCEPT ![c].state = "done"]
  /\ awarding' = [awarding EXCEPT ![c] = "none"]
  /\ UNCHANGED <<call, known, awards, flops>>

\* Either statement fails and the error is thrown again.
Throw(c) ==
  /\ awarding[c] \in {"award", "audit"} /\ flops < MaxFlops
  /\ flops' = flops + 1
  /\ action' = [action EXCEPT ![c].state = "failed"]
  /\ awarding' = [awarding EXCEPT ![c] = "none"]
  /\ UNCHANGED <<call, known, awards, audits>>

\* The worker dies.
Stall(c) ==
  /\ action[c].state = "active"
  /\ action' = [action EXCEPT
       ![c].stalls = @ + 1,
       ![c].state = IF action[c].stalls < MaxStalls THEN "waiting" ELSE "failed"]
  /\ awarding' = [awarding EXCEPT ![c] = "none"]
  /\ UNCHANGED <<call, known, awards, audits, flops>>

Run(c) == Take(c) \/ Award(c) \/ Audit(c)

Next == \E c \in Call : Post(c) \/ LogDelivery(c) \/ Run(c) \/ Throw(c) \/ Stall(c)

-----------------------------------------------------------------------------
TypeOK ==
  /\ call \in [Call -> {"none", "refused", "queued", "error"}] /\ known \in BOOLEAN
  /\ action \in [Call -> [state : {"none", "waiting", "active", "done", "failed"},
                          stalls : 0..(MaxStalls + 1)]]
  /\ awarding \in [Call -> {"none", "award", "audit"}]
  /\ awards \in [Call -> Nat] /\ audits \in [Call -> Nat] /\ flops \in 0..MaxFlops

\* One POST awards at most once more than its worker died, and every award but
\* those that a death or a failing entry cut off has its audit entry.
AwardsPerPost ==
  \A c \in Call : /\ awards[c] <= 1 + action[c].stalls
                  /\ action[c].state = "done" /\ action[c].stalls = 0 => awards[c] = audits[c]

\* What the caller is told is an error has awarded nothing.
ErrorAwardsNothing == \A c \in Call : call[c] \in {"error", "refused"} => awards[c] = 0

\* A queued action has been worked on, or has failed.
ActionsEnded == \A c \in Call : action[c].state \in {"none", "done", "failed"}
=============================================================================
