------------------------------ MODULE Webhooks ------------------------------
(* Outgoing webhooks: a delivery row is stored, POSTed and updated with the  *)
(* outcome; every server polls the failed rows that are due and POSTs them   *)
(* again. The pods of the deployment poll the same table.                    *)
(*                                                                           *)
(* One webhook. Time is one step: a row that failed becomes due when its     *)
(* delay is over, which no POST of it survives (10 s against 5 min).         *)
EXTENDS Integers, FiniteSets

CONSTANTS Server,       \* processes: they dispatch, and each runs the retry job
          Delivery,     \* webhook_deliveries
          MAX_ATTEMPTS, \* WEBHOOK_MAX_ATTEMPTS
          Delays,       \* entries of RETRY_DELAYS_MS
          MaxUpsets     \* bound on crashes and failed statements

WebhooksAssumption ==
  /\ IsFiniteSet(Server) /\ IsFiniteSet(Delivery)
  /\ MAX_ATTEMPTS \in Nat \ {0} /\ Delays \in Nat /\ MaxUpsets \in Nat

VARIABLES webhook,  \* "active", "inactive" or "deleted"
          delivery, \* its rows: status, attempt, and the state of next_retry_at
          sending,  \* what a server is doing about a delivery, and the attempt it read
          accepted, \* history: how often the endpoint answered a delivery with 2xx
          posted,   \* history: how often it was POSTed
          shaky,    \* history: deliveries two servers sent at once, of which an
                    \* answer was lost, a statement failed or a sender died
          upsets

webhookVars == <<webhook, delivery, sending, accepted, posted, shaky, upsets>>

NoDelivery == [status |-> "none", attempt |-> 0, retry |-> "never"]
NotSending == [step |-> "none", attempt |-> 0, retry |-> FALSE]

Init ==
  /\ webhook = "active"
  /\ delivery = [d \in Delivery |-> NoDelivery]
  /\ sending = [s \in Server |-> [d \in Delivery |-> NotSending]]
  /\ accepted = [d \in Delivery |-> 0] /\ posted = [d \in Delivery |-> 0]
  /\ shaky = {} /\ upsets = 0

Upset == upsets < MaxUpsets /\ upsets' = upsets + 1

Step(s, d, step) == sending' = [sending EXCEPT ![s][d].step = step]
Done(s, d) == sending' = [sending EXCEPT ![s][d] = NotSending]

\* Variant: the delay is looked up beyond the end of the schedule.
NextRetry_TooFar(attempt) == IF attempt + 1 <= Delays - 1 THEN "later" ELSE "never"

\* nextRetryAt: an attempt beyond the schedule is not repeated.
NextRetry(attempt) == IF attempt <= Delays THEN "later" ELSE "never"

-----------------------------------------------------------------------------
\* PATCH /webhooks/:id switches a webhook; DELETE takes its rows with it.
Patch ==
  /\ webhook # "deleted"
  /\ webhook' \in {"active", "inactive"} \ {webhook}
  /\ UNCHANGED <<delivery, sending, accepted, posted, shaky, upsets>>

Delete ==
  /\ webhook # "deleted" /\ webhook' = "deleted"
  /\ delivery' = [d \in Delivery |-> NoDelivery]
  /\ UNCHANGED <<sending, accepted, posted, shaky, upsets>>

\* dispatch selects the active webhooks; POST /:id/test any that exists.
Select(s, d) ==
  /\ delivery[d] = NoDelivery /\ posted[d] = 0
  /\ \A t \in Server : sending[t][d] = NotSending
  /\ webhook # "deleted"
  /\ Step(s, d, "create")
  /\ UNCHANGED <<webhook, delivery, accepted, posted, shaky, upsets>>

\* createDelivery, which fails when the webhook is gone.
CreateDelivery(s, d) ==
  /\ sending[s][d].step = "create"
  /\ IF webhook = "deleted"
     THEN Done(s, d) /\ UNCHANGED <<delivery, posted>>
     ELSE /\ delivery' = [delivery EXCEPT ![d] =
               [status |-> "pending", attempt |-> 1, retry |-> "never"]]
          /\ sending' = [sending EXCEPT ![s][d] = [step |-> "post", attempt |-> 1, retry |-> FALSE]]
          /\ posted' = [posted EXCEPT ![d] = @ + 1]
  /\ UNCHANGED <<webhook, accepted, shaky, upsets>>

-----------------------------------------------------------------------------
(* attemptDelivery                                                          *)

\* The endpoint answers 2xx, another status, or nothing within the timeout;
\* then it may have processed the POST all the same.
Answer(s, d) ==
  /\ sending[s][d].step = "post"
  /\ \/ /\ accepted' = [accepted EXCEPT ![d] = @ + 1]
        /\ Step(s, d, "success") /\ UNCHANGED shaky
     \/ Step(s, d, "failed") /\ UNCHANGED <<accepted, shaky>>
     \/ /\ accepted' = [accepted EXCEPT ![d] = @ + 1]
        /\ Step(s, d, "failed") /\ shaky' = shaky \cup {d}
  /\ UNCHANGED <<webhook, delivery, posted, upsets>>

\* Variant: a success is stored like any other answer.
UpdateDelivery_NoSuccess(s, d) ==
  /\ sending[s][d].step \in {"success", "failed"}
  /\ delivery' = IF delivery[d] = NoDelivery THEN delivery
                 ELSE [delivery EXCEPT ![d] =
                   [status |-> "failed", attempt |-> sending[s][d].attempt + 1,
                    retry |-> NextRetry(sending[s][d].attempt + 1)]]
  /\ Done(s, d)
  /\ UNCHANGED <<webhook, accepted, posted, shaky, upsets>>

\* updateDelivery: the attempt is the one that was read, plus one.
UpdateDelivery(s, d) ==
  /\ sending[s][d].step \in {"success", "failed"}
  /\ delivery' = IF delivery[d] = NoDelivery THEN delivery
                 ELSE [delivery EXCEPT ![d] =
                   [status |-> sending[s][d].step, attempt |-> sending[s][d].attempt + 1,
                    retry |-> IF sending[s][d].step = "success" THEN "never"
                              ELSE NextRetry(sending[s][d].attempt + 1)]]
  /\ Done(s, d)
  /\ UNCHANGED <<webhook, accepted, posted, shaky, upsets>>

\* The update fails: a success goes on as a failure, a failure is dropped.
UpdateFails(s, d) ==
  /\ sending[s][d].step \in {"success", "failed"}
  /\ Upset /\ shaky' = shaky \cup {d}
  /\ IF sending[s][d].step = "success" THEN Step(s, d, "failed") ELSE Done(s, d)
  /\ UNCHANGED <<webhook, delivery, accepted, posted>>

-----------------------------------------------------------------------------
(* The retry job.                                                           *)

\* next_retry_at passes.
BecomesDue(d) ==
  /\ delivery[d].retry = "later"
  /\ \A s \in Server : sending[s][d] = NotSending
  /\ delivery' = [delivery EXCEPT ![d].retry = "due"]
  /\ UNCHANGED <<webhook, sending, accepted, posted, shaky, upsets>>

\* getDueRetries
Due(d) ==
  /\ delivery[d].status = "failed" /\ delivery[d].attempt < MAX_ATTEMPTS
  /\ delivery[d].retry = "due"

Repeating(s) == \E d \in Delivery : sending[s][d].retry

\* A tick sends everything that is due and waits for all of it; a server is
\* not at the same delivery twice.
Tick(s) ==
  LET due == {d \in Delivery : Due(d) /\ sending[s][d] = NotSending}
  IN  /\ webhook = "active" /\ ~Repeating(s) /\ due # {}
      /\ sending' = [sending EXCEPT ![s] = [d \in Delivery |->
           IF d \in due THEN [step |-> "post", attempt |-> delivery[d].attempt, retry |-> TRUE]
           ELSE @[d]]]
      /\ posted' = [d \in Delivery |-> posted[d] + IF d \in due THEN 1 ELSE 0]
      /\ shaky' = shaky \cup {d \in due : \E t \in Server \ {s} : sending[t][d] # NotSending}
      /\ UNCHANGED <<webhook, delivery, accepted, upsets>>

\* A server dies with what it was sending.
Die(s) ==
  /\ Upset
  /\ sending' = [sending EXCEPT ![s] = [d \in Delivery |-> NotSending]]
  /\ shaky' = shaky \cup {d \in Delivery : sending[s][d] # NotSending}
  /\ UNCHANGED <<webhook, delivery, accepted, posted>>

Send(s, d) == CreateDelivery(s, d) \/ Answer(s, d) \/ UpdateDelivery(s, d)

Next ==
  \/ Patch \/ Delete
  \/ \E d \in Delivery : BecomesDue(d)
  \/ \E s \in Server :
       \/ Tick(s) \/ Die(s)
       \/ \E d \in Delivery : Select(s, d) \/ Send(s, d) \/ UpdateFails(s, d)

-----------------------------------------------------------------------------
TypeOK ==
  /\ webhook \in {"active", "inactive", "deleted"}
  /\ delivery \in [Delivery -> [status : {"none", "pending", "success", "failed"},
                                attempt : 0..(MAX_ATTEMPTS + 1), retry : {"never", "later", "due"}]]
  /\ sending \in [Server -> [Delivery ->
       [step : {"none", "create", "post", "success", "failed"}, attempt : 0..MAX_ATTEMPTS,
        retry : BOOLEAN]]]
  /\ accepted \in [Delivery -> Nat] /\ posted \in [Delivery -> Nat]
  /\ shaky \subseteq Delivery /\ upsets \in 0..MaxUpsets

\* The endpoint accepts a delivery once, unless an answer was lost, a sender
\* died, a statement failed or two servers sent it at the same time.
AcceptedOnce == \A d \in Delivery : d \notin shaky => accepted[d] <= 1

\* The attempts the retry job makes: those after the first and before the last.
Repeats == IF MAX_ATTEMPTS > 2 THEN MAX_ATTEMPTS - 2 ELSE 0

\* However servers overlap, a delivery is POSTed by each server at most once per
\* attempt, and once more for each crash or failed statement.
PostsBounded ==
  \A d \in Delivery : posted[d] <= 1 + Repeats * Cardinality(Server) + upsets

\* A row stays pending only while its first POST is under way, or when that
\* sender died or could not store the outcome: nothing else is forgotten.
PendingIsUnderWay ==
  \A d \in Delivery : delivery[d].status = "pending" /\ d \notin shaky =>
    \E s \in Server : sending[s][d].step \in {"post", "success", "failed"}

\* No delivery of the active webhook failed with attempts left.
DeliveriesSettled ==
  webhook = "active" =>
    \A d \in Delivery : delivery[d].status = "failed" => delivery[d].attempt >= MAX_ATTEMPTS
=============================================================================
