------------------------------- MODULE Guards -------------------------------
(* What stands before the handlers: the idempotency key, the sliding window  *)
(* of the rate limiter, the counter of failed logins and the circuit         *)
(* breaker. They share nothing but the requests that go through them.        *)
(*                                                                           *)
(* All of them read something, wait, and then act on it or write it, except  *)
(* the sliding window, which is one script in Redis; its time, however, is   *)
(* taken by the server before.                                               *)
EXTENDS Integers, FiniteSets

CONSTANTS Request,
          MaxErrors,      \* bound on failures of Redis and of the service behind the breaker
          Window, Limit, MaxTime, MaxScripts,  \* the rate limiter: bound on its clock and its requests
          SOFT_LOCK_THRESHOLD, CRED_STUFF_THRESHOLD, MaxFailures,  \* failed logins
          Retries         \* of a call through the breaker

Nobody == "nobody"

GuardsAssumption ==
  /\ IsFiniteSet(Request) /\ Nobody \notin Request /\ MaxErrors \in Nat
  /\ Window \in Nat \ {0} /\ Limit \in Nat \ {0} /\ MaxTime \in Nat /\ MaxScripts \in Nat
  /\ SOFT_LOCK_THRESHOLD \in Nat \ {0} /\ CRED_STUFF_THRESHOLD \in Nat \ {0} /\ MaxFailures \in Nat
  /\ Retries \in Nat

VARIABLES key,       \* the idempotency key: the answer cached under it, by the request that gave it
          keyed,     \* what each request with that key is doing
          handled,   \* history: requests whose handler succeeded
          unguarded, \* history: those of them that passed while another was under way, or
                     \* whose answer or whose key Redis lost
          errors,
          \* the sliding window
          now, stamps, arrived, scripts, admitted, inOrder,
          \* failed logins
          login, counter, blocked,
          \* the breaker
          circuit, calls

keyVars == <<key, keyed, handled, unguarded>>
windowVars == <<now, stamps, arrived, scripts, admitted, inOrder>>
loginVars == <<login, counter, blocked>>
breakerVars == <<circuit, calls>>
guardVars == <<keyVars, windowVars, loginVars, breakerVars, errors>>

Init ==
  /\ key = Nobody /\ keyed = [r \in Request |-> "none"]
  /\ handled = {} /\ unguarded = {}
  /\ now = 0 /\ stamps = {} /\ arrived = [r \in Request |-> -1]
  /\ scripts = 0 /\ admitted = {} /\ inOrder = TRUE
  /\ login = [r \in Request |-> [step |-> "none", count |-> 0]]
  /\ counter = [count |-> 0, expires |-> FALSE, stuck |-> FALSE, failures |-> 0] /\ blocked = FALSE
  /\ \E fallback \in BOOLEAN : circuit = [state |-> "closed", of |-> Nobody, fallback |-> fallback]
  /\ calls = [r \in Request |-> [step |-> "none", attempt |-> 0, about |-> Nobody]]
  /\ errors = 0

Error == errors < MaxErrors /\ errors' = errors + 1

-----------------------------------------------------------------------------
(* idempotency.js: requests with one key.                                   *)

Keyed(r, steps) == keyed[r] \in steps
UnderWay(r) == {q \in Request \ {r} : Keyed(q, {"handle", "answered"})}

\* GET: an answer that is cached is given again, with 409; otherwise the request goes on.
ReadKey(r) ==
  /\ Keyed(r, {"none"})
  /\ keyed' = [keyed EXCEPT ![r] = IF key = Nobody THEN "handle" ELSE "repeated"]
  /\ unguarded' = unguarded \union IF key = Nobody /\ UnderWay(r) # {} THEN {r} ELSE {}
  /\ UNCHANGED <<key, handled, errors>>

\* Redis fails: the request goes on, and its answer will not be cached.
ReadKeyFails(r) ==
  /\ Keyed(r, {"none"}) /\ Error
  /\ keyed' = [keyed EXCEPT ![r] = "handle_uncached"]
  /\ unguarded' = unguarded \union {r}
  /\ UNCHANGED <<key, handled>>

\* The handler succeeds, or fails and nothing is cached. The client is answered
\* before the answer is cached.
Handle(r) ==
  /\ Keyed(r, {"handle", "handle_uncached"})
  /\ \/ handled' = handled \union {r} /\ keyed' = [keyed EXCEPT ![r] = IF @ = "handle" THEN "answered" ELSE "done"]
     \/ keyed' = [keyed EXCEPT ![r] = "failed"] /\ UNCHANGED handled
  /\ UNCHANGED <<key, unguarded, errors>>

\* SET ... EX 86400; or it fails, and what was handled is not guarded.
StoreAnswer(r) ==
  /\ Keyed(r, {"answered"})
  /\ keyed' = [keyed EXCEPT ![r] = "done"]
  /\ \/ key' = r /\ UNCHANGED <<unguarded, errors>>
     \/ Error /\ unguarded' = unguarded \union {r} /\ UNCHANGED key
  /\ UNCHANGED handled

\* The day is over; requests from then on are new ones.
ForgetKey ==
  /\ key # Nobody /\ key' = Nobody
  /\ unguarded' = unguarded \union handled
  /\ UNCHANGED <<keyed, handled, errors>>

KeyNext ==
  \/ ForgetKey
  \/ \E r \in Request : ReadKey(r) \/ ReadKeyFails(r) \/ Handle(r) \/ StoreAnswer(r)

-----------------------------------------------------------------------------
(* slidingRateLimiter.js: requests of one identifier.                       *)

\* Requests get through, counted in Redis or not.
StampAt(t, counted) == [at |-> t, id |-> Cardinality(admitted), counted |-> counted]
LetThrough(t, counted) == admitted' = admitted \union {StampAt(t, counted)}

\* A request arrives and its server takes the time; without a connection to Redis
\* it passes uncounted ...
Arrive(r) ==
  /\ arrived[r] = -1 /\ scripts < MaxScripts
  /\ scripts' = scripts + 1
  /\ \/ arrived' = [arrived EXCEPT ![r] = now] /\ UNCHANGED <<admitted, errors>>
     \/ Error /\ LetThrough(now, FALSE) /\ UNCHANGED arrived
  /\ UNCHANGED <<now, stamps, inOrder>>

Tick ==
  /\ now < MaxTime /\ now' = now + 1
  /\ UNCHANGED <<stamps, arrived, scripts, admitted, inOrder, errors>>

Kept(t) == {s \in stamps : s.at > t - Window}

\* ... and the script prunes, counts and adds in one step. If it fails, or its answer
\* is lost, the request passes whatever the count.
RunScript(r) ==
  LET t == arrived[r]
      free == Cardinality(Kept(t)) < Limit
  IN
  /\ t # -1
  /\ \/ /\ stamps' = Kept(t) \union IF free THEN {StampAt(t, TRUE)} ELSE {}
        /\ inOrder' = (inOrder /\ \A s \in stamps : s.at <= t)
        /\ \/ free /\ LetThrough(t, TRUE) /\ (Error \/ UNCHANGED errors)
           \/ ~free /\ Error /\ LetThrough(t, FALSE)
           \/ ~free /\ UNCHANGED <<admitted, errors>>
     \/ Error /\ LetThrough(t, FALSE) /\ UNCHANGED <<stamps, inOrder>>
  /\ arrived' = [arrived EXCEPT ![r] = -1]
  /\ UNCHANGED <<now, scripts>>

WindowNext == Tick \/ \E r \in Request : Arrive(r) \/ RunScript(r)

-----------------------------------------------------------------------------
(* abuseDetection.js: failed logins from one address.                       *)

LoginAt(r, step) == login[r].step = step
EndLogin(r) == login' = [login EXCEPT ![r] = [step |-> "none", count |-> 0]]

\* checkIpBlock lets a login pass that is neither blocked nor soft-locked, or for which
\* Redis cannot tell; a password that is right ends it here.
TryLogin(r) ==
  /\ LoginAt(r, "none")
  /\ \/ ~blocked /\ counter.count < SOFT_LOCK_THRESHOLD /\ UNCHANGED errors
     \/ Error
  /\ counter.failures < MaxFailures
  /\ login' = [login EXCEPT ![r].step = "fail"]
  /\ counter' = [counter EXCEPT !.failures = @ + 1]
  /\ UNCHANGED blocked

\* recordFailedLogin: INCR; if it fails, or its answer is lost, the request is done ...
Increment(r) ==
  /\ LoginAt(r, "fail")
  /\ \/ /\ counter' = [counter EXCEPT !.count = @ + 1]
        /\ login' = [login EXCEPT ![r] = [step |-> IF counter.count = 0 THEN "expire" ELSE "judge",
                                          count |-> counter.count + 1]]
        /\ UNCHANGED errors
     \/ /\ Error /\ EndLogin(r)
        /\ \/ counter' = [counter EXCEPT !.count = @ + 1, !.stuck = @ \/ counter.count = 0]
           \/ UNCHANGED counter
  /\ UNCHANGED blocked

\* ... EXPIRE, by the request that counted the first failure; if it fails, or its
\* answer is lost, that request counts as none.
SetExpiry(r) ==
  /\ LoginAt(r, "expire")
  /\ \/ /\ counter' = [counter EXCEPT !.expires = counter.count > 0]
        /\ login' = [login EXCEPT ![r].step = "judge"]
        /\ UNCHANGED errors
     \/ /\ Error /\ EndLogin(r)
        /\ \/ counter' = [counter EXCEPT !.stuck = counter.count > 0]
           \/ counter' = [counter EXCEPT !.expires = counter.count > 0]
  /\ UNCHANGED blocked

\* ... and the address is blocked from the threshold on, unless Redis fails that too.
Judge(r) ==
  /\ LoginAt(r, "judge")
  /\ \/ blocked' = (blocked \/ login[r].count >= CRED_STUFF_THRESHOLD) /\ UNCHANGED errors
     \/ login[r].count >= CRED_STUFF_THRESHOLD /\ Error /\ UNCHANGED blocked
  /\ EndLogin(r)
  /\ UNCHANGED counter

\* Redis forgets the counter, if it expires, and the block; an administrator may
\* lift the block as well.
ForgetFailures ==
  /\ \/ counter.expires /\ counter' = [counter EXCEPT !.count = 0, !.expires = FALSE] /\ UNCHANGED blocked
     \/ blocked /\ blocked' = FALSE /\ UNCHANGED counter
  /\ UNCHANGED <<login, errors>>

LoginNext ==
  \/ ForgetFailures
  \/ \E r \in Request : TryLogin(r) \/ Increment(r) \/ SetExpiry(r) \/ Judge(r)

-----------------------------------------------------------------------------
(* circuitBreakerService.js: calls through one breaker, each about its own  *)
(* request.                                                                 *)

CallAt(r, step) == calls[r].step = step

\* getBreaker: the breaker is made with the function of its first call.
Execute(r) ==
  /\ CallAt(r, "none")
  /\ circuit' = [circuit EXCEPT !.of = IF @ = Nobody THEN r ELSE @]
  /\ calls' = [calls EXCEPT ![r].step = "fire"]
  /\ UNCHANGED errors

\* The service fails or times out: a breaker that was closed may open.
CallFails ==
  /\ circuit.state # "open" /\ Error
  /\ \E state \in {"closed", "open"} :
       /\ circuit.state = "half_open" => state = "open"
       /\ circuit' = [circuit EXCEPT !.state = state]

\* An open breaker calls nothing, and a call that fails is repeated while the breaker
\* is closed; with a fallback both are answered instead. What the service answers is
\* about the function the breaker has.
Fire(r) ==
  /\ CallAt(r, "fire")
  /\ \/ /\ circuit.state # "open"
        /\ calls' = [calls EXCEPT ![r].step = "done", ![r].about = circuit.of]
        /\ circuit' = [circuit EXCEPT !.state = "closed"]
        /\ UNCHANGED errors
     \/ /\ \/ circuit.state = "open" /\ UNCHANGED <<circuit, errors>>
           \/ CallFails
        /\ calls' = [calls EXCEPT ![r] =
             IF circuit.fallback THEN [@ EXCEPT !.step = "fallback"]
             ELSE IF circuit'.state = "closed" /\ @.attempt < Retries
             THEN [@ EXCEPT !.attempt = calls[r].attempt + 1]
             ELSE [@ EXCEPT !.step = "failed"]]

ResetTimeout ==
  /\ circuit.state = "open" /\ circuit' = [circuit EXCEPT !.state = "half_open"]
  /\ UNCHANGED <<calls, errors>>

BreakerNext == ResetTimeout \/ \E r \in Request : Execute(r) \/ Fire(r)

-----------------------------------------------------------------------------
Next ==
  \/ KeyNext /\ UNCHANGED <<windowVars, loginVars, breakerVars>>
  \/ WindowNext /\ UNCHANGED <<keyVars, loginVars, breakerVars>>
  \/ LoginNext /\ UNCHANGED <<keyVars, windowVars, breakerVars>>
  \/ BreakerNext /\ UNCHANGED <<keyVars, windowVars, loginVars>>

Stamp == [at : 0..MaxTime, id : 0..MaxScripts, counted : BOOLEAN]

TypeOK ==
  /\ key \in Request \union {Nobody}
  /\ keyed \in [Request -> {"none", "handle", "handle_uncached", "answered", "done", "failed", "repeated"}]
  /\ handled \subseteq Request /\ unguarded \subseteq Request
  /\ now \in 0..MaxTime /\ stamps \subseteq Stamp /\ admitted \subseteq Stamp
  /\ arrived \in [Request -> {-1} \union 0..MaxTime] /\ scripts \in 0..MaxScripts /\ inOrder \in BOOLEAN
  /\ login \in [Request -> [step : {"none", "fail", "expire", "judge"}, count : 0..MaxFailures]]
  /\ counter \in [count : 0..MaxFailures, expires : BOOLEAN, stuck : BOOLEAN, failures : 0..MaxFailures]
  /\ blocked \in BOOLEAN
  /\ circuit \in [state : {"closed", "open", "half_open"}, of : Request \union {Nobody},
                  fallback : BOOLEAN]
  /\ calls \in [Request -> [step : {"none", "fire", "fallback", "done", "failed"},
                            attempt : 0..Retries, about : Request \union {Nobody}]]
  /\ errors \in 0..MaxErrors

\* Requests with one key are handled once, but for those that came while another was
\* under way, or that Redis failed.
HandledOncePerKey == Cardinality(handled \ unguarded) <= 1

\* As long as requests are served in the order of their times, what exceeds the limit
\* in a window is only what Redis could not count.
Counted == {s \in admitted : s.counted}
WindowWithinLimit ==
  inOrder => \A t \in 0..MaxTime : Cardinality({s \in Counted : t - Window < s.at /\ s.at <= t}) <= Limit

\* Failures are forgotten again: a counter either expires, or is about to, or Redis
\* failed the request that counted the first of them.
FailuresExpire ==
  counter.count > 0 => counter.expires \/ counter.stuck \/ \E r \in Request : LoginAt(r, "expire")

\* What a call is answered is about what it asked.
AnswersAreOwn == \A r \in Request : CallAt(r, "done") => calls[r].about = r
=============================================================================
