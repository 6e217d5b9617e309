----------------------------- MODULE ApiClient ------------------------------
(* The HTTP client of the frontend (apiClient.ts): the interceptors that attach
   the token, refresh it once for all the requests refused meanwhile, serve
   reads from the offline cache, and send a request again.
   A 401 is answered before the request has any effect, and says of the token the
   request was sent with that it is no longer valid: it may come when the stored
   token is another one already.  The server rotates the refresh token at every
   refresh; the client keeps the one it had. *)
EXTENDS Integers, FiniteSets

CONSTANTS Request,            \* calls of the application: some reads, some writes
          Write,              \* those of them that change something
          MAX_RETRY_ATTEMPTS,
          MaxFaults           \* bound on lost calls and answers, and on server errors

ApiClientAssumption ==
    IsFiniteSet(Request) /\ Write \subseteq Request
    /\ MAX_RETRY_ATTEMPTS \in Nat /\ MaxFaults \in Nat

VARIABLES token,              \* localStorage: what the server will say of the token
          refreshToken,       \* localStorage: the same, for the refresh token
          understood,         \* whether the server's answer has the field the client reads
          isRefreshingToken,
          pendingRefreshQueue,
          call,               \* of each request: its step, _retry and _retryCount
          sentWith,           \* of one on its way: the "current" token, or one replaced since
                              \* that was "valid" or "refused" when it was
          cached,             \* reads whose answer is in the offline cache
          faults,
          sends, handled,     \* history: how often each was sent, and carried out
          lost                \* history: how often it was carried out unanswered

apiVars == <<token, refreshToken, understood, isRefreshingToken, pendingRefreshQueue, call, sentWith,
             cached, faults, sends, handled, lost>>

NoToken == "none"
Init ==
    /\ token = "valid" /\ refreshToken = "valid" /\ understood \in BOOLEAN
    /\ isRefreshingToken = FALSE /\ pendingRefreshQueue = {}
    /\ call = [r \in Request |-> [step |-> "none", retry |-> FALSE, retries |-> 0]]
    /\ sentWith = [r \in Request |-> "current"]
    /\ cached = {} /\ faults = 0
    /\ sends = [r \in Request |-> 0] /\ handled = sends /\ lost = sends

At(r, step) == call[r].step = step
GoTo(r, step) == call' = [call EXCEPT ![r].step = step]
Fault == faults < MaxFaults /\ faults' = faults + 1
TokensUnchanged == UNCHANGED <<token, refreshToken, understood>>
RefreshUnchanged == UNCHANGED <<isRefreshingToken, pendingRefreshQueue>>

\* What is on its way when the stored token changes has the one before.
Replaced ==
    sentWith' = [r \in Request |->
        IF ~At(r, "sent") \/ sentWith[r] # "current" THEN sentWith[r]
        ELSE IF token = "valid" THEN "valid" ELSE "refused"]
Answered(r) == sentWith' = [sentWith EXCEPT ![r] = "current"]

\* A token that was valid when it was replaced may have expired since, or not.
Accepted(r) == IF sentWith[r] = "current" THEN token = "valid" ELSE sentWith[r] = "valid"
Refusable(r) == sentWith[r] = "current" => token # "valid"

\* The requests are sent, or sent again, with the token stored at that time.
Sent(set) == sends' = [r \in Request |-> sends[r] + IF r \in set THEN 1 ELSE 0]

Send(r) ==
    /\ call[r].step \in {"none", "backoff"}
    /\ GoTo(r, "sent") /\ Sent({r})
    /\ UNCHANGED <<sentWith, cached, faults, handled, lost>> /\ TokensUnchanged /\ RefreshUnchanged

Expire ==
    /\ token = "valid" /\ token' = "expired"
    /\ UNCHANGED <<refreshToken, understood, call, sentWith, cached, faults, sends, handled, lost>>
    /\ RefreshUnchanged

-----------------------------------------------------------------------------

\* The answer comes; that of a read is cached.
Succeed(r) ==
    /\ At(r, "sent") /\ Accepted(r)
    /\ GoTo(r, "done") /\ Answered(r)
    /\ handled' = [handled EXCEPT ![r] = @ + 1]
    /\ cached' = IF r \in Write THEN cached ELSE cached \union {r}
    /\ UNCHANGED <<faults, sends, lost>> /\ TokensUnchanged /\ RefreshUnchanged

\* Refused. The second time that is final; the first time the request waits for
\* the refresh under way, or begins one.
Refuse(r) ==
    /\ At(r, "sent") /\ Refusable(r) /\ Answered(r)
    /\ \/ /\ call[r].retry
          /\ GoTo(r, "rejected")
          /\ RefreshUnchanged
       \/ /\ ~call[r].retry /\ isRefreshingToken
          /\ call' = [call EXCEPT ![r].retry = TRUE, ![r].step = "queued"]
          /\ pendingRefreshQueue' = pendingRefreshQueue \union {r}
          /\ UNCHANGED isRefreshingToken
       \/ /\ ~call[r].retry /\ ~isRefreshingToken
          /\ call' = [call EXCEPT ![r].retry = TRUE, ![r].step = "refresh"]
          /\ isRefreshingToken' = TRUE
          /\ UNCHANGED pendingRefreshQueue
    /\ UNCHANGED <<cached, faults, sends, handled, lost>> /\ TokensUnchanged

Released(r, step) == [q \in Request |->
    IF q \in pendingRefreshQueue \union {r} THEN [call[q] EXCEPT !.step = step] ELSE call[q]]

\* The refresh succeeds: what waited is sent again. The server has rotated its
\* refresh token, so the one kept is used up, and the answer may not be understood.
Refreshed(r) ==
    /\ At(r, "refresh") /\ refreshToken = "valid"
    /\ token' = IF understood THEN "valid" ELSE "undefined"
    /\ refreshToken' = "used" /\ Replaced
    /\ call' = Released(r, "sent")
    /\ Sent(pendingRefreshQueue \union {r})
    /\ pendingRefreshQueue' = {} /\ isRefreshingToken' = FALSE
    /\ UNCHANGED <<understood, cached, faults, handled, lost>>

\* Variant: the requests that wait are not told.
RefreshFails_Silently(r) ==
    /\ At(r, "refresh")
    /\ \/ refreshToken # "valid" /\ UNCHANGED faults
       \/ refreshToken = "valid" /\ Fault
    /\ token' = NoToken /\ refreshToken' = NoToken /\ Replaced
    /\ GoTo(r, "rejected")
    /\ isRefreshingToken' = FALSE
    /\ UNCHANGED <<understood, pendingRefreshQueue, cached, sends, handled, lost>>

\* The refresh fails, or there is no refresh token: what waited is rejected too,
\* and the user has to log in.
RefreshFails(r) ==
    /\ At(r, "refresh")
    /\ \/ refreshToken # "valid" /\ UNCHANGED faults
       \/ refreshToken = "valid" /\ Fault
    /\ token' = NoToken /\ refreshToken' = NoToken /\ Replaced
    /\ call' = Released(r, "rejected")
    /\ pendingRefreshQueue' = {} /\ isRefreshingToken' = FALSE
    /\ UNCHANGED <<understood, cached, sends, handled, lost>>

LogIn ==
    /\ token' = "valid" /\ refreshToken' = "valid"
    /\ token # "valid" /\ Fault /\ Replaced
    /\ UNCHANGED <<understood, call, cached, sends, handled, lost>> /\ RefreshUnchanged

LogOut ==
    /\ token' = NoToken /\ refreshToken' = NoToken
    /\ token = "valid" /\ Fault /\ Replaced
    /\ UNCHANGED <<understood, call, cached, sends, handled, lost>> /\ RefreshUnchanged

\* No answer, or a server error: the request may have been carried out or not. A
\* read that is cached is answered so when the network is down; anything else is
\* sent again, up to MAX_RETRY_ATTEMPTS times.
Fail(r) ==
    /\ At(r, "sent") /\ Fault /\ Answered(r)
    /\ \E carriedOut \in {n \in 0..1 : n = 1 => Accepted(r)} :
          /\ handled' = [handled EXCEPT ![r] = @ + carriedOut]
          /\ lost' = [lost EXCEPT ![r] = @ + carriedOut]
    /\ \/ r \in cached /\ GoTo(r, "done")
       \/ /\ call[r].retries < MAX_RETRY_ATTEMPTS
          /\ call' = [call EXCEPT ![r].retries = @ + 1, ![r].step = "backoff"]
       \/ call[r].retries = MAX_RETRY_ATTEMPTS /\ GoTo(r, "rejected")
    /\ UNCHANGED <<cached, sends>> /\ TokensUnchanged /\ RefreshUnchanged

\* A read is asked again by the application.
AskAgain(r) ==
    /\ r \notin Write /\ At(r, "done") /\ faults < MaxFaults
    /\ call' = [call EXCEPT ![r] = [step |-> "none", retry |-> FALSE, retries |-> 0]]
    /\ sends' = [sends EXCEPT ![r] = 0]
    /\ faults' = faults + 1
    /\ UNCHANGED <<sentWith, cached, handled, lost>> /\ TokensUnchanged /\ RefreshUnchanged

Next ==
    \/ Expire \/ LogIn \/ LogOut
    \/ \E r \in Request :
          Send(r) \/ Succeed(r) \/ Refuse(r) \/ Refreshed(r) \/ RefreshFails(r) \/ Fail(r) \/ AskAgain(r)

-----------------------------------------------------------------------------

TypeOK ==
    /\ token \in {NoToken, "valid", "expired", "undefined"}
    /\ refreshToken \in {NoToken, "valid", "used"}
    /\ understood \in BOOLEAN /\ isRefreshingToken \in BOOLEAN
    /\ pendingRefreshQueue \subseteq Request /\ cached \subseteq Request \ Write
    /\ \A r \in Request :
          /\ call[r].step \in {"none", "sent", "queued", "refresh", "backoff", "done", "rejected"}
          /\ call[r].retries \in 0..MAX_RETRY_ATTEMPTS
    /\ sentWith \in [Request -> {"current", "valid", "refused"}]
    /\ faults \in 0..MaxFaults

\* Nobody waits for nothing: the requests that wait do so for one refresh that
\* is under way.
WaitersAreReleased ==
    /\ pendingRefreshQueue = {r \in Request : At(r, "queued")}
    /\ Cardinality({r \in Request : At(r, "refresh")}) = IF isRefreshingToken THEN 1 ELSE 0
    /\ pendingRefreshQueue # {} => isRefreshingToken

\* However refusals, failures and refreshes mix, a request is sent at most once,
\* once more after a refresh, and MAX_RETRY_ATTEMPTS times after failures.
SendsBounded == \A r \in Request : sends[r] <= 2 + MAX_RETRY_ATTEMPTS

\* A write is carried out a second time only after it was carried out without
\* the answer coming back.
WrittenOncePerLoss == \A r \in Write : handled[r] <= 1 + lost[r]

=============================================================================
