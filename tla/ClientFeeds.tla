---------------------------- MODULE ClientFeeds ----------------------------
(* Two things the frontend fetches piece by piece: the pages of the           *)
(* transaction history (hooks/useInfiniteScroll.js, components/               *)
(* TransactionHistory.js), and the status of a submitted transaction          *)
(* (lib/txPoller.js, hooks/useTxPoller.js).                                   *)
(*                                                                            *)
(* Transactions are numbered as they are made; a page is what comes before    *)
(* its cursor, newest first. Every answer, error and late answer is a step.   *)
EXTENDS Integers, FiniteSets, FiniteSetsExt, Sequences

CONSTANTS MaxItems,  \* bound on transactions
          pageSize, pageLimit,
          Poll,      \* calls of start, each for a transaction of its own
          MaxFaults  \* bound on requests that fail

FeedsAssumption ==
  /\ MaxItems \in Nat /\ pageSize \in Nat \ {0} /\ pageLimit \in Nat \ {0}
  /\ IsFiniteSet(Poll) /\ MaxFaults \in Nat

VARIABLES made,     \* transactions the user has
          view,     \* the state of the reducer
          inFlight, \* the page being fetched, or 0
          cursors,  \* page -> its cursor, or 0
          repeated, \* history: a page after the first was fetched again
          verdict,  \* what the network says of each polled transaction
          poll,     \* the step of each call of start
          status,   \* the status shown, and of which call
          abort,
          unsure,   \* history: a call ended in an error that was no verdict
          overlap,  \* history: a call was started while another went on
          faults

feedVars == <<made, view, inFlight, cursors, repeated, verdict, poll, status, abort,
              unsure, overlap, faults>>

Init ==
  \* The first page is asked for when the component is mounted.
  /\ made \in 0..MaxItems
  /\ view = [items |-> <<>>, page |-> 1, loading |-> TRUE, error |-> FALSE, hasMore |-> TRUE]
  /\ inFlight = 1 /\ cursors = [p \in 1..pageLimit + 1 |-> 0] /\ repeated = FALSE
  /\ verdict = [p \in Poll |-> "none"] /\ poll = [p \in Poll |-> "none"]
  /\ status = [shown |-> "none", of |-> {}] /\ abort = FALSE
  /\ unsure = FALSE /\ overlap = FALSE /\ faults = 0

scrollVars == <<view, inFlight, cursors, repeated>>
pollVars == <<poll, status, abort, unsure, overlap>>

Fault == faults < MaxFaults /\ faults' = faults + 1

-----------------------------------------------------------------------------
(* The history.                                                             *)

Add ==
  /\ made < MaxItems /\ made' = made + 1
  /\ UNCHANGED <<scrollVars, verdict, pollVars, faults>>

\* What the server answers: at most pageSize of the transactions before the cursor.
Before(cursor) == IF cursor = 0 THEN 1..made ELSE 1..cursor - 1
PageAt(cursor) ==
  LET ids == Before(cursor)
      first == Max(ids \union {0})
  IN {i \in ids : i > first - pageSize}

load(page) ==
  /\ inFlight = 0
  /\ inFlight' = page
  /\ view' = [view EXCEPT !.loading = TRUE, !.error = FALSE]
  /\ UNCHANGED <<made, cursors, verdict, pollVars, faults>>

\* The sentinel below the list comes into view.
loadMore ==
  /\ view.hasMore /\ ~view.loading /\ ~view.error
  /\ load(view.page + 1)
  /\ UNCHANGED repeated

\* The button beside an error asks for the last page that came.
retry ==
  /\ view.error
  /\ load(view.page)
  /\ repeated' = (repeated \/ view.page > 1)

Success ==
  LET page == inFlight
      ids == PageAt(cursors[page])
      next == IF Before(cursors[page]) \ ids # {} THEN Min(ids) ELSE 0
      items == [k \in 1..Cardinality(ids) |-> Max(ids) - k + 1]  \* the newest first
  IN
  /\ inFlight # 0 /\ inFlight' = 0
  /\ cursors' = IF next = 0 THEN cursors ELSE [cursors EXCEPT ![page + 1] = next]
  /\ view' = [items |-> IF page = 1 THEN items ELSE view.items \o items,
              page |-> page, loading |-> FALSE, error |-> FALSE,
              hasMore |-> next # 0 /\ page < pageLimit]
  /\ UNCHANGED <<made, repeated, verdict, pollVars, faults>>

Failure ==
  /\ inFlight # 0 /\ inFlight' = 0
  /\ Fault
  /\ view' = [view EXCEPT !.loading = FALSE, !.error = TRUE]
  /\ UNCHANGED <<made, cursors, repeated, verdict, pollVars>>

-----------------------------------------------------------------------------
(* The poller.                                                              *)

Show(p, s) == status' = IF abort THEN status ELSE [shown |-> s, of |-> {p}]
Running == {p \in Poll : poll[p] = "running"}

\* start clears the flag by which reset stops an older call from showing anything.
start(p) ==
  /\ poll[p] = "none" /\ poll' = [poll EXCEPT ![p] = "running"]
  /\ abort' = FALSE /\ status' = [shown |-> "pending", of |-> {p}]
  /\ overlap' = (overlap \/ Running # {})
  /\ UNCHANGED <<made, scrollVars, verdict, unsure, faults>>

reset ==
  /\ abort' = TRUE /\ status' = [shown |-> "none", of |-> {}]
  /\ UNCHANGED <<made, scrollVars, verdict, poll, unsure, overlap, faults>>

\* The network puts the transaction into a ledger, successful or not.
Close(p) ==
  /\ verdict[p] = "none"
  /\ \E v \in {"confirmed", "failed"} : verdict' = [verdict EXCEPT ![p] = v]
  /\ UNCHANGED <<made, scrollVars, pollVars, faults>>

\* A 404 is no answer yet; a record ends the call.
PollOnce(p) ==
  /\ poll[p] = "running"
  /\ IF verdict[p] = "none"
     THEN Show(p, "confirming") /\ UNCHANGED poll
     ELSE Show(p, verdict[p]) /\ poll' = [poll EXCEPT ![p] = "done"]
  /\ UNCHANGED <<made, scrollVars, verdict, abort, unsure, overlap, faults>>

TimesOut(p) ==
  /\ poll[p] = "running" /\ poll' = [poll EXCEPT ![p] = "done"]
  /\ Show(p, "timeout")
  /\ UNCHANGED <<made, scrollVars, verdict, abort, unsure, overlap, faults>>

\* Any other error is shown as a failed transaction.
PollFails(p) ==
  /\ poll[p] = "running" /\ poll' = [poll EXCEPT ![p] = "done"]
  /\ Fault
  /\ Show(p, "failed") /\ unsure' = TRUE
  /\ UNCHANGED <<made, scrollVars, verdict, abort, overlap>>

HistoryNext == Add \/ loadMore \/ retry \/ Success \/ Failure

PollerNext ==
  \/ reset
  \/ \E p \in Poll : start(p) \/ Close(p) \/ PollOnce(p) \/ TimesOut(p) \/ PollFails(p)

Next == HistoryNext \/ PollerNext

-----------------------------------------------------------------------------
TypeOK ==
  /\ made \in 0..MaxItems
  /\ view.items \in Seq(1..MaxItems) /\ view.page \in 1..pageLimit
  /\ {view.loading, view.error, view.hasMore} \subseteq BOOLEAN
  /\ inFlight \in 0..pageLimit + 1 /\ cursors \in [1..pageLimit + 1 -> 0..MaxItems]
  /\ verdict \in [Poll -> {"none", "confirmed", "failed"}]
  /\ poll \in [Poll -> {"none", "running", "done"}]
  /\ status.shown \in {"none", "pending", "confirming", "confirmed", "failed", "timeout"}
  /\ status.of \subseteq Poll
  /\ {repeated, abort, unsure, overlap} \subseteq BOOLEAN /\ faults \in 0..MaxFaults

Shown == Range(view.items)

\* The history shows no transaction twice unless a page was fetched again, leaves none
\* out between the first and the last it shows, whatever is made or fails meanwhile,
\* and says it is complete only when nothing older is left or its limit is reached.
HistoryWithoutGaps ==
  /\ IsInjective(view.items) \/ repeated
  /\ Shown # {} => Shown = Min(Shown)..Max(Shown)
  /\ ~view.hasMore /\ Shown # {} => Min(Shown) = 1 \/ view.page = pageLimit

\* While calls do not overlap, the status shown is of the call started last, and a
\* transaction shown as confirmed or failed is that, unless a request failed.
StatusIsVerdict ==
  ~overlap =>
    \A p \in status.of :
      /\ status.shown = "confirmed" => verdict[p] = "confirmed"
      /\ status.shown = "failed" => verdict[p] = "failed" \/ unsure
      /\ poll[p] # "none"
=============================================================================
