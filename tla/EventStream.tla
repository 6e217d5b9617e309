---------------------------- MODULE EventStream -----------------------------
(* Contract events: Horizon streams the events of a contract from a cursor,  *)
(* a handler stores each with the new cursor in one transaction, dispatches  *)
(* it and marks it; a loop repeats what was not marked processed. Handlers   *)
(* of one stream overlap, because onmessage does not wait for them. A        *)
(* backfill process stores events again and moves the same cursor.           *)
(*                                                                           *)
(* Where there is an EventSource a connection resumes at the stored cursor;  *)
(* on Node.js without one (20, which the Dockerfiles use) createNodeSSE      *)
(* starts every connection with what is new.                                 *)
(*                                                                           *)
(* One contract (streams share nothing). Left out: the dispatched handlers,  *)
(* which only log.                                                           *)
EXTENDS Integers, Sequences, FiniteSets

CONSTANTS MaxEvents,   \* events the contract emits
          Refused,     \* events whose type the CHECK of event_type refuses
          Untyped,     \* events without a type
          Handler,     \* handlers that may run at the same time
          Pass,        \* passes of the retry loop that may run at the same time
          MAX_RETRIES, \* CONTRACT_EVENT_MAX_RETRIES
          PAGE_LIMIT,  \* records in a page of the backfill
          MaxRows, MaxFaults \* bounds on stored rows and on failed statements

Event == 1..MaxEvents

EventStreamAssumption ==
  /\ MaxEvents \in Nat /\ Refused \subseteq Event /\ Untyped \subseteq Event \ Refused
  /\ IsFiniteSet(Handler) /\ IsFiniteSet(Pass)
  /\ MAX_RETRIES \in Nat \ {0} /\ PAGE_LIMIT \in Nat \ {0}
  /\ MaxRows \in Nat /\ MaxFaults \in Nat

VARIABLES resumes,  \* the runtime has an EventSource: connections resume at the cursor
          emitted,  \* how many events the network has
          stream,   \* "down" or "up"
          position, \* the last event the open stream has delivered
          handler,  \* what each handler is doing
          rows,     \* contract_events
          cursor,   \* contract_event_cursors; 0 is no row
          pass,     \* the rows each pass of the retry loop has still to do, oldest first
          backfill, \* the backfill process
          faults,   \* statements the database has failed
          missed,   \* history: what, while orderly, a connection that does not resume passed over
          orderly   \* history: nothing arrived and no connection started before
                    \* a handler had stored its event, no statement failed and
                    \* there was no backfill

eventVars == <<resumes, emitted, stream, position, handler, rows, cursor, pass, backfill,
               faults, missed, orderly>>

-----------------------------------------------------------------------------
Stored == Event \ (Refused \cup Untyped)   \* what contract_events accepts

Idle == [step |-> "idle", event |-> 0, row |-> 0]
Off  == [step |-> "off", next |-> 0, last |-> 0, full |-> FALSE]

Row(e) == [event |-> e, status |-> "pending", retry_count |-> 0]

Rows == [event : Stored, status : {"pending", "processed", "failed"},
         retry_count : 0..(MAX_RETRIES + Cardinality(Pass))]

\* A row the retry loop selects.
Due(r) == r.status = "pending" \/ (r.status = "failed" /\ r.retry_count < MAX_RETRIES)

Processed(i) == [rows EXCEPT ![i].status = "processed"]

Failed(i) == [rows EXCEPT ![i].status = "failed", ![i].retry_count = @ + 1]

Storing == \E h \in Handler : handler[h].step = "received"

Init ==
  /\ emitted = 0 /\ stream = "down" /\ position = 0
  /\ handler = [h \in Handler |-> Idle]
  /\ rows = <<>> /\ cursor = 0
  /\ pass = [p \in Pass |-> {}]
  /\ backfill = Off
  /\ resumes \in BOOLEAN
  /\ faults = 0 /\ missed = {} /\ orderly = TRUE

Emit ==
  /\ emitted < MaxEvents
  /\ emitted' = emitted + 1
  /\ UNCHANGED <<resumes, stream, position, handler, rows, cursor, pass, backfill,
                 faults, orderly, missed>>

\* A statement of the database fails, as connections, pools and servers do.
Fault ==
  /\ faults < MaxFaults
  /\ faults' = faults + 1
  /\ orderly' = FALSE

-----------------------------------------------------------------------------
(* The stream.                                                             *)

\* A first connection has no cursor and starts with what is new ("now"); so does each
\* one of createNodeSSE, which passes over what came since the cursor.
Connect ==
  /\ stream = "down"
  /\ stream' = "up"
  /\ position' = IF resumes /\ cursor # 0 THEN cursor ELSE emitted
  /\ missed' = IF resumes \/ cursor = 0 \/ ~orderly THEN missed ELSE missed \cup ((cursor + 1)..emitted)
  /\ orderly' = (orderly /\ ~Storing)
  /\ UNCHANGED <<resumes, emitted, handler, rows, cursor, pass, backfill, faults>>

\* The connection breaks; handlers that have started go on.
Disconnect ==
  /\ stream = "up"
  /\ stream' = "down" /\ position' = 0
  /\ UNCHANGED <<resumes, emitted, handler, rows, cursor, pass, backfill, faults,
                 orderly, missed>>

\* The next event of the stream, for one more handler; an event without a type
\* is skipped.
Deliver(h) ==
  /\ stream = "up" /\ position < emitted
  /\ handler[h] = Idle /\ h = CHOOSE g \in Handler : handler[g] = Idle
  /\ position' = position + 1
  /\ handler' = IF position + 1 \in Untyped THEN handler
                ELSE [handler EXCEPT ![h] =
                       [step |-> "received", event |-> position + 1, row |-> 0]]
  /\ orderly' = (orderly /\ ~Storing)
  /\ UNCHANGED <<resumes, emitted, stream, rows, cursor, pass, backfill, faults, missed>>

\* Variant: the cursor is saved before the event.
Record_CursorAlone(h) ==
  /\ handler[h].step = "received" /\ handler[h].event \in Stored
  /\ IF cursor # handler[h].event
     THEN cursor' = handler[h].event /\ UNCHANGED <<handler, rows>>
     ELSE /\ Len(rows) < MaxRows
          /\ rows' = Append(rows, Row(handler[h].event))
          /\ handler' = [handler EXCEPT ![h].step = "stored", ![h].row = Len(rows) + 1]
          /\ UNCHANGED cursor
  /\ UNCHANGED <<resumes, emitted, stream, position, pass, backfill, faults, orderly,
                 missed>>

\* recordEventAndUpdateCursor: the row and the cursor in one transaction.
Record(h) ==
  /\ handler[h].step = "received" /\ handler[h].event \in Stored
  /\ Len(rows) < MaxRows
  /\ rows' = Append(rows, Row(handler[h].event))
  /\ cursor' = handler[h].event
  /\ handler' = [handler EXCEPT ![h].step = "stored", ![h].row = Len(rows) + 1]
  /\ UNCHANGED <<resumes, emitted, stream, position, pass, backfill, faults, orderly,
                 missed>>

\* The table refuses the type, or the database fails: the error is logged and
\* the cursor stays, until the next event moves it.
RecordFails(h) ==
  /\ handler[h].step = "received"
  /\ \/ handler[h].event \in Refused /\ UNCHANGED <<faults, orderly>>
     \/ Fault
  /\ handler' = [handler EXCEPT ![h] = Idle]
  /\ UNCHANGED <<resumes, emitted, stream, position, rows, cursor, pass, backfill, missed>>

\* Dispatch, which cannot fail, and markEventProcessed.
MarkProcessed(h) ==
  /\ handler[h].step = "stored"
  /\ rows' = Processed(handler[h].row)
  /\ handler' = [handler EXCEPT ![h] = Idle]
  /\ UNCHANGED <<resumes, emitted, stream, position, cursor, pass, backfill, faults,
                 orderly, missed>>

\* markEventProcessed fails.
MarkingFails(h) ==
  /\ handler[h].step = "stored"
  /\ Fault
  /\ handler' = [handler EXCEPT ![h].step = "failing"]
  /\ UNCHANGED <<resumes, emitted, stream, position, rows, cursor, pass, backfill, missed>>

\* markEventFailed, which may fail too.
MarkFailed(h) ==
  /\ handler[h].step = "failing"
  /\ \/ rows' = Failed(handler[h].row) /\ UNCHANGED <<faults, orderly>>
     \/ Fault /\ UNCHANGED rows
  /\ handler' = [handler EXCEPT ![h] = Idle]
  /\ UNCHANGED <<resumes, emitted, stream, position, cursor, pass, backfill, missed>>

-----------------------------------------------------------------------------
(* The retry loop. An interval starts a pass whether or not the last ended.  *)

DueRows == {i \in 1..Len(rows) : Due(rows[i])}

StartPass(p) ==
  /\ pass[p] = {} /\ DueRows # {}
  /\ pass' = [pass EXCEPT ![p] = DueRows]
  /\ UNCHANGED <<resumes, emitted, stream, position, handler, rows, cursor, backfill,
                 faults, orderly, missed>>

\* The next row of the pass: dispatched and marked, or marked failed if that
\* failed. When this fails as well the pass is over.
Retry(p) ==
  /\ \E i \in pass[p] :
       /\ \A j \in pass[p] : i <= j
       /\ \/ /\ rows' = Processed(i)
             /\ pass' = [pass EXCEPT ![p] = @ \ {i}]
             /\ UNCHANGED <<faults, orderly>>
          \/ /\ Fault
             /\ \/ rows' = Failed(i) /\ pass' = [pass EXCEPT ![p] = @ \ {i}]
                \/ UNCHANGED rows /\ pass' = [pass EXCEPT ![p] = {}]
  /\ UNCHANGED <<resumes, emitted, stream, position, handler, cursor, backfill, missed>>

-----------------------------------------------------------------------------
(* The backfill: pages of records, each record stored and marked by itself,  *)
(* the cursor saved after a page.                                            *)

\* The page of records after the first n.
PageAfter(n) ==
  LET full == n + PAGE_LIMIT <= emitted
  IN  [step |-> "page", next |-> n + 1, last |-> IF full THEN n + PAGE_LIMIT ELSE emitted,
       full |-> full]

StartBackfill ==
  /\ backfill = Off
  /\ \E from \in 0..(emitted - 1) : backfill' = PageAfter(from)
  /\ orderly' = FALSE
  /\ UNCHANGED <<resumes, emitted, stream, position, handler, rows, cursor, pass, faults,
                 missed>>

\* recordContractEvent, or the record is skipped (its type, or an error).
BackfillRecord ==
  /\ backfill.step = "page" /\ backfill.next <= backfill.last
  /\ \/ /\ backfill.next \in Stored /\ Len(rows) < MaxRows
        /\ rows' = Append(rows, Row(backfill.next))
        /\ backfill' = [backfill EXCEPT !.step = "stored"]
        /\ UNCHANGED <<faults, orderly>>
     \/ /\ IF backfill.next \in Stored THEN Fault ELSE UNCHANGED <<faults, orderly>>
        /\ backfill' = [backfill EXCEPT !.next = @ + 1]
        /\ UNCHANGED rows
  /\ UNCHANGED <<resumes, emitted, stream, position, handler, cursor, pass, missed>>

\* markEventProcessed of the row just stored: the last of its event.
BackfillMark ==
  /\ backfill.step = "stored"
  /\ LET i == CHOOSE j \in 1..Len(rows) :
                 /\ rows[j].event = backfill.next
                 /\ \A k \in (j + 1)..Len(rows) : rows[k].event # backfill.next
     IN  \/ rows' = Processed(i) /\ UNCHANGED <<faults, orderly>>
         \/ Fault /\ UNCHANGED rows
  /\ backfill' = [backfill EXCEPT !.step = "page", !.next = @ + 1]
  /\ UNCHANGED <<resumes, emitted, stream, position, handler, cursor, pass, missed>>

\* saveStreamCursor, and the next page if this one was full, there are more
\* records and they can be fetched.
BackfillSave ==
  /\ backfill.step = "page" /\ backfill.next > backfill.last
  /\ cursor' = backfill.last
  /\ \/ backfill.full /\ backfill.last < emitted /\ backfill' = PageAfter(backfill.last)
     \/ backfill' = Off
  /\ UNCHANGED <<resumes, emitted, stream, position, handler, rows, pass, faults,
                 orderly, missed>>

-----------------------------------------------------------------------------
\* The server stops: its stream, handlers and passes are gone.
Crash ==
  /\ stream' = "down" /\ position' = 0
  /\ handler' = [h \in Handler |-> Idle]
  /\ pass' = [p \in Pass |-> {}]
  /\ UNCHANGED <<resumes, emitted, rows, cursor, backfill, faults, orderly, missed>>

Handle(h) ==
  \/ Deliver(h) \/ Record(h) \/ RecordFails(h)
  \/ MarkProcessed(h) \/ MarkingFails(h) \/ MarkFailed(h)

RetryLoop(p) == StartPass(p) \/ Retry(p)

Backfilling == StartBackfill \/ BackfillRecord \/ BackfillMark \/ BackfillSave

Next ==
  \/ Emit \/ Connect \/ Disconnect \/ Crash \/ Backfilling
  \/ \E h \in Handler : Handle(h)
  \/ \E p \in Pass : RetryLoop(p)

-----------------------------------------------------------------------------
TypeOK ==
  /\ emitted \in 0..MaxEvents /\ stream \in {"down", "up"} /\ position \in 0..MaxEvents
  /\ handler \in [Handler -> [step : {"idle", "received", "stored", "failing"},
                              event : 0..MaxEvents, row : 0..MaxRows]]
  /\ rows \in Seq(Rows) /\ Len(rows) <= MaxRows
  /\ cursor \in 0..MaxEvents
  /\ pass \in [Pass -> SUBSET (1..Len(rows))]
  /\ backfill \in [step : {"off", "page", "stored"}, next : 0..(MaxEvents + 1), last : 0..MaxEvents,
                   full : BOOLEAN]
  /\ faults \in 0..MaxFaults /\ missed \subseteq Event
  /\ resumes \in BOOLEAN /\ orderly \in BOOLEAN

\* While events and connections come one at a time, the stored events are, in their order and
\* each once, all those the table accepts between the first stored one and the
\* cursor, whatever disconnections and crashes come between; on Node.js without an
\* EventSource, but for those a new connection passed over.
OrderlyExactlyOnce ==
  (orderly /\ rows # <<>>) =>
    /\ \A i, j \in 1..Len(rows) : i < j => rows[i].event < rows[j].event
    /\ \A e \in Stored \ missed : rows[1].event <= e /\ e <= cursor =>
         \E i \in 1..Len(rows) : rows[i].event = e
    /\ rows[Len(rows)].event = cursor

\* Every event is stored once: a replay is refused.
StoredOnce == \A i, j \in 1..Len(rows) : rows[i].event = rows[j].event => i = j

\* Nothing that is stored still waits to be processed or repeated.
RowsSettled == DueRows = {}
=============================================================================
