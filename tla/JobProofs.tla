------------------------------ MODULE JobProofs ------------------------------
(***************************************************************************)
(* What holds of the background work and of the clients in a browser for   *)
(* every value of their constants: of each component the inductive         *)
(* invariant with its lemmas, then their composition and what the runs     *)
(* check of it.                                                            *)
(***************************************************************************)
EXTENDS Jobs, TotalTheorems

-----------------------------------------------------------------------------
(* Counting those of a set that are in certain steps *)

\* How many of R are in one of the given steps.
Tally(f, R, steps) == Cardinality({x \in R : f[x] \in steps})

LEMMA TallyType ==
  ASSUME NEW R, NEW f, NEW steps, IsFiniteSet(R)
  PROVE  Tally(f, R, steps) \in 0..Cardinality(R) /\ Cardinality(R) \in Nat
<1>1. {x \in R : f[x] \in steps} \subseteq R
  OBVIOUS
<1>2. QED
  BY <1>1, FS_Subset, FS_CardinalityType DEF Tally

LEMMA TallyNone ==
  ASSUME NEW R, NEW f, NEW steps, \A x \in R : f[x] \notin steps
  PROVE  Tally(f, R, steps) = 0
<1>1. {x \in R : f[x] \in steps} = {}
  OBVIOUS
<1>2. QED
  BY <1>1, FS_EmptySet DEF Tally

\* One of them moves: the number is the same when it neither enters nor leaves, ...
LEMMA TallySame ==
  ASSUME NEW R, NEW f, NEW g, NEW steps, \A x \in R : f[x] \in steps <=> g[x] \in steps
  PROVE  Tally(g, R, steps) = Tally(f, R, steps)
<1>1. {x \in R : g[x] \in steps} = {x \in R : f[x] \in steps}
  OBVIOUS
<1>2. QED
  BY <1>1 DEF Tally

\* ... and one more when it enters.
LEMMA TallyEnters ==
  ASSUME NEW R, IsFiniteSet(R), NEW f, NEW g, NEW steps, NEW r \in R,
         \A x \in R \ {r} : g[x] = f[x], f[r] \notin steps, g[r] \in steps
  PROVE  Tally(g, R, steps) = Tally(f, R, steps) + 1
<1> DEFINE P == {x \in R : f[x] \in steps}
           Q == {x \in R : g[x] \in steps}
<1>1. P \subseteq R /\ Q = P \cup {r} /\ r \notin P
  OBVIOUS
<1>2. Tally(f, R, steps) = Cardinality(P) /\ Tally(g, R, steps) = Cardinality(Q)
  BY DEF Tally
<1> HIDE DEF P, Q
<1>3. Cardinality(P \cup {r}) = Cardinality(P) + 1
  BY <1>1, FS_Subset, FS_AddElement
<1>4. QED
  BY <1>1, <1>2, <1>3

-----------------------------------------------------------------------------
(* Contract events *)

\* Finite sets and their sizes are the library's.
LEMMA EventsSizes ==
  /\ \A S : Events!IsFiniteSet(S) <=> IsFiniteSet(S)
  /\ \A S : Events!Cardinality(S) = Cardinality(S)
BY Zenon DEF Events!IsFiniteSet, Events!Cardinality, IsFiniteSet, Cardinality

\* The passes of the retry loop that have still to do row i, and the handler, if one
\* stored it and has not marked it.
PassesAt(i) == {p \in EventPass : i \in pass[p]}

HandlerAt(i) ==
  IF \E h \in EventHandler : handler[h].step \in {"stored", "failing"} /\ handler[h].row = i
  THEN 1 ELSE 0

\* A row is counted up by those that may still fail it: the bound of its retry_count.
EventRowInv(i) ==
  /\ rows[i].status = "pending" => rows[i].retry_count = 0
  /\ rows[i].retry_count + HandlerAt(i) + Events!Cardinality(PassesAt(i)) <= EventRetries + Events!Cardinality(EventPass)

EventHandlersInv ==
  /\ \A h \in EventHandler : handler[h].step \in {"stored", "failing"} => handler[h].row \in 1..Len(rows)
  /\ \A g, h \in EventHandler :
       /\ handler[g].step \in {"stored", "failing"} /\ handler[h].step \in {"stored", "failing"}
       /\ handler[g].row = handler[h].row
       => g = h

\* The row a backfill has to mark is the last one of its event.
BackfillInv ==
  /\ backfill.next <= backfill.last + 1
  /\ backfill.step = "stored" =>
       /\ backfill.next <= backfill.last
       /\ \E j \in 1..Len(rows) :
            /\ rows[j].event = backfill.next
            /\ \A k \in (j + 1)..Len(rows) : rows[k].event # backfill.next

\* What is stored while things come one at a time, ...
InOrder ==
  /\ rows = <<>> => cursor = 0
  /\ cursor <= emitted
  /\ rows # <<>> =>
       /\ \A i, j \in 1..Len(rows) : i < j => rows[i].event < rows[j].event
       /\ \A e \in Events!Stored \ missed : rows[1].event <= e /\ e <= cursor => \E i \in 1..Len(rows) : rows[i].event = e
       /\ rows[Len(rows)].event = cursor

\* ... and what the stream and its one handler have read: nothing behind the cursor, and
\* no event that the table accepts lies between.
NothingBefore(e) ==
  /\ cursor < e
  /\ rows # <<>> => \A x \in Events!Stored \ missed : ~(cursor < x /\ x < e)

OrderInv ==
  /\ backfill = Events!Off
  /\ \A g, h \in EventHandler : handler[g].step = "received" /\ handler[h].step = "received" => g = h
  /\ \A h \in EventHandler : handler[h].step = "received" =>
       /\ NothingBefore(handler[h].event) /\ handler[h].event <= emitted
       /\ stream = "up" => position = handler[h].event
  /\ stream = "up" /\ ~Events!Storing => NothingBefore(position + 1)
  /\ InOrder

EventsInv ==
  /\ Events!TypeOK /\ EventHandlersInv /\ BackfillInv
  /\ \A i \in 1..Len(rows) : EventRowInv(i)
  /\ orderly => OrderInv

LEMMA PassesCounted ==
  ASSUME Events!EventStreamAssumption, NEW S, S \subseteq EventPass
  PROVE  /\ Events!Cardinality(S) \in Nat /\ Events!Cardinality(S) <= Events!Cardinality(EventPass)
         /\ Events!Cardinality(EventPass) \in Nat
         /\ \A s \in EventPass \ S : Events!Cardinality(S \cup {s}) = Events!Cardinality(S) + 1
         /\ \A s \in S : Events!Cardinality(S) = Events!Cardinality(S \ {s}) + 1
BY PartCounted, EventsSizes DEF Events!EventStreamAssumption

HandlerRecords ==
  [step : {"idle", "received", "stored", "failing"}, event : 0..EventCount, row : 0..EventRows]

\* Numbers.
LEMMA EventNumbers ==
  ASSUME Events!EventStreamAssumption
  PROVE  /\ EventCount \in Nat /\ EventRows \in Nat /\ EventFaults \in Nat
         /\ EventRetries \in Nat /\ EventRetries > 0 /\ EventPage \in Nat /\ EventPage > 0
         /\ Events!Cardinality(EventPass) \in Nat /\ Events!Stored \subseteq 1..EventCount
<1>1. Events!Cardinality(EventPass) \in Nat
  BY PassesCounted
<1>2. QED
  BY <1>1 DEF Events!EventStreamAssumption, Events!Stored, Events!Event

LEMMA EventTypes ==
  ASSUME Events!EventStreamAssumption, Events!TypeOK
  PROVE  /\ emitted \in Nat /\ position \in Nat /\ cursor \in Nat
         /\ Len(rows) \in Nat
         /\ \A i \in 1..Len(rows) :
              /\ rows[i] \in Events!Rows /\ rows[i].event \in Events!Stored /\ rows[i].event \in Nat
              /\ rows[i].status \in {"pending", "processed", "failed"}
              /\ rows[i].retry_count \in Nat
         /\ rows = <<>> <=> Len(rows) = 0
         /\ \A h \in EventHandler : handler[h] \in HandlerRecords
         /\ \A p \in EventPass : pass[p] \subseteq 1..Len(rows)
<1>1. /\ emitted \in Nat /\ position \in Nat /\ cursor \in Nat /\ Len(rows) \in Nat
      /\ rows = <<>> <=> Len(rows) = 0
  BY EventNumbers DEF Events!TypeOK
<1>2. ASSUME NEW i \in 1..Len(rows)
      PROVE  /\ rows[i] \in Events!Rows /\ rows[i].event \in Events!Stored /\ rows[i].event \in Nat
             /\ rows[i].status \in {"pending", "processed", "failed"}
             /\ rows[i].retry_count \in Nat
  <2>1. rows[i] \in Events!Rows
    BY DEF Events!TypeOK
  <2>2. QED
    BY <2>1, EventNumbers, SMTT(60) DEF Events!Rows
<1>3. QED
  BY <1>1, <1>2 DEF Events!TypeOK, HandlerRecords

\* A row that is marked keeps its event and its place.
LEMMA RowChanged ==
  ASSUME Events!EventStreamAssumption, Events!TypeOK, NEW i \in 1..Len(rows), NEW r \in Events!Rows,
         rows' = [rows EXCEPT ![i] = r]
  PROVE  /\ rows' \in Seq(Events!Rows) /\ Len(rows') = Len(rows) /\ rows'[i] = r
         /\ \A j \in 1..Len(rows) : j # i => rows'[j] = rows[j]
BY DEF Events!TypeOK

LEMMA RowProcessed ==
  ASSUME Events!EventStreamAssumption, Events!TypeOK, NEW i \in 1..Len(rows), rows' = Events!Processed(i)
  PROVE  /\ rows' \in Seq(Events!Rows) /\ Len(rows') = Len(rows)
         /\ \A j \in 1..Len(rows) : /\ rows'[j].event = rows[j].event
                                    /\ rows'[j].retry_count = rows[j].retry_count
                                    /\ rows'[j].status = rows[j].status \/ rows'[j].status = "processed"
<1> DEFINE r == [rows[i] EXCEPT !.status = "processed"]
<1>1. rows[i] \in Events!Rows
  BY EventTypes
<1>2. r \in Events!Rows /\ r.event = rows[i].event /\ r.retry_count = rows[i].retry_count
      /\ r.status = "processed"
  BY <1>1 DEF Events!Rows
<1>3. rows' = [rows EXCEPT ![i] = r]
  BY <1>1 DEF Events!Processed
<1> HIDE DEF r
<1>4. QED
  BY <1>2, <1>3, SMTT(60) DEF Events!TypeOK

LEMMA RowFailed ==
  ASSUME Events!EventStreamAssumption, Events!TypeOK, NEW i \in 1..Len(rows), rows' = Events!Failed(i),
         rows[i].retry_count + 1 <= EventRetries + Events!Cardinality(EventPass)
  PROVE  /\ rows' \in Seq(Events!Rows) /\ Len(rows') = Len(rows)
         /\ \A j \in 1..Len(rows) : rows'[j].event = rows[j].event /\ (j # i => rows'[j] = rows[j])
         /\ rows'[i].status = "failed" /\ rows'[i].retry_count = rows[i].retry_count + 1
<1> DEFINE r == [rows[i] EXCEPT !.status = "failed", !.retry_count = @ + 1]
<1>1. rows[i] \in Events!Rows /\ rows[i].retry_count \in Nat
  BY EventTypes
<1>2. r \in Events!Rows /\ r.event = rows[i].event /\ r.retry_count = rows[i].retry_count + 1
      /\ r.status = "failed"
  <2>1. rows[i].retry_count + 1 \in 0..(EventRetries + Events!Cardinality(EventPass))
    BY <1>1, EventNumbers, SMTT(60)
  <2>2. QED
    BY <1>1, <2>1 DEF Events!Rows
<1>3. rows' = [rows EXCEPT ![i] = r]
  BY <1>1 DEF Events!Failed
<1> HIDE DEF r
<1>4. QED
  BY <1>2, <1>3, SMTT(60) DEF Events!TypeOK

LEMMA RowAppended ==
  ASSUME Events!EventStreamAssumption, Events!TypeOK, NEW e \in Events!Stored, Len(rows) < EventRows,
         rows' = Append(rows, Events!Row(e))
  PROVE  /\ rows' \in Seq(Events!Rows) /\ Len(rows') = Len(rows) + 1 /\ Len(rows') <= EventRows
         /\ \A j \in 1..Len(rows) : rows'[j] = rows[j]
         /\ rows'[Len(rows) + 1].event = e /\ rows'[Len(rows) + 1].status = "pending"
         /\ rows'[Len(rows) + 1].retry_count = 0
         /\ 1..Len(rows') = (1..Len(rows)) \cup {Len(rows) + 1}
<1>1. Events!Row(e) \in Events!Rows /\ Events!Row(e).event = e /\ Events!Row(e).status = "pending" /\ Events!Row(e).retry_count = 0
  BY EventNumbers DEF Events!Row, Events!Rows
<1>2. rows \in Seq(Events!Rows) /\ Len(rows) \in Nat /\ EventRows \in Nat
  BY EventNumbers DEF Events!TypeOK
<1>3. rows' \in Seq(Events!Rows) /\ Len(rows') = Len(rows) + 1 /\ rows'[Len(rows) + 1] = Events!Row(e)
      /\ \A j \in 1..Len(rows) : rows'[j] = rows[j]
  BY <1>1, <1>2
<1>4. QED
  BY <1>1, <1>2, <1>3

\* No handler comes to hold a row.
LEMMA HandlersLess ==
  ASSUME Events!EventStreamAssumption, Events!TypeOK, EventHandlersInv,
         Len(rows') \in Nat, Len(rows') >= Len(rows),
         \A g \in EventHandler : handler'[g].step \in {"stored", "failing"} =>
           handler[g].step \in {"stored", "failing"} /\ handler'[g].row = handler[g].row
  PROVE  EventHandlersInv' /\ \A i \in Nat : HandlerAt(i)' <= HandlerAt(i)
<1>1. Len(rows) \in Nat
  BY EventTypes
<1>2. EventHandlersInv'
  BY <1>1 DEF EventHandlersInv
<1>3. ASSUME NEW i \in Nat PROVE HandlerAt(i)' <= HandlerAt(i)
  <2>1. CASE \E h \in EventHandler : handler'[h].step \in {"stored", "failing"} /\ handler'[h].row = i
    <3>1. HandlerAt(i)' = 1 /\ HandlerAt(i) = 1
      BY <2>1 DEF HandlerAt
    <3>2. QED
      BY <3>1
  <2>2. CASE ~\E h \in EventHandler : handler'[h].step \in {"stored", "failing"} /\ handler'[h].row = i
    <3>1. HandlerAt(i)' = 0 /\ HandlerAt(i) \in {0, 1}
      BY <2>2 DEF HandlerAt
    <3>2. QED
      BY <3>1
  <2>3. QED
    BY <2>1, <2>2
<1>4. QED
  BY <1>2, <1>3

LEMMA HandlerAtType == ASSUME NEW i PROVE HandlerAt(i) \in {0, 1} /\ HandlerAt(i)' \in {0, 1}
BY DEF HandlerAt

\* A row that no one comes to hold.
LEMMA EventRowKept ==
  ASSUME Events!EventStreamAssumption, Events!TypeOK, NEW i \in 1..Len(rows), EventRowInv(i),
         rows'[i].retry_count = rows[i].retry_count,
         rows'[i].status = rows[i].status \/ rows'[i].status = "processed",
         HandlerAt(i)' <= HandlerAt(i),
         \A p \in EventPass : i \in pass'[p] => i \in pass[p]
  PROVE  EventRowInv(i)'
<1>1. PassesAt(i) \subseteq EventPass /\ PassesAt(i)' \subseteq PassesAt(i)
  BY DEF PassesAt
<1>2. Events!IsFiniteSet(PassesAt(i))
  BY <1>1, FS_Subset, EventsSizes DEF Events!EventStreamAssumption
<1>3. /\ Events!Cardinality(PassesAt(i)') \in Nat /\ Events!Cardinality(PassesAt(i)) \in Nat
      /\ Events!Cardinality(PassesAt(i)') <= Events!Cardinality(PassesAt(i))
  BY <1>1, <1>2, PartCounted, EventsSizes
<1>4. rows[i].retry_count \in Nat /\ EventRetries \in Nat /\ Events!Cardinality(EventPass) \in Nat
  BY EventTypes, EventNumbers
<1>5. rows[i].retry_count + HandlerAt(i) + Events!Cardinality(PassesAt(i))
        <= EventRetries + Events!Cardinality(EventPass)
  BY DEF EventRowInv
<1>6. rows[i].retry_count + HandlerAt(i)' + Events!Cardinality(PassesAt(i)')
        <= EventRetries + Events!Cardinality(EventPass)
  BY <1>3, <1>4, <1>5, HandlerAtType, SMTT(60)
<1>7. rows'[i].status = "pending" => rows'[i].retry_count = 0
  BY DEF EventRowInv
<1>8. QED
  BY <1>6, <1>7 DEF EventRowInv

\* The rows keep their events and their order.
SameEvents ==
  /\ Len(rows') = Len(rows)
  /\ \A j \in 1..Len(rows) : rows'[j].event = rows[j].event

LEMMA BackfillKept ==
  ASSUME Events!EventStreamAssumption, Events!TypeOK, BackfillInv, backfill' = backfill, SameEvents
  PROVE  BackfillInv'
<1>1. Len(rows) \in Nat
  BY EventTypes
<1>2. QED
  BY <1>1 DEF BackfillInv, SameEvents

LEMMA BackfillAppended ==
  ASSUME Events!EventStreamAssumption, Events!TypeOK, BackfillInv, backfill' = backfill,
         NEW e \in Events!Stored, Len(rows) < EventRows, rows' = Append(rows, Events!Row(e))
  PROVE  BackfillInv'
<1> DEFINE n == Len(rows) + 1
<1>1. /\ Len(rows) \in Nat /\ Len(rows') = n /\ rows'[n].event = e
      /\ \A j \in 1..Len(rows) : rows'[j] = rows[j]
  BY EventTypes, RowAppended
<1>2. CASE backfill.step = "stored" /\ e = backfill.next
  <2>1. n \in 1..Len(rows') /\ rows'[n].event = backfill'.next
        /\ \A k \in (n + 1)..Len(rows') : rows'[k].event # backfill'.next
    BY <1>1, <1>2
  <2>2. backfill'.next <= backfill'.last /\ backfill'.next <= backfill'.last + 1
    BY <1>2 DEF BackfillInv
  <2>3. QED
    BY <2>1, <2>2 DEF BackfillInv
<1>3. CASE backfill.step = "stored" /\ e # backfill.next
  <2>1. PICK j \in 1..Len(rows) :
          /\ rows[j].event = backfill.next
          /\ \A k \in (j + 1)..Len(rows) : rows[k].event # backfill.next
    BY <1>3 DEF BackfillInv
  <2>2. j \in 1..Len(rows') /\ rows'[j].event = backfill'.next
    BY <1>1, <2>1
  <2>3. ASSUME NEW k \in (j + 1)..Len(rows') PROVE rows'[k].event # backfill'.next
    <3>1. CASE k = n
      BY <1>1, <1>3, <3>1
    <3>2. CASE k # n
      <4>1. k \in (j + 1)..Len(rows) /\ k \in 1..Len(rows)
        BY <1>1, <3>2
      <4>2. QED
        BY <1>1, <2>1, <4>1
    <3>3. QED
      BY <3>1, <3>2
  <2>4. backfill'.next <= backfill'.last /\ backfill'.next <= backfill'.last + 1
    BY <1>3 DEF BackfillInv
  <2>5. QED
    BY <2>2, <2>3, <2>4 DEF BackfillInv
<1>4. CASE backfill.step # "stored"
  BY <1>4 DEF BackfillInv
<1>5. QED
  BY <1>2, <1>3, <1>4

\* Order depends on the events of the rows and the cursor only.
LEMMA InOrderKept ==
  ASSUME Events!EventStreamAssumption, Events!TypeOK, Events!TypeOK', SameEvents, cursor' = cursor,
         missed \subseteq missed', emitted' = emitted \/ emitted' = emitted + 1
  PROVE  /\ InOrder => InOrder'
         /\ \A e \in Int : NothingBefore(e) => NothingBefore(e)'
<1>1. /\ Len(rows) \in Nat /\ (rows = <<>> <=> Len(rows) = 0)
      /\ (rows' = <<>> <=> Len(rows') = 0)
  BY EventTypes DEF Events!TypeOK
<1>2. Len(rows') = Len(rows) /\ \A j \in 1..Len(rows) : rows'[j].event = rows[j].event
  BY DEF SameEvents
<1>3. ASSUME InOrder PROVE InOrder'
  <2>1. rows' = <<>> => cursor' = 0
    BY <1>1, <1>2, <1>3 DEF InOrder
  <2>2. ASSUME rows' # <<>>
        PROVE  /\ \A i, j \in 1..Len(rows') : i < j => rows'[i].event < rows'[j].event
               /\ \A e \in Events!Stored \ missed' : rows'[1].event <= e /\ e <= cursor' => \E i \in 1..Len(rows') : rows'[i].event = e
               /\ rows'[Len(rows')].event = cursor'
    <3>1. rows # <<>> /\ 1 \in 1..Len(rows) /\ Len(rows) \in 1..Len(rows)
      BY <1>1, <1>2, <2>2
    <3>2. QED
      BY <1>2, <1>3, <3>1 DEF InOrder
  <2>3. cursor' <= emitted'
    BY <1>3, EventTypes DEF InOrder
  <2>4. QED
    BY <2>1, <2>2, <2>3 DEF InOrder, Events!Stored, Events!Event
<1>4. ASSUME NEW e \in Int, NothingBefore(e) PROVE NothingBefore(e)'
  BY <1>1, <1>2, <1>4 DEF NothingBefore, Events!Stored, Events!Event
<1>5. QED
  BY <1>3, <1>4

LEMMA OrderKept ==
  ASSUME Events!EventStreamAssumption, Events!TypeOK, Events!TypeOK', OrderInv, SameEvents, cursor' = cursor,
         backfill' = backfill, missed \subseteq missed', emitted' = emitted \/ emitted' = emitted + 1,
         \A g \in EventHandler : handler'[g].step = "received" =>
           handler[g].step = "received" /\ handler'[g].event = handler[g].event,
         stream' = "up" => stream = "up" /\ position' = position,
         stream' = "up" /\ Events!Storing => Events!Storing'
  PROVE  OrderInv'
<1>1. InOrder' /\ \A e \in Int : NothingBefore(e) => NothingBefore(e)'
  BY InOrderKept DEF OrderInv
<1>2. backfill' = Events!Off /\ \A g, h \in EventHandler :
        handler'[g].step = "received" /\ handler'[h].step = "received" => g = h
  BY DEF OrderInv
<1>3. rows' = <<>> <=> rows = <<>>
  BY EventTypes DEF SameEvents, Events!TypeOK
<1>4. ASSUME NEW h \in EventHandler, handler'[h].step = "received"
      PROVE  /\ NothingBefore(handler[h].event)' /\ handler'[h].event <= emitted'
             /\ stream' = "up" => position' = handler'[h].event
  <2>1. /\ handler[h].step = "received" /\ handler'[h].event = handler[h].event
        /\ NothingBefore(handler[h].event) /\ handler[h].event <= emitted
        /\ stream = "up" => position = handler[h].event
    BY <1>4 DEF OrderInv
  <2>2. handler'[h].event <= emitted'
    BY <2>1, EventTypes DEF HandlerRecords
  <2>3. QED
    BY <1>3, <2>1, <2>2 DEF NothingBefore, Events!Stored, Events!Event
<1>5. ASSUME stream' = "up", ~Events!Storing' PROVE NothingBefore(position + 1)'
  <2>1. position' = position /\ NothingBefore(position + 1)
    BY <1>5 DEF OrderInv
  <2>2. QED
    BY <1>3, <2>1 DEF NothingBefore, Events!Stored, Events!Event
<1>6. QED
  BY <1>1, <1>2, <1>4, <1>5 DEF OrderInv

LEMMA RowsAlone ==
  ASSUME Events!EventStreamAssumption, EventsInv, rows' = rows, pass' = pass,
         \A g \in EventHandler : handler'[g].step \in {"stored", "failing"} =>
           handler[g].step \in {"stored", "failing"} /\ handler'[g].row = handler[g].row
  PROVE  EventHandlersInv' /\ \A i \in 1..Len(rows') : EventRowInv(i)'
<1>1. Events!TypeOK /\ EventHandlersInv /\ Len(rows) \in Nat
  BY EventTypes DEF EventsInv
<1>2. EventHandlersInv' /\ \A i \in Nat : HandlerAt(i)' <= HandlerAt(i)
  BY <1>1, HandlersLess
<1>3. ASSUME NEW i \in 1..Len(rows') PROVE EventRowInv(i)'
  <2>1. i \in 1..Len(rows) /\ i \in Nat /\ EventRowInv(i) /\ HandlerAt(i)' <= HandlerAt(i)
    BY <1>1, <1>2 DEF EventsInv
  <2>2. QED
    BY <1>1, <2>1, EventRowKept
<1>4. QED
  BY <1>2, <1>3

LEMMA FaultCounts ==
  ASSUME Events!EventStreamAssumption, Events!TypeOK, Events!Fault
  PROVE  faults' \in 0..EventFaults /\ orderly' = FALSE
BY EventNumbers, SMTT(60) DEF Events!Fault, Events!TypeOK

LEMMA HandlerSet ==
  ASSUME Events!EventStreamAssumption, Events!TypeOK, NEW h \in EventHandler, NEW v \in HandlerRecords,
         handler' = [handler EXCEPT ![h] = v]
  PROVE  /\ handler' \in [EventHandler -> HandlerRecords] /\ handler'[h] = v
         /\ \A g \in EventHandler : g # h => handler'[g] = handler[g]
BY DEF Events!TypeOK, HandlerRecords

LEMMA HandlerIdle ==
  ASSUME Events!EventStreamAssumption, Events!TypeOK, NEW h \in EventHandler, handler' = [handler EXCEPT ![h] = Events!Idle]
  PROVE  /\ handler' \in [EventHandler -> HandlerRecords] /\ handler'[h].step = "idle"
         /\ \A g \in EventHandler : g # h => handler'[g] = handler[g]
<1>1. Events!Idle \in HandlerRecords /\ Events!Idle.step = "idle"
  BY EventNumbers DEF Events!Idle, HandlerRecords
<1>2. QED
  BY <1>1, HandlerSet

LEMMA EventsInit == ASSUME Events!EventStreamAssumption, Events!Init PROVE EventsInv
<1>1. Events!TypeOK
  <2>1. Events!Idle \in HandlerRecords /\ Events!Off \in [step : {"off", "page", "stored"}, next : 0..(EventCount + 1),
                                                   last : 0..EventCount, full : BOOLEAN]
    BY EventNumbers DEF Events!Idle, Events!Off, HandlerRecords
  <2>2. <<>> \in Seq(Events!Rows) /\ Len(<<>>) = 0
    OBVIOUS
  <2>3. QED
    BY <2>1, <2>2, EventNumbers DEF Events!Init, Events!TypeOK, HandlerRecords
<1>2. \A h \in EventHandler : handler[h].step = "idle"
  BY DEF Events!Init, Events!Idle
<1>3. rows = <<>> /\ Len(rows) = 0 /\ cursor = 0 /\ backfill = Events!Off /\ stream = "down"
      /\ emitted = 0
  BY DEF Events!Init
<1>4. EventHandlersInv /\ BackfillInv
  BY <1>2, <1>3 DEF EventHandlersInv, BackfillInv, Events!Off
<1>5. OrderInv
  BY <1>2, <1>3 DEF OrderInv, InOrder
<1>6. QED
  BY <1>1, <1>3, <1>4, <1>5 DEF EventsInv

LEMMA EmitKeeps == ASSUME Events!EventStreamAssumption, EventsInv, Events!Emit PROVE EventsInv'
<1>1. Events!TypeOK /\ BackfillInv
      /\ UNCHANGED <<resumes, missed, stream, position, handler, rows, cursor, pass, backfill, faults, orderly>>
      /\ emitted' = emitted + 1
  BY DEF EventsInv, Events!Emit
<1>2. Events!TypeOK'
  BY <1>1, EventNumbers, SMTT(60) DEF Events!TypeOK, Events!Emit
<1>3. SameEvents
  BY <1>1 DEF SameEvents
<1>4. EventHandlersInv' /\ \A i \in 1..Len(rows') : EventRowInv(i)'
  BY <1>1, RowsAlone
<1>5. orderly' => OrderInv'
  <2>1. SUFFICES ASSUME orderly PROVE OrderInv'
    BY <1>1
  <2>2. OrderInv /\ (Events!Storing => Events!Storing')
    BY <1>1, <2>1 DEF EventsInv, Events!Storing
  <2>3. QED
    BY <1>1, <1>2, <1>3, <2>2, OrderKept
<1>6. QED
  BY <1>1, <1>2, <1>3, <1>4, <1>5, BackfillKept DEF EventsInv

LEMMA ConnectKeeps == ASSUME Events!EventStreamAssumption, EventsInv, Events!Connect PROVE EventsInv'
<1>1. /\ Events!TypeOK /\ BackfillInv /\ UNCHANGED <<resumes, emitted, handler, rows, cursor, pass, backfill, faults>>
      /\ stream' = "up" /\ position' = (IF resumes /\ cursor # 0 THEN cursor ELSE emitted)
      /\ missed \subseteq missed'
      /\ missed' \subseteq missed \cup ((cursor + 1)..emitted)
      /\ orderly' = (orderly /\ ~Events!Storing)
  BY DEF EventsInv, Events!Connect
<1>2. Events!TypeOK'
  <2>1. (cursor + 1)..emitted \subseteq 1..EventCount
    BY <1>1, EventNumbers, SMTT(60) DEF Events!TypeOK
  <2>2. missed' \subseteq Events!Event
    BY <1>1, <2>1 DEF Events!TypeOK, Events!Event
  <2>3. QED
    BY <1>1, <2>2, EventNumbers DEF Events!TypeOK
<1>3. SameEvents
  BY <1>1 DEF SameEvents
<1>4. EventHandlersInv' /\ \A i \in 1..Len(rows') : EventRowInv(i)'
  BY <1>1, RowsAlone
<1>5. ASSUME orderly' PROVE OrderInv'
  <2>1. OrderInv /\ ~Events!Storing
    BY <1>1, <1>5 DEF EventsInv
  <2>2. \A h \in EventHandler : handler'[h].step # "received"
    BY <1>1, <2>1 DEF Events!Storing
  <2>3. InOrder' /\ backfill' = Events!Off
    BY <1>1, <1>2, <1>3, <2>1, InOrderKept DEF OrderInv
  <2>4. NothingBefore(position + 1)'
    <3>1. cursor \in Nat /\ emitted \in Nat /\ Events!Stored \subseteq Nat
      BY <1>1, EventTypes, EventNumbers
    <3>2. cursor = 0 => rows = <<>>
      <4>1. rows # <<>> => Len(rows) \in 1..Len(rows) /\ rows[Len(rows)].event = cursor
        BY <1>1, <2>1, EventTypes DEF OrderInv, InOrder
      <4>2. \A i \in 1..Len(rows) : rows[i].event # 0
        BY <1>1, EventTypes, EventNumbers, SMTT(60)
      <4>3. QED
        BY <4>1, <4>2
    <3>3. cursor' < position' + 1
      BY <1>1, <2>1, <3>1 DEF OrderInv, InOrder
    <3>4. ASSUME rows' # <<>>, NEW x \in Events!Stored \ missed' PROVE ~(cursor' < x /\ x < position' + 1)
      <4>1. x \in Nat /\ cursor # 0
        BY <1>1, <3>1, <3>2, <3>4
      <4>2. CASE resumes
        BY <1>1, <3>1, <4>1, <4>2
      <4>3. CASE ~resumes
        <5>1. missed' = missed \cup ((cursor + 1)..emitted)
          BY <1>5, <4>1, <4>3 DEF Events!Connect
        <5>2. QED
          BY <1>1, <3>1, <3>4, <4>1, <4>3, <5>1
      <4>4. QED
        BY <4>2, <4>3
    <3>5. QED
      BY <3>3, <3>4 DEF NothingBefore, Events!Stored, Events!Event
  <2>5. QED
    BY <2>2, <2>3, <2>4 DEF OrderInv
<1>6. QED
  BY <1>1, <1>2, <1>3, <1>4, <1>5, BackfillKept DEF EventsInv

LEMMA DisconnectKeeps == ASSUME Events!EventStreamAssumption, EventsInv, Events!Disconnect PROVE EventsInv'
<1>1. /\ Events!TypeOK /\ BackfillInv /\ stream' = "down" /\ position' = 0
      /\ UNCHANGED <<resumes, missed, emitted, handler, rows, cursor, pass, backfill, faults, orderly>>
  BY DEF EventsInv, Events!Disconnect
<1>2. Events!TypeOK' /\ SameEvents
  BY <1>1, EventNumbers, SMTT(60) DEF Events!TypeOK, SameEvents
<1>3. EventHandlersInv' /\ \A i \in 1..Len(rows') : EventRowInv(i)'
  BY <1>1, RowsAlone
<1>4. ASSUME orderly' PROVE OrderInv'
  <2>1. OrderInv
    BY <1>1, <1>4 DEF EventsInv
  <2>2. QED
    BY <1>1, <1>2, <2>1, OrderKept
<1>5. QED
  BY <1>1, <1>2, <1>3, <1>4, BackfillKept DEF EventsInv

LEMMA CrashKeeps == ASSUME Events!EventStreamAssumption, EventsInv, Events!Crash PROVE EventsInv'
<1>1. /\ Events!TypeOK /\ BackfillInv /\ EventHandlersInv /\ stream' = "down" /\ position' = 0
      /\ UNCHANGED <<resumes, missed, emitted, rows, cursor, backfill, faults, orderly>>
      /\ \A h \in EventHandler : handler'[h].step = "idle"
      /\ handler' \in [EventHandler -> HandlerRecords]
      /\ pass' = [p \in EventPass |-> {}] /\ Len(rows) \in Nat
  <2>1. Events!Idle \in HandlerRecords /\ Events!Idle.step = "idle"
    BY EventNumbers DEF Events!Idle, HandlerRecords
  <2>2. QED
    BY <2>1, EventTypes DEF EventsInv, Events!Crash
<1>2. Events!TypeOK' /\ SameEvents
  BY <1>1, EventNumbers DEF Events!TypeOK, SameEvents, HandlerRecords
<1>3. EventHandlersInv' /\ \A i \in Nat : HandlerAt(i)' <= HandlerAt(i)
  BY <1>1, HandlersLess
<1>4. ASSUME NEW i \in 1..Len(rows') PROVE EventRowInv(i)'
  <2>1. i \in 1..Len(rows) /\ i \in Nat /\ EventRowInv(i) /\ HandlerAt(i)' <= HandlerAt(i)
        /\ \A p \in EventPass : i \in pass'[p] => i \in pass[p]
    BY <1>1, <1>3 DEF EventsInv
  <2>2. QED
    BY <1>1, <2>1, EventRowKept
<1>5. ASSUME orderly' PROVE OrderInv'
  <2>1. OrderInv
    BY <1>1, <1>5 DEF EventsInv
  <2>2. QED
    BY <1>1, <1>2, <2>1, OrderKept
<1>6. QED
  BY <1>1, <1>2, <1>3, <1>4, <1>5, BackfillKept DEF EventsInv

LEMMA DeliverKeeps ==
  ASSUME Events!EventStreamAssumption, EventsInv, NEW h \in EventHandler, Events!Deliver(h) PROVE EventsInv'
<1> DEFINE e == position + 1
           v == [step |-> "received", event |-> e, row |-> 0]
<1>1. /\ Events!TypeOK /\ BackfillInv /\ UNCHANGED <<resumes, missed, emitted, stream, rows, cursor, pass, backfill, faults>>
      /\ stream = "up" /\ position < emitted /\ position' = e /\ handler[h].step = "idle"
      /\ orderly' = (orderly /\ ~Events!Storing)
  BY DEF EventsInv, Events!Deliver, Events!Idle
<1>2. /\ e \in Nat /\ e <= EventCount /\ e > 0 /\ EventCount \in Nat /\ EventRows \in Nat
      /\ cursor \in Nat
  BY <1>1, EventNumbers, SMTT(60) DEF Events!TypeOK
<1>3. handler' = IF e \in EventUntyped THEN handler ELSE [handler EXCEPT ![h] = v]
  BY DEF Events!Deliver
<1>4. /\ handler' \in [EventHandler -> HandlerRecords]
      /\ e \in EventUntyped => handler' = handler
      /\ e \notin EventUntyped => handler'[h].step = "received" /\ handler'[h].event = e
      /\ \A g \in EventHandler : g # h => handler'[g] = handler[g]
  <2>1. CASE e \in EventUntyped
    BY <1>1, <1>3, <2>1 DEF Events!TypeOK, HandlerRecords
  <2>2. CASE e \notin EventUntyped
    <3>1. v \in HandlerRecords /\ v.step = "received" /\ v.event = e
      BY <1>2 DEF HandlerRecords
    <3> HIDE DEF v
    <3>2. handler' = [handler EXCEPT ![h] = v]
      BY <1>3, <2>2
    <3>3. QED
      BY <1>1, <2>2, <3>1, <3>2, HandlerSet
  <2>3. QED
    BY <2>1, <2>2
<1> HIDE DEF v
<1>5. Events!TypeOK' /\ SameEvents
  BY <1>1, <1>2, <1>4, SMTT(60) DEF Events!TypeOK, SameEvents, HandlerRecords
<1>6. EventHandlersInv' /\ \A i \in 1..Len(rows') : EventRowInv(i)'
  <2>1. \A g \in EventHandler : handler'[g].step \in {"stored", "failing"} =>
           handler[g].step \in {"stored", "failing"} /\ handler'[g].row = handler[g].row
    BY <1>1, <1>4
  <2>2. QED
    BY <1>1, <2>1, RowsAlone
<1>7. ASSUME orderly' PROVE OrderInv'
  <2>1. OrderInv /\ (\A g \in EventHandler : handler[g].step # "received") /\ NothingBefore(position + 1)
    BY <1>1, <1>7 DEF EventsInv, OrderInv, Events!Storing
  <2>2. InOrder' /\ backfill' = Events!Off
    BY <1>1, <1>5, <2>1, InOrderKept DEF OrderInv
  <2>3. /\ cursor' < e /\ (rows' # <<>> => \A x \in Events!Stored \ missed : ~(cursor' < x /\ x < e))
    BY <1>1, <2>1 DEF NothingBefore
  <2>4. CASE e \in EventUntyped
    <3>1. \A g \in EventHandler : handler'[g].step # "received"
      BY <1>4, <2>1, <2>4
    <3>2. e \notin Events!Stored /\ Events!Stored \subseteq Nat
      BY <2>4, EventNumbers DEF Events!Stored
    <3>3. cursor' < e + 1 /\ (rows' # <<>> => \A x \in Events!Stored \ missed : ~(cursor' < x /\ x < e + 1))
      BY <1>1, <1>2, <2>3, <3>2
    <3>4. NothingBefore(position + 1)'
      BY <1>1, <3>3 DEF NothingBefore, Events!Stored, Events!Event
    <3>5. QED
      BY <2>2, <3>1, <3>4 DEF OrderInv
  <2>5. CASE e \notin EventUntyped
    <3>1. handler'[h].step = "received" /\ handler'[h].event = e /\ Events!Storing'
      BY <1>4, <2>5 DEF Events!Storing
    <3>2. \A g \in EventHandler : handler'[g].step = "received" => g = h
      BY <1>4, <2>1
    <3>3. NothingBefore(handler[h].event)' /\ e <= emitted'
      BY <1>1, <1>2, <2>3, <3>1, EventTypes, SMTT(60) DEF NothingBefore, Events!Stored, Events!Event
    <3>4. QED
      BY <1>1, <2>2, <3>1, <3>2, <3>3 DEF OrderInv
  <2>6. QED
    BY <2>4, <2>5
<1>8. QED
  BY <1>1, <1>5, <1>6, <1>7, BackfillKept DEF EventsInv

\* The row of the event and the cursor: the one handler goes on with the new row.
LEMMA RecordKeeps ==
  ASSUME Events!EventStreamAssumption, EventsInv, NEW h \in EventHandler, Events!Record(h) PROVE EventsInv'
<1> DEFINE e == handler[h].event
           n == Len(rows) + 1
<1>1. /\ Events!TypeOK /\ BackfillInv /\ EventHandlersInv
      /\ UNCHANGED <<resumes, missed, emitted, stream, position, pass, backfill, faults, orderly>>
      /\ handler[h].step = "received" /\ e \in Events!Stored /\ Len(rows) < EventRows
      /\ rows' = Append(rows, Events!Row(e)) /\ cursor' = e
      /\ handler' = [handler EXCEPT ![h].step = "stored", ![h].row = n]
  BY DEF EventsInv, Events!Record
<1>2. /\ Len(rows) \in Nat /\ e \in Nat /\ e > 0 /\ e <= EventCount /\ cursor \in Nat
      /\ EventRows \in Nat /\ EventCount \in Nat
      /\ \A i \in 1..Len(rows) : rows[i].event \in Events!Stored /\ rows[i].event \in Nat
  BY <1>1, EventTypes, EventNumbers, SMTT(60)
<1>3. /\ rows' \in Seq(Events!Rows) /\ Len(rows') = n /\ Len(rows') <= EventRows
      /\ \A j \in 1..Len(rows) : rows'[j] = rows[j]
      /\ rows'[n].event = e /\ rows'[n].status = "pending" /\ rows'[n].retry_count = 0
      /\ 1..Len(rows') = (1..Len(rows)) \cup {n}
  BY <1>1, RowAppended
<1>4. /\ handler' \in [EventHandler -> HandlerRecords]
      /\ handler'[h].step = "stored" /\ handler'[h].row = n
      /\ \A g \in EventHandler : g # h => handler'[g] = handler[g]
  <2> DEFINE v == [handler[h] EXCEPT !.step = "stored", !.row = n]
  <2>1. handler[h] \in HandlerRecords /\ n \in 0..EventRows
    BY <1>1, <1>2, EventTypes
  <2>2. v \in HandlerRecords /\ v.step = "stored" /\ v.row = n
    BY <2>1 DEF HandlerRecords
  <2>3. handler' = [handler EXCEPT ![h] = v]
    BY <1>1, <2>1
  <2> HIDE DEF v
  <2>4. QED
    BY <1>1, <2>2, <2>3, HandlerSet
<1>5. Events!TypeOK'
  <2>1. pass' \in [EventPass -> SUBSET (1..Len(rows'))]
    BY <1>1, <1>3 DEF Events!TypeOK
  <2>2. QED
    BY <1>1, <1>2, <1>3, <1>4, <2>1 DEF Events!TypeOK, HandlerRecords, Events!Rows,
       Events!Stored, Events!Event
<1>6. EventHandlersInv'
  <2>1. ASSUME NEW g \in EventHandler, handler'[g].step \in {"stored", "failing"}
        PROVE  handler'[g].row \in 1..Len(rows') /\ (g # h => handler'[g].row # n)
    <3>1. CASE g = h
      BY <1>2, <1>3, <1>4, <3>1
    <3>2. CASE g # h
      <4>1. handler'[g].row \in 1..Len(rows)
        BY <1>1, <1>4, <2>1, <3>2 DEF EventHandlersInv
      <4>2. QED
        BY <1>2, <1>3, <4>1
    <3>3. QED
      BY <3>1, <3>2
  <2>2. ASSUME NEW f \in EventHandler, NEW g \in EventHandler,
               handler'[f].step \in {"stored", "failing"}, handler'[g].step \in {"stored", "failing"},
               handler'[f].row = handler'[g].row
        PROVE  f = g
    <3>1. CASE f = h \/ g = h
      BY <1>4, <2>1, <2>2, <3>1
    <3>2. CASE f # h /\ g # h
      BY <1>1, <1>4, <2>2, <3>2 DEF EventHandlersInv
    <3>3. QED
      BY <3>1, <3>2
  <2>3. QED
    BY <2>1, <2>2 DEF EventHandlersInv
<1>7. ASSUME NEW i \in 1..Len(rows') PROVE EventRowInv(i)'
  <2>1. CASE i = n
    <3>1. PassesAt(i)' = {}
      <4>1. \A p \in EventPass : i \notin pass'[p]
        BY <1>1, <1>2, <2>1, EventTypes
      <4>2. QED
        BY <4>1 DEF PassesAt
    <3>2. Events!Cardinality(PassesAt(i)') = 0
      BY <3>1, FS_EmptySet, EventsSizes
    <3>3. rows'[i].retry_count = 0 /\ rows'[i].status = "pending"
      BY <1>3, <2>1
    <3>4. rows'[i].retry_count + HandlerAt(i)' + Events!Cardinality(PassesAt(i)')
            <= EventRetries + Events!Cardinality(EventPass)
      BY <3>2, <3>3, HandlerAtType, EventNumbers
    <3>5. QED
      BY <3>3, <3>4 DEF EventRowInv
  <2>2. CASE i # n
    <3>1. i \in 1..Len(rows) /\ EventRowInv(i) /\ rows'[i] = rows[i]
      BY <1>3, <2>2 DEF EventsInv
    <3>2. HandlerAt(i)' <= HandlerAt(i)
      <4>1. ASSUME NEW g \in EventHandler, handler'[g].step \in {"stored", "failing"}, handler'[g].row = i
            PROVE  handler[g].step \in {"stored", "failing"} /\ handler[g].row = i
        BY <1>4, <2>2, <4>1
      <4>2. HandlerAt(i) = 1 \/ HandlerAt(i)' = 0
        BY <4>1 DEF HandlerAt
      <4>3. QED
        BY <4>2, HandlerAtType
    <3>3. \A p \in EventPass : i \in pass'[p] => i \in pass[p]
      BY <1>1
    <3>4. QED
      BY <1>1, <3>1, <3>2, <3>3, EventRowKept
  <2>3. QED
    BY <2>1, <2>2
<1>8. ASSUME orderly' PROVE OrderInv'
  <2>1. OrderInv
    BY <1>1, <1>8 DEF EventsInv
  <2>2. (\A g \in EventHandler : handler'[g].step # "received") /\ backfill' = Events!Off
    BY <1>1, <1>4, <2>1 DEF OrderInv
  <2>3. cursor < e /\ (rows # <<>> => \A x \in Events!Stored \ missed : ~(cursor < x /\ x < e))
        /\ (stream = "up" => position = e)
    BY <1>1, <2>1 DEF OrderInv, NothingBefore
  <2>4. stream' = "up" => NothingBefore(position + 1)'
    <3>1. ASSUME stream' = "up"
          PROVE  cursor' < e + 1 /\ \A x \in Events!Stored \ missed : ~(cursor' < x /\ x < e + 1)
      BY <1>1, <1>2, EventNumbers, SMTT(60)
    <3>2. QED
      BY <1>1, <2>3, <3>1 DEF NothingBefore, Events!Stored, Events!Event
  <2>5. \A i \in 1..Len(rows) : rows[i].event <= cursor
    <3>1. ASSUME NEW i \in 1..Len(rows) PROVE rows[i].event <= cursor
      <4>1. rows # <<>> /\ Len(rows) \in 1..Len(rows)
        BY <1>1, <1>2, EventTypes
      <4>2. /\ rows[Len(rows)].event = cursor
            /\ i < Len(rows) => rows[i].event < rows[Len(rows)].event
        BY <2>1, <4>1 DEF OrderInv, InOrder
      <4>3. CASE i = Len(rows)
        BY <1>2, <4>2, <4>3
      <4>4. CASE i < Len(rows)
        BY <1>2, <4>2, <4>4
      <4>5. QED
        BY <1>2, <4>3, <4>4
    <3>2. QED
      BY <3>1
  <2>6. rows' # <<>> /\ n \in 1..Len(rows')
    BY <1>2, <1>3
  <2>7. ASSUME NEW i \in 1..Len(rows'), NEW j \in 1..Len(rows'), i < j
        PROVE  rows'[i].event < rows'[j].event
    <3>1. i \in 1..Len(rows) /\ rows'[i].event = rows[i].event
      BY <1>2, <1>3, <2>7
    <3>2. CASE j = n
      BY <1>2, <1>3, <2>3, <2>5, <3>1, <3>2
    <3>3. CASE j # n
      <4>1. j \in 1..Len(rows) /\ rows'[j].event = rows[j].event /\ rows # <<>>
        BY <1>1, <1>2, <1>3, <3>1, <3>3, EventTypes
      <4>2. QED
        BY <2>1, <2>7, <3>1, <4>1 DEF OrderInv, InOrder
    <3>4. QED
      BY <3>2, <3>3
  <2>8. ASSUME NEW x \in Events!Stored \ missed, rows'[1].event <= x, x <= e
        PROVE  \E i \in 1..Len(rows') : rows'[i].event = x
    <3>1. x \in Nat
      BY EventNumbers
    <3>2. CASE x = e
      BY <1>3, <2>6, <3>2
    <3>3. CASE x # e
      <4>1. rows # <<>>
        BY <1>2, <1>3, <2>8, <3>1, <3>3, EventTypes, <1>1
      <4>2. x <= cursor /\ rows[1].event <= x
        BY <1>1, <1>2, <1>3, <2>3, <2>8, <3>1, <3>3, <4>1, EventTypes, SMTT(60)
      <4>3. PICK i \in 1..Len(rows) : rows[i].event = x
        BY <2>1, <4>1, <4>2 DEF OrderInv, InOrder
      <4>4. QED
        BY <1>3, <4>3
    <3>4. QED
      BY <3>2, <3>3
  <2>9. InOrder'
    <3>1. cursor' <= emitted'
      BY <1>1, <2>1 DEF OrderInv
    <3>2. QED
      BY <1>1, <1>3, <2>6, <2>7, <2>8, <3>1 DEF InOrder, Events!Stored, Events!Event
  <2>10. QED
    BY <2>2, <2>4, <2>9 DEF OrderInv
<1>9. QED
  BY <1>1, <1>5, <1>6, <1>7, <1>8, BackfillAppended DEF EventsInv

LEMMA RecordFailsKeeps ==
  ASSUME Events!EventStreamAssumption, EventsInv, NEW h \in EventHandler, Events!RecordFails(h) PROVE EventsInv'
<1> DEFINE e == handler[h].event
<1>1. /\ Events!TypeOK /\ BackfillInv /\ handler[h].step = "received"
      /\ handler' = [handler EXCEPT ![h] = Events!Idle]
      /\ UNCHANGED <<resumes, missed, emitted, stream, position, rows, cursor, pass, backfill>>
      /\ \/ e \in EventRefused /\ UNCHANGED <<faults, orderly>>
         \/ Events!Fault
  BY DEF EventsInv, Events!RecordFails
<1>2. /\ handler' \in [EventHandler -> HandlerRecords] /\ handler'[h].step = "idle"
      /\ \A g \in EventHandler : g # h => handler'[g] = handler[g]
  BY <1>1, HandlerIdle
<1>3. faults' \in 0..EventFaults /\ orderly' \in BOOLEAN /\ (orderly' => orderly /\ e \in EventRefused)
  <2>1. CASE e \in EventRefused /\ UNCHANGED <<faults, orderly>>
    BY <1>1, <2>1 DEF Events!TypeOK
  <2>2. CASE Events!Fault
    BY <1>1, <2>2, FaultCounts
  <2>3. QED
    BY <1>1, <2>1, <2>2
<1>4. Events!TypeOK' /\ SameEvents
  <2>1. UNCHANGED <<resumes, missed, emitted, stream, position, rows, cursor, pass, backfill>>
    BY <1>1
  <2>2. handler' \in [EventHandler -> HandlerRecords]
    BY <1>2
  <2>3. QED
    BY <1>1, <1>3, <2>1, <2>2 DEF Events!TypeOK, SameEvents, HandlerRecords
<1>5. EventHandlersInv' /\ \A i \in 1..Len(rows') : EventRowInv(i)'
  <2>1. \A g \in EventHandler : handler'[g].step \in {"stored", "failing"} =>
           handler[g].step \in {"stored", "failing"} /\ handler'[g].row = handler[g].row
    BY <1>2
  <2>2. QED
    BY <1>1, <2>1, RowsAlone
<1>6. ASSUME orderly' PROVE OrderInv'
  <2>1. OrderInv /\ e \in EventRefused
    BY <1>3, <1>6 DEF EventsInv
  <2>2. (\A g \in EventHandler : handler'[g].step # "received") /\ backfill' = Events!Off
    BY <1>1, <1>2, <2>1 DEF OrderInv
  <2>3. InOrder'
    BY <1>1, <1>4, <2>1, InOrderKept DEF OrderInv
  <2>4. cursor < e /\ (rows # <<>> => \A x \in Events!Stored \ missed : ~(cursor < x /\ x < e))
        /\ (stream = "up" => position = e)
    BY <1>1, <2>1 DEF OrderInv, NothingBefore
  <2>5. e \notin Events!Stored /\ e \in Nat /\ cursor \in Nat /\ Events!Stored \subseteq Nat
    BY <1>1, <2>1, EventTypes, EventNumbers, SMTT(60) DEF Events!Stored, HandlerRecords
  <2>6. cursor < e + 1 /\ (rows # <<>> => \A x \in Events!Stored \ missed : ~(cursor < x /\ x < e + 1))
    BY <2>4, <2>5
  <2>7. stream' = "up" => NothingBefore(position + 1)'
    BY <1>1, <2>4, <2>6 DEF NothingBefore, Events!Stored, Events!Event
  <2>8. QED
    BY <2>2, <2>3, <2>7 DEF OrderInv
<1>7. QED
  BY <1>1, <1>4, <1>5, <1>6, BackfillKept DEF EventsInv

\* A handler lets go of its row, which keeps its event.
LEMMA MarkProcessedKeeps ==
  ASSUME Events!EventStreamAssumption, EventsInv, NEW h \in EventHandler, Events!MarkProcessed(h) PROVE EventsInv'
<1> DEFINE i == handler[h].row
<1>1. /\ Events!TypeOK /\ BackfillInv /\ EventHandlersInv /\ handler[h].step = "stored"
      /\ handler' = [handler EXCEPT ![h] = Events!Idle] /\ rows' = Events!Processed(i)
      /\ UNCHANGED <<resumes, missed, emitted, stream, position, cursor, pass, backfill, faults, orderly>>
  BY DEF EventsInv, Events!MarkProcessed
<1>2. /\ handler' \in [EventHandler -> HandlerRecords] /\ handler'[h].step = "idle"
      /\ \A g \in EventHandler : g # h => handler'[g] = handler[g]
  BY <1>1, HandlerIdle
<1>3. i \in 1..Len(rows)
  BY <1>1 DEF EventHandlersInv
<1>4. /\ rows' \in Seq(Events!Rows) /\ Len(rows') = Len(rows) /\ Len(rows) \in Nat
      /\ \A j \in 1..Len(rows) : /\ rows'[j].event = rows[j].event
                                 /\ rows'[j].retry_count = rows[j].retry_count
                                 /\ rows'[j].status = rows[j].status \/ rows'[j].status = "processed"
  BY <1>1, <1>3, RowProcessed, EventTypes
<1>5. Events!TypeOK' /\ SameEvents
  BY <1>1, <1>2, <1>4 DEF Events!TypeOK, SameEvents, HandlerRecords, Events!Rows, Events!Stored,
     Events!Event
<1>6. EventHandlersInv' /\ \A j \in Nat : HandlerAt(j)' <= HandlerAt(j)
  BY <1>1, <1>2, <1>4, HandlersLess
<1>7. ASSUME NEW j \in 1..Len(rows') PROVE EventRowInv(j)'
  <2>1. j \in 1..Len(rows) /\ j \in Nat /\ EventRowInv(j) /\ HandlerAt(j)' <= HandlerAt(j)
        /\ \A p \in EventPass : j \in pass'[p] => j \in pass[p]
    BY <1>1, <1>4, <1>6 DEF EventsInv
  <2>2. QED
    BY <1>1, <1>4, <2>1, EventRowKept
<1>8. ASSUME orderly' PROVE OrderInv'
  <2>1. OrderInv
    BY <1>1, <1>8 DEF EventsInv
  <2>2. /\ \A g \in EventHandler : handler'[g].step = "received" =>
             handler[g].step = "received" /\ handler'[g].event = handler[g].event
        /\ Events!Storing => Events!Storing'
    BY <1>1, <1>2 DEF Events!Storing
  <2>3. QED
    BY <1>1, <1>5, <2>1, <2>2, OrderKept
<1>9. QED
  BY <1>1, <1>5, <1>6, <1>7, <1>8, BackfillKept DEF EventsInv

LEMMA MarkingFailsKeeps ==
  ASSUME Events!EventStreamAssumption, EventsInv, NEW h \in EventHandler, Events!MarkingFails(h) PROVE EventsInv'
<1>1. /\ Events!TypeOK /\ BackfillInv /\ handler[h].step = "stored" /\ Events!Fault
      /\ handler' = [handler EXCEPT ![h].step = "failing"]
      /\ UNCHANGED <<resumes, missed, emitted, stream, position, rows, cursor, pass, backfill>>
  BY DEF EventsInv, Events!MarkingFails
<1>2. /\ handler' \in [EventHandler -> HandlerRecords]
      /\ handler'[h].step = "failing" /\ handler'[h].row = handler[h].row
      /\ \A g \in EventHandler : g # h => handler'[g] = handler[g]
  <2> DEFINE v == [handler[h] EXCEPT !.step = "failing"]
  <2>1. handler[h] \in HandlerRecords
    BY <1>1, EventTypes
  <2>2. v \in HandlerRecords /\ v.step = "failing" /\ v.row = handler[h].row
    BY <2>1 DEF HandlerRecords
  <2>3. handler' = [handler EXCEPT ![h] = v]
    BY <1>1, <2>1
  <2> HIDE DEF v
  <2>4. QED
    BY <1>1, <2>2, <2>3, HandlerSet
<1>3. faults' \in 0..EventFaults /\ orderly' = FALSE
  BY <1>1, FaultCounts
<1>4. Events!TypeOK' /\ SameEvents
  BY <1>1, <1>2, <1>3 DEF Events!TypeOK, SameEvents, HandlerRecords
<1>5. EventHandlersInv' /\ \A i \in 1..Len(rows') : EventRowInv(i)'
  <2>1. \A g \in EventHandler : handler'[g].step \in {"stored", "failing"} =>
           handler[g].step \in {"stored", "failing"} /\ handler'[g].row = handler[g].row
    BY <1>1, <1>2
  <2>2. QED
    BY <1>1, <2>1, RowsAlone
<1>6. QED
  BY <1>1, <1>3, <1>4, <1>5, BackfillKept DEF EventsInv

\* The row of a handler that could not mark it: one more failure, one holder less.
LEMMA MarkFailedKeeps ==
  ASSUME Events!EventStreamAssumption, EventsInv, NEW h \in EventHandler, Events!MarkFailed(h) PROVE EventsInv'
<1> DEFINE i == handler[h].row
<1>1. /\ Events!TypeOK /\ BackfillInv /\ EventHandlersInv /\ handler[h].step = "failing"
      /\ handler' = [handler EXCEPT ![h] = Events!Idle]
      /\ UNCHANGED <<resumes, missed, emitted, stream, position, cursor, pass, backfill>>
      /\ \/ rows' = Events!Failed(i) /\ UNCHANGED <<faults, orderly>>
         \/ Events!Fault /\ UNCHANGED rows
  <2>1. \/ rows' = Events!Failed(i) /\ UNCHANGED <<faults, orderly>>
        \/ Events!Fault /\ UNCHANGED rows
    BY Zenon DEF Events!MarkFailed
  <2>2. QED
    BY <2>1 DEF EventsInv, Events!MarkFailed
<1>2. /\ handler' \in [EventHandler -> HandlerRecords] /\ handler'[h].step = "idle"
      /\ \A g \in EventHandler : g # h => handler'[g] = handler[g]
  BY <1>1, HandlerIdle
<1>3. /\ i \in 1..Len(rows) /\ EventRowInv(i) /\ rows[i].retry_count \in Nat /\ Len(rows) \in Nat
      /\ EventRetries \in Nat /\ Events!Cardinality(EventPass) \in Nat /\ Events!Cardinality(PassesAt(i)) \in Nat
      /\ HandlerAt(i) = 1
  <2>1. i \in 1..Len(rows)
    BY <1>1 DEF EventHandlersInv
  <2>2. Events!Cardinality(PassesAt(i)) \in Nat
    BY PassesCounted DEF PassesAt
  <2>3. QED
    BY <1>1, <2>1, <2>2, EventTypes, EventNumbers DEF EventsInv, HandlerAt
<1>4. CASE Events!Fault /\ UNCHANGED rows
  <2>1. faults' \in 0..EventFaults /\ orderly' = FALSE
    BY <1>1, <1>4, FaultCounts
  <2>2. Events!TypeOK' /\ SameEvents
    BY <1>1, <1>2, <1>4, <2>1 DEF Events!TypeOK, SameEvents, HandlerRecords
  <2>3. EventHandlersInv' /\ \A j \in 1..Len(rows') : EventRowInv(j)'
    <3>1. \A g \in EventHandler : handler'[g].step \in {"stored", "failing"} =>
             handler[g].step \in {"stored", "failing"} /\ handler'[g].row = handler[g].row
      BY <1>1, <1>2
    <3>2. QED
      BY <1>1, <1>4, <3>1, RowsAlone
  <2>4. QED
    BY <1>1, <2>1, <2>2, <2>3, BackfillKept DEF EventsInv
<1>5. CASE rows' = Events!Failed(i) /\ UNCHANGED <<faults, orderly>>
  <2>1. rows[i].retry_count + 1 + Events!Cardinality(PassesAt(i)) <= EventRetries + Events!Cardinality(EventPass)
    BY <1>3 DEF EventRowInv
  <2>2. rows[i].retry_count + 1 <= EventRetries + Events!Cardinality(EventPass)
    BY <1>3, <2>1, SMTT(60)
  <2>3. /\ rows' \in Seq(Events!Rows) /\ Len(rows') = Len(rows)
        /\ \A j \in 1..Len(rows) : rows'[j].event = rows[j].event /\ (j # i => rows'[j] = rows[j])
        /\ rows'[i].status = "failed" /\ rows'[i].retry_count = rows[i].retry_count + 1
    BY <1>1, <1>3, <1>5, <2>2, RowFailed
  <2>4. Events!TypeOK' /\ SameEvents
    BY <1>1, <1>2, <1>5, <2>3 DEF Events!TypeOK, SameEvents, HandlerRecords, Events!Rows,
       Events!Stored, Events!Event
  <2>5. EventHandlersInv' /\ \A j \in Nat : HandlerAt(j)' <= HandlerAt(j)
    BY <1>1, <1>2, <1>3, <2>3, HandlersLess
  <2>6. ASSUME NEW j \in 1..Len(rows') PROVE EventRowInv(j)'
    <3>1. CASE j = i
      <4>1. HandlerAt(j)' = 0
        BY <1>1, <1>2, <3>1 DEF EventHandlersInv, HandlerAt
      <4>2. PassesAt(j)' = PassesAt(j)
        BY <1>1 DEF PassesAt
      <4>3. rows'[j].retry_count + HandlerAt(j)' + Events!Cardinality(PassesAt(j)')
              <= EventRetries + Events!Cardinality(EventPass)
        BY <1>3, <2>1, <2>3, <3>1, <4>1, <4>2, SMTT(60)
      <4>4. QED
        BY <2>3, <3>1, <4>3 DEF EventRowInv
    <3>2. CASE j # i
      <4>1. j \in 1..Len(rows) /\ j \in Nat /\ EventRowInv(j) /\ HandlerAt(j)' <= HandlerAt(j)
            /\ (\A p \in EventPass : j \in pass'[p] => j \in pass[p]) /\ rows'[j] = rows[j]
        BY <1>1, <2>3, <2>5, <3>2 DEF EventsInv
      <4>2. QED
        BY <1>1, <4>1, EventRowKept
    <3>3. QED
      BY <3>1, <3>2
  <2>7. ASSUME orderly' PROVE OrderInv'
    <3>1. OrderInv
      BY <1>5, <2>7 DEF EventsInv
    <3>2. /\ \A g \in EventHandler : handler'[g].step = "received" =>
               handler[g].step = "received" /\ handler'[g].event = handler[g].event
          /\ Events!Storing => Events!Storing'
      BY <1>1, <1>2 DEF Events!Storing
    <3>3. QED
      BY <1>1, <2>4, <3>1, <3>2, OrderKept
  <2>8. QED
    BY <1>1, <2>4, <2>5, <2>6, <2>7, BackfillKept DEF EventsInv
<1>6. QED
  BY <1>1, <1>4, <1>5

LEMMA StartPassKeeps ==
  ASSUME Events!EventStreamAssumption, EventsInv, NEW q \in EventPass, Events!StartPass(q) PROVE EventsInv'
<1>1. /\ Events!TypeOK /\ BackfillInv /\ EventHandlersInv /\ pass' = [pass EXCEPT ![q] = Events!DueRows]
      /\ UNCHANGED <<resumes, missed, emitted, stream, position, handler, rows, cursor, backfill, faults, orderly>>
  BY DEF EventsInv, Events!StartPass
<1>2. Events!DueRows \subseteq 1..Len(rows) /\ \A i \in Events!DueRows : Events!Due(rows[i])
  BY DEF Events!DueRows
<1>3. /\ pass' \in [EventPass -> SUBSET (1..Len(rows))] /\ pass'[q] = Events!DueRows
      /\ \A p \in EventPass : p # q => pass'[p] = pass[p]
  BY <1>1, <1>2 DEF Events!TypeOK
<1>4. Events!TypeOK' /\ SameEvents
  BY <1>1, <1>3 DEF Events!TypeOK, SameEvents, Events!Rows, Events!Stored, Events!Event
<1>5. EventHandlersInv' /\ \A i \in Nat : HandlerAt(i)' <= HandlerAt(i)
  BY <1>1, EventTypes, HandlersLess
<1>6. ASSUME NEW i \in 1..Len(rows') PROVE EventRowInv(i)'
  <2>1. i \in 1..Len(rows) /\ i \in Nat /\ EventRowInv(i) /\ HandlerAt(i)' <= HandlerAt(i)
        /\ rows' = rows
    BY <1>1, <1>5 DEF EventsInv
  <2>2. CASE i \notin Events!DueRows
    <3>1. \A p \in EventPass : i \in pass'[p] => i \in pass[p]
      BY <1>3, <2>2
    <3>2. QED
      BY <1>1, <2>1, <3>1, EventRowKept
  <2>3. CASE i \in Events!DueRows
    <3>1. /\ rows[i].retry_count \in Nat /\ EventRetries \in Nat /\ EventRetries > 0
          /\ Events!Cardinality(EventPass) \in Nat
      BY <1>1, <2>1, EventTypes, EventNumbers
    <3>2. rows[i].retry_count + 1 <= EventRetries
      BY <1>2, <2>1, <2>3, <3>1 DEF Events!Due, EventRowInv
    <3>3. Events!Cardinality(PassesAt(i)') \in Nat /\ Events!Cardinality(PassesAt(i)') <= Events!Cardinality(EventPass)
      <4>1. PassesAt(i)' \subseteq EventPass
        BY DEF PassesAt
      <4>2. QED
        BY <4>1, PassesCounted
    <3>4. rows'[i].retry_count + HandlerAt(i)' + Events!Cardinality(PassesAt(i)')
            <= EventRetries + Events!Cardinality(EventPass)
      BY <2>1, <3>1, <3>2, <3>3, HandlerAtType
    <3>5. QED
      BY <2>1, <3>4 DEF EventRowInv
  <2>4. QED
    BY <2>2, <2>3
<1>7. ASSUME orderly' PROVE OrderInv'
  <2>1. OrderInv /\ (Events!Storing => Events!Storing')
    BY <1>1, <1>7 DEF EventsInv, Events!Storing
  <2>2. QED
    BY <1>1, <1>4, <2>1, OrderKept
<1>8. QED
  BY <1>1, <1>4, <1>5, <1>6, <1>7, BackfillKept DEF EventsInv

\* A pass marks a row: one more failure at most, one holder less.
LEMMA RetryKeeps ==
  ASSUME Events!EventStreamAssumption, EventsInv, NEW q \in EventPass, Events!Retry(q) PROVE EventsInv'
<1>1. /\ Events!TypeOK /\ BackfillInv /\ EventHandlersInv /\ Len(rows) \in Nat
      /\ UNCHANGED <<resumes, missed, emitted, stream, position, handler, cursor, backfill>>
  BY EventTypes DEF EventsInv, Events!Retry
<1>2. PICK i \in pass[q] :
        \/ rows' = Events!Processed(i) /\ pass' = [pass EXCEPT ![q] = @ \ {i}] /\ UNCHANGED <<faults, orderly>>
        \/ Events!Fault /\ rows' = Events!Failed(i) /\ pass' = [pass EXCEPT ![q] = @ \ {i}]
        \/ Events!Fault /\ rows' = rows /\ pass' = [pass EXCEPT ![q] = {}]
  BY Zenon DEF Events!Retry
<1>3. /\ i \in 1..Len(rows) /\ EventRowInv(i) /\ rows[i].retry_count \in Nat
      /\ EventRetries \in Nat /\ Events!Cardinality(EventPass) \in Nat
      /\ Events!Cardinality(PassesAt(i)) \in Nat /\ q \in PassesAt(i)
      /\ Events!Cardinality(PassesAt(i) \ {q}) \in Nat
      /\ Events!Cardinality(PassesAt(i)) = Events!Cardinality(PassesAt(i) \ {q}) + 1
  <2>1. i \in 1..Len(rows)
    BY <1>1, EventTypes
  <2>2. PassesAt(i) \subseteq EventPass /\ q \in PassesAt(i) /\ PassesAt(i) \ {q} \subseteq EventPass
    BY DEF PassesAt
  <2>3. QED
    BY <1>1, <2>1, <2>2, PassesCounted, EventTypes, EventNumbers DEF EventsInv
<1>4. rows[i].retry_count + 1 <= EventRetries + Events!Cardinality(EventPass)
  <2>1. rows[i].retry_count + HandlerAt(i) + Events!Cardinality(PassesAt(i))
          <= EventRetries + Events!Cardinality(EventPass)
    BY <1>3 DEF EventRowInv
  <2>2. QED
    BY <1>3, <2>1, HandlerAtType, SMTT(60)
<1>5. /\ rows' \in Seq(Events!Rows) /\ Len(rows') = Len(rows)
      /\ \A j \in 1..Len(rows) : rows'[j].event = rows[j].event
      /\ \A j \in 1..Len(rows) :
           \/ /\ rows'[j].retry_count = rows[j].retry_count
              /\ rows'[j].status = rows[j].status \/ rows'[j].status = "processed"
           \/ /\ j = i /\ rows'[j].status = "failed" /\ rows'[j].retry_count = rows[j].retry_count + 1
              /\ pass' = [pass EXCEPT ![q] = @ \ {i}]
  <2>1. CASE rows' = Events!Processed(i)
    BY <1>1, <1>3, <2>1, RowProcessed
  <2>2. CASE rows' = Events!Failed(i) /\ pass' = [pass EXCEPT ![q] = @ \ {i}]
    BY <1>1, <1>3, <1>4, <2>2, RowFailed
  <2>3. CASE rows' = rows
    BY <1>1, <2>3 DEF Events!TypeOK
  <2>4. QED
    BY <1>2, <2>1, <2>2, <2>3
<1>6. /\ pass' \in [EventPass -> SUBSET (1..Len(rows))] /\ i \notin pass'[q]
      /\ \A p \in EventPass : pass'[p] \subseteq pass[p] /\ (p # q => pass'[p] = pass[p])
  <2>1. CASE pass' = [pass EXCEPT ![q] = @ \ {i}]
    BY <1>1, <2>1 DEF Events!TypeOK
  <2>2. CASE pass' = [pass EXCEPT ![q] = {}]
    BY <1>1, <2>2 DEF Events!TypeOK
  <2>3. QED
    BY <1>2, <2>1, <2>2
<1>7. faults' \in 0..EventFaults /\ orderly' \in BOOLEAN /\ (orderly' => orderly)
  <2>1. CASE UNCHANGED <<faults, orderly>>
    BY <1>1, <2>1 DEF Events!TypeOK
  <2>2. CASE Events!Fault
    BY <1>1, <2>2, FaultCounts
  <2>3. QED
    BY <1>2, <2>1, <2>2
<1>8. Events!TypeOK' /\ SameEvents
  BY <1>1, <1>5, <1>6, <1>7 DEF Events!TypeOK, SameEvents, Events!Rows, Events!Stored,
     Events!Event
<1>9. EventHandlersInv' /\ \A j \in Nat : HandlerAt(j)' <= HandlerAt(j)
  BY <1>1, <1>5, HandlersLess
<1>10. ASSUME NEW j \in 1..Len(rows') PROVE EventRowInv(j)'
  <2>1. /\ j \in 1..Len(rows) /\ j \in Nat /\ EventRowInv(j) /\ HandlerAt(j)' <= HandlerAt(j)
        /\ \A p \in EventPass : j \in pass'[p] => j \in pass[p]
    BY <1>1, <1>5, <1>6, <1>9 DEF EventsInv
  <2>2. CASE rows'[j].retry_count = rows[j].retry_count
             /\ (rows'[j].status = rows[j].status \/ rows'[j].status = "processed")
    BY <1>1, <2>1, <2>2, EventRowKept
  <2>3. CASE j = i /\ rows'[j].status = "failed" /\ rows'[j].retry_count = rows[j].retry_count + 1
             /\ pass' = [pass EXCEPT ![q] = @ \ {i}]
    <3>1. PassesAt(j)' = PassesAt(j) \ {q}
      BY <1>6, <2>3 DEF PassesAt
    <3>2. rows[j].retry_count + HandlerAt(j) + Events!Cardinality(PassesAt(j))
            <= EventRetries + Events!Cardinality(EventPass)
      BY <2>1 DEF EventRowInv
    <3>3. Events!Cardinality(PassesAt(j)) = Events!Cardinality(PassesAt(j)') + 1 /\ Events!Cardinality(PassesAt(j)') \in Nat
      BY <1>3, <2>3, <3>1
    <3>4. rows'[j].retry_count + HandlerAt(j)' + Events!Cardinality(PassesAt(j)')
            <= EventRetries + Events!Cardinality(EventPass)
      BY <1>3, <2>1, <2>3, <3>2, <3>3, HandlerAtType, SMTT(60)
    <3>5. QED
      BY <2>3, <3>4 DEF EventRowInv
  <2>4. QED
    BY <1>5, <2>1, <2>2, <2>3
<1>11. ASSUME orderly' PROVE OrderInv'
  <2>1. OrderInv /\ (Events!Storing => Events!Storing')
    BY <1>1, <1>7, <1>11 DEF EventsInv, Events!Storing
  <2>2. QED
    BY <1>1, <1>8, <2>1, OrderKept
<1>12. QED
  BY <1>1, <1>8, <1>9, <1>10, <1>11, BackfillKept DEF EventsInv

\* A page lies within what is emitted.
BackfillPages == [step : {"off", "page", "stored"}, next : 0..(EventCount + 1), last : 0..EventCount,
          full : BOOLEAN]

LEMMA PageFits ==
  ASSUME Events!EventStreamAssumption, Events!TypeOK, NEW n \in 0..emitted
  PROVE  /\ Events!PageAfter(n) \in BackfillPages /\ Events!PageAfter(n).step = "page"
         /\ Events!PageAfter(n).next <= Events!PageAfter(n).last + 1
<1> DEFINE last == IF n + EventPage <= emitted THEN n + EventPage ELSE emitted
<1>1. n \in Nat /\ emitted \in Nat /\ n <= emitted /\ emitted <= EventCount
      /\ EventPage \in Nat /\ EventPage > 0 /\ EventCount \in Nat
  BY EventNumbers, EventTypes DEF Events!TypeOK
<1>2. last \in 0..EventCount /\ n + 1 <= last + 1 /\ n + 1 \in 0..(EventCount + 1)
  BY <1>1
<1>3. Events!PageAfter(n) = [step |-> "page", next |-> n + 1, last |-> last, full |-> n + EventPage <= emitted]
  BY Zenon DEF Events!PageAfter
<1>4. (n + EventPage <= emitted) \in BOOLEAN
  OBVIOUS
<1> HIDE DEF last
<1>5. QED
  BY <1>2, <1>3, <1>4 DEF BackfillPages

\* Steps of the backfill that leave the rows alone.
LEMMA BackfillMoves ==
  ASSUME Events!EventStreamAssumption, EventsInv,
         UNCHANGED <<resumes, missed, emitted, stream, position, handler, rows, pass>>,
         cursor' \in 0..EventCount, backfill' \in BackfillPages, BackfillInv',
         faults' \in 0..EventFaults, orderly' = FALSE
  PROVE  EventsInv'
<1>1. Events!TypeOK
  BY DEF EventsInv
<1>2. Events!TypeOK'
  BY <1>1 DEF Events!TypeOK, BackfillPages
<1>3. EventHandlersInv' /\ \A i \in 1..Len(rows') : EventRowInv(i)'
  BY RowsAlone
<1>4. QED
  BY <1>2, <1>3 DEF EventsInv

\* There is no backfill while the history is orderly.
LEMMA OrderlyOff ==
  ASSUME EventsInv, backfill.step # "off", orderly \in BOOLEAN
  PROVE  orderly = FALSE
BY DEF EventsInv, OrderInv, Events!Off

LEMMA StartBackfillKeeps ==
  ASSUME Events!EventStreamAssumption, EventsInv, Events!StartBackfill PROVE EventsInv'
<1>1. Events!TypeOK /\ emitted \in Nat
  BY EventTypes DEF EventsInv
<1>2. PICK from \in 0..(emitted - 1) : backfill' = Events!PageAfter(from)
  BY DEF Events!StartBackfill
<1>3. from \in 0..emitted
  BY <1>1
<1>4. backfill' \in BackfillPages /\ backfill'.step = "page" /\ backfill'.next <= backfill'.last + 1
  BY <1>1, <1>2, <1>3, PageFits
<1>5. BackfillInv'
  BY <1>4 DEF BackfillInv
<1>6. cursor' \in 0..EventCount /\ faults' \in 0..EventFaults /\ orderly' = FALSE
      /\ UNCHANGED <<resumes, missed, emitted, stream, position, handler, rows, pass>>
  BY <1>1 DEF Events!StartBackfill, Events!TypeOK
<1>7. QED
  BY <1>4, <1>5, <1>6, BackfillMoves

LEMMA BackfillSaveKeeps ==
  ASSUME Events!EventStreamAssumption, EventsInv, Events!BackfillSave PROVE EventsInv'
<1>1. Events!TypeOK /\ emitted \in Nat /\ backfill \in BackfillPages /\ backfill.step = "page" /\ orderly \in BOOLEAN
      /\ UNCHANGED <<resumes, missed, emitted, stream, position, handler, rows, pass, faults, orderly>>
      /\ cursor' = backfill.last
  BY EventTypes DEF EventsInv, Events!TypeOK, BackfillPages, Events!BackfillSave
<1>2. backfill.last \in 0..EventCount
  BY <1>1 DEF BackfillPages
<1>3. backfill' \in BackfillPages /\ backfill'.step # "stored" /\ backfill'.next <= backfill'.last + 1
  <2>1. CASE backfill.last < emitted /\ backfill' = Events!PageAfter(backfill.last)
    <3>1. backfill.last \in 0..emitted
      BY <1>1, <1>2, <2>1, EventNumbers
    <3>2. QED
      BY <1>1, <2>1, <3>1, PageFits
  <2>2. CASE backfill' = Events!Off
    BY <2>2, EventNumbers DEF Events!Off, BackfillPages
  <2>3. QED
    BY <2>1, <2>2 DEF Events!BackfillSave
<1>4. BackfillInv'
  BY <1>3 DEF BackfillInv
<1>5. orderly' = FALSE
  BY <1>1, OrderlyOff
<1>6. faults' \in 0..EventFaults
  BY <1>1 DEF Events!TypeOK
<1>7. QED
  BY <1>1, <1>2, <1>3, <1>4, <1>5, <1>6, BackfillMoves

LEMMA BackfillRecordKeeps ==
  ASSUME Events!EventStreamAssumption, EventsInv, Events!BackfillRecord PROVE EventsInv'
<1> DEFINE n == Len(rows) + 1
<1>1. /\ Events!TypeOK /\ BackfillInv /\ EventHandlersInv /\ backfill \in BackfillPages /\ backfill.step = "page"
      /\ backfill.next <= backfill.last /\ orderly \in BOOLEAN /\ Len(rows) \in Nat
      /\ UNCHANGED <<resumes, missed, emitted, stream, position, handler, cursor, pass>>
  BY EventTypes DEF EventsInv, Events!TypeOK, BackfillPages, Events!BackfillRecord
<1>2. /\ backfill.next \in Nat /\ backfill.last \in Nat /\ backfill.last <= EventCount
      /\ EventCount \in Nat /\ EventRows \in Nat /\ orderly = FALSE
  BY <1>1, EventNumbers, OrderlyOff DEF BackfillPages
<1>3. CASE /\ backfill.next \in Events!Stored /\ Len(rows) < EventRows
           /\ rows' = Append(rows, Events!Row(backfill.next))
           /\ backfill' = [backfill EXCEPT !.step = "stored"] /\ UNCHANGED <<faults, orderly>>
  <2>1. /\ rows' \in Seq(Events!Rows) /\ Len(rows') = n /\ Len(rows') <= EventRows
        /\ \A j \in 1..Len(rows) : rows'[j] = rows[j]
        /\ rows'[n].event = backfill.next /\ rows'[n].status = "pending" /\ rows'[n].retry_count = 0
        /\ 1..Len(rows') = (1..Len(rows)) \cup {n}
    BY <1>1, <1>3, RowAppended
  <2>2. backfill' \in BackfillPages /\ backfill'.step = "stored"
        /\ backfill'.next = backfill.next /\ backfill'.last = backfill.last
    BY <1>1, <1>3 DEF BackfillPages
  <2>3. pass' \in [EventPass -> SUBSET (1..Len(rows'))]
    BY <1>1, <2>1 DEF Events!TypeOK
  <2>4. Events!TypeOK'
    BY <1>1, <1>3, <2>1, <2>2, <2>3 DEF Events!TypeOK, BackfillPages, Events!Rows,
       Events!Stored, Events!Event
  <2>5. BackfillInv'
    <3>1. n \in 1..Len(rows') /\ \A k \in (n + 1)..Len(rows') : rows'[k].event # backfill'.next
      BY <1>1, <2>1
    <3>2. backfill'.next <= backfill'.last + 1 /\ backfill'.next <= backfill'.last
      BY <1>1, <1>2, <2>2
    <3>3. QED
      BY <2>1, <2>2, <3>1, <3>2 DEF BackfillInv
  <2>6. EventHandlersInv' /\ \A i \in Nat : HandlerAt(i)' <= HandlerAt(i)
    BY <1>1, <2>1, HandlersLess
  <2>7. ASSUME NEW i \in 1..Len(rows') PROVE EventRowInv(i)'
    <3>1. CASE i = n
      <4>1. PassesAt(i)' = {} /\ HandlerAt(i)' = 0
        <5>1. \A p \in EventPass : i \notin pass'[p]
          BY <1>1, <3>1, EventTypes
        <5>2. \A h \in EventHandler : handler'[h].step \in {"stored", "failing"} => handler'[h].row # i
          BY <1>1, <3>1 DEF EventHandlersInv
        <5>3. QED
          BY <5>1, <5>2 DEF PassesAt, HandlerAt
      <4>2. Events!Cardinality(PassesAt(i)') = 0
        BY <4>1, FS_EmptySet, EventsSizes
      <4>3. rows'[i].retry_count = 0 /\ rows'[i].status = "pending"
        BY <2>1, <3>1
      <4>4. rows'[i].retry_count + HandlerAt(i)' + Events!Cardinality(PassesAt(i)')
              <= EventRetries + Events!Cardinality(EventPass)
        BY <4>1, <4>2, <4>3, EventNumbers
      <4>5. QED
        BY <4>3, <4>4 DEF EventRowInv
    <3>2. CASE i # n
      <4>1. i \in 1..Len(rows) /\ i \in Nat /\ EventRowInv(i) /\ rows'[i] = rows[i]
            /\ HandlerAt(i)' <= HandlerAt(i) /\ \A p \in EventPass : i \in pass'[p] => i \in pass[p]
        BY <1>1, <2>1, <2>6, <3>2 DEF EventsInv
      <4>2. QED
        BY <1>1, <4>1, EventRowKept
    <3>3. QED
      BY <3>1, <3>2
  <2>8. orderly' = FALSE
    BY <1>2, <1>3
  <2>9. QED
    BY <2>4, <2>5, <2>6, <2>7, <2>8 DEF EventsInv
<1>4. CASE /\ IF backfill.next \in Events!Stored THEN Events!Fault ELSE UNCHANGED <<faults, orderly>>
           /\ backfill' = [backfill EXCEPT !.next = @ + 1] /\ UNCHANGED rows
  <2>1. faults' \in 0..EventFaults /\ orderly' = FALSE
    <3>1. CASE Events!Fault
      BY <1>1, <3>1, FaultCounts
    <3>2. CASE UNCHANGED <<faults, orderly>>
      BY <1>1, <1>2, <3>2 DEF Events!TypeOK
    <3>3. QED
      BY <1>4, <3>1, <3>2
  <2>2. backfill' \in BackfillPages /\ backfill'.step = "page"
        /\ backfill'.next = backfill.next + 1 /\ backfill'.last = backfill.last
    <3>1. backfill.next + 1 \in 0..(EventCount + 1)
      BY <1>1, <1>2
    <3>2. QED
      BY <1>1, <1>4, <3>1 DEF BackfillPages
  <2>3. BackfillInv'
    BY <1>1, <1>2, <2>2 DEF BackfillInv
  <2>4. cursor' \in 0..EventCount
    BY <1>1 DEF Events!TypeOK
  <2>5. QED
    BY <1>1, <1>4, <2>1, <2>2, <2>3, <2>4, BackfillMoves
<1>5. QED
  BY <1>1, <1>3, <1>4 DEF Events!BackfillRecord

LEMMA BackfillMarkKeeps ==
  ASSUME Events!EventStreamAssumption, EventsInv, Events!BackfillMark PROVE EventsInv'
<1> DEFINE Last(j) == /\ rows[j].event = backfill.next
                      /\ \A k \in (j + 1)..Len(rows) : rows[k].event # backfill.next
           i == CHOOSE j \in 1..Len(rows) : Last(j)
<1>1. /\ Events!TypeOK /\ BackfillInv /\ EventHandlersInv /\ backfill \in BackfillPages /\ backfill.step = "stored"
      /\ orderly \in BOOLEAN /\ Len(rows) \in Nat
      /\ UNCHANGED <<resumes, missed, emitted, stream, position, handler, cursor, pass>>
      /\ backfill' = [backfill EXCEPT !.step = "page", !.next = @ + 1]
  BY EventTypes DEF EventsInv, Events!TypeOK, BackfillPages, Events!BackfillMark
<1>2. \/ rows' = Events!Processed(i) /\ UNCHANGED <<faults, orderly>>
      \/ Events!Fault /\ UNCHANGED rows
  BY Zenon DEF Events!BackfillMark
<1>3. /\ backfill.next \in Nat /\ backfill.last \in Nat /\ backfill.last <= EventCount
      /\ backfill.next <= backfill.last /\ EventCount \in Nat /\ orderly = FALSE
  BY <1>1, EventNumbers, OrderlyOff DEF BackfillPages, BackfillInv
<1>4. backfill' \in BackfillPages /\ backfill'.step = "page"
      /\ backfill'.next = backfill.next + 1 /\ backfill'.last = backfill.last
  <2>1. backfill.next + 1 \in 0..(EventCount + 1)
    BY <1>3
  <2>2. QED
    BY <1>1, <2>1 DEF BackfillPages
<1>5. BackfillInv'
  BY <1>3, <1>4 DEF BackfillInv
<1>6. CASE Events!Fault /\ UNCHANGED rows
  <2>1. faults' \in 0..EventFaults /\ orderly' = FALSE /\ cursor' \in 0..EventCount
    BY <1>1, <1>6, FaultCounts DEF Events!TypeOK
  <2>2. QED
    BY <1>1, <1>4, <1>5, <1>6, <2>1, BackfillMoves
<1>7. CASE rows' = Events!Processed(i) /\ UNCHANGED <<faults, orderly>>
  <2>1. i \in 1..Len(rows)
    <3>1. \E j \in 1..Len(rows) : Last(j)
      BY <1>1 DEF BackfillInv
    <3> HIDE DEF Last
    <3>2. QED
      BY <3>1
  <2> HIDE DEF i
  <2>2. /\ rows' \in Seq(Events!Rows) /\ Len(rows') = Len(rows)
        /\ \A j \in 1..Len(rows) : /\ rows'[j].event = rows[j].event
                                   /\ rows'[j].retry_count = rows[j].retry_count
                                   /\ rows'[j].status = rows[j].status \/ rows'[j].status = "processed"
    BY <1>1, <1>7, <2>1, RowProcessed
  <2>3. Events!TypeOK'
    BY <1>1, <1>4, <1>7, <2>2 DEF Events!TypeOK, BackfillPages, Events!Rows, Events!Stored,
       Events!Event
  <2>4. EventHandlersInv' /\ \A j \in Nat : HandlerAt(j)' <= HandlerAt(j)
    BY <1>1, <2>2, HandlersLess
  <2>5. ASSUME NEW j \in 1..Len(rows') PROVE EventRowInv(j)'
    <3>1. j \in 1..Len(rows) /\ j \in Nat /\ EventRowInv(j) /\ HandlerAt(j)' <= HandlerAt(j)
          /\ \A p \in EventPass : j \in pass'[p] => j \in pass[p]
      BY <1>1, <2>2, <2>4 DEF EventsInv
    <3>2. QED
      BY <1>1, <2>2, <3>1, EventRowKept
  <2>6. orderly' = FALSE
    BY <1>3, <1>7
  <2>7. QED
    BY <1>5, <2>3, <2>4, <2>5, <2>6 DEF EventsInv
<1>8. QED
  BY <1>2, <1>6, <1>7

LEMMA EventsStep ==
  ASSUME Events!EventStreamAssumption, EventsInv, [Events!Next]_eventsVars PROVE EventsInv'
<1>1. CASE Events!Emit \/ Events!Connect \/ Events!Disconnect \/ Events!Crash
  BY <1>1, EmitKeeps, ConnectKeeps, DisconnectKeeps, CrashKeeps
<1>2. CASE Events!Backfilling
  BY <1>2, StartBackfillKeeps, BackfillRecordKeeps, BackfillMarkKeeps, BackfillSaveKeeps
     DEF Events!Backfilling
<1>3. CASE \E h \in EventHandler : Events!Handle(h)
  BY <1>3, DeliverKeeps, RecordKeeps, RecordFailsKeeps, MarkProcessedKeeps, MarkingFailsKeeps,
     MarkFailedKeeps DEF Events!Handle
<1>4. CASE \E p \in EventPass : Events!RetryLoop(p)
  BY <1>4, StartPassKeeps, RetryKeeps DEF Events!RetryLoop
<1>5. CASE UNCHANGED eventsVars
  <2>1. UNCHANGED <<resumes, missed, emitted, stream, position, handler, rows, cursor, pass, backfill, faults, orderly>>
        /\ Events!TypeOK /\ BackfillInv
    BY <1>5 DEF eventsVars, EventsInv
  <2>2. Events!TypeOK' /\ SameEvents
    BY <2>1 DEF Events!TypeOK, SameEvents
  <2>3. EventHandlersInv' /\ \A i \in 1..Len(rows') : EventRowInv(i)'
    BY <2>1, RowsAlone
  <2>4. ASSUME orderly' PROVE OrderInv'
    <3>1. OrderInv /\ (Events!Storing => Events!Storing')
      BY <2>1, <2>4 DEF EventsInv, Events!Storing
    <3>2. QED
      BY <2>1, <2>2, <3>1, OrderKept
  <2>5. QED
    BY <2>1, <2>2, <2>3, <2>4, BackfillKept DEF EventsInv
<1>6. QED
  BY <1>1, <1>2, <1>3, <1>4, <1>5 DEF Events!Next

LEMMA EventsHold == ASSUME EventsInv PROVE Events!TypeOK /\ Events!OrderlyExactlyOnce
BY DEF EventsInv, OrderInv, InOrder, Events!OrderlyExactlyOnce

-----------------------------------------------------------------------------
(* Reward issuance *)

IssuanceSteps == {"none", "count", "campaign", "refuse", "refused", "transfer", "mark", "marked",
                  "dlq", "record", "remove"}

\* The steps of a run, and those after it counted its attempt.
RunSteps == {"count", "campaign", "refuse", "refused", "transfer", "mark", "marked"}
CountedSteps == RunSteps \ {"count"}

\* Nothing was done for the key yet but, perhaps, its row.
KeyAlone(k) ==
  /\ job[k] = Issuance!NoJob /\ work[k] = "none" /\ deadLetter[k] = 0 /\ failures[k] = 0
  /\ k \notin ineligible /\ issuance[k].attempts = 0

\* The row of a job that will run or runs reads "failed" in these cases only.
MarkedLast(k) ==
  issuance[k].status = "failed" /\ k \notin ineligible =>
    job[k].made = IssuanceAttempts - 1 /\ (work[k] = "marked" \/ job[k].stalls > 0)

\* A job that will run or runs: nothing has given it up.
InQueue(k) ==
  /\ issuance[k].status # "none" /\ MarkedLast(k)
  /\ job[k].made < IssuanceAttempts /\ job[k].stalls <= IssuanceStalls
  /\ deadLetter[k] = 0 /\ failures[k] = 0

\* A job that failed: its handler runs at most once, and only out of attempts.
GivenUp(k) ==
  /\ issuance[k].status # "none"
  /\ work[k] \in {"dlq", "record", "remove"} => job[k].made >= IssuanceAttempts
  /\ work[k] = "dlq" => deadLetter[k] = 0
  /\ work[k] = "remove" => failures[k] = 1

\* Every attempt that was counted is a run that ended, a stall or the run under way.
AttemptsCounted(k) ==
  /\ work[k] \notin CountedSteps =>
       issuance[k].attempts <= job[k].made + job[k].stalls
  /\ issuance[k].attempts <= job[k].made + job[k].stalls + 1
  /\ job[k].stalls <= troubles

\* The inductive invariant, of one key ...
KeyInv(k) ==
  /\ issuance[k].status = "none" => KeyAlone(k)
  /\ job[k].state = "none" =>
       /\ job[k] = Issuance!NoJob /\ work[k] = "none" /\ issuance[k].attempts <= IssuanceAttempts + troubles
       /\ issuance[k].status = "failed" /\ k \notin ineligible => failures[k] = 1
  /\ job[k].state # "none" => AttemptsCounted(k)
  /\ job[k].state = "wait" => work[k] = "none" /\ InQueue(k)
  /\ job[k].state = "active" =>
       work[k] \in RunSteps /\ InQueue(k)
  /\ job[k].state = "failed" => work[k] \in {"none", "dlq", "record", "remove"} /\ GivenUp(k)
  /\ work[k] \in {"refuse", "refused"} => k \in ineligible
  /\ work[k] \in {"mark", "marked"} => job[k].made = IssuanceAttempts - 1

\* ... and of the requests: one alone is to queue a job, for a key that is untouched.
RequestsInv ==
  \A r \in IssuanceRequest :
    /\ request[r].step # "idle" => request[r].key \in IssuanceKey
    /\ request[r].step = "enqueue" =>
         /\ issuance[request[r].key].status = "pending" /\ KeyAlone(request[r].key)
         /\ \A q \in IssuanceRequest : request[q] = request[r] => q = r

IssuanceInv == Issuance!TypeOK /\ RequestsInv /\ \A k \in IssuanceKey : KeyInv(k)

LEMMA IssuanceInit == ASSUME Issuance!IssuanceAssumption, Issuance!Init PROVE IssuanceInv
<1>1. Issuance!TypeOK
  <2>1. /\ 0 \in 0..(IssuanceAttempts + IssuanceTroubles) /\ 0 \in 0..IssuanceAttempts /\ 0 \in 0..(IssuanceStalls + 1)
        /\ 0 \in 0..IssuanceTroubles /\ 0 \in 0..1
    BY DEF Issuance!IssuanceAssumption
  <2>2. Issuance!NoRow \in [status : {"none", "pending", "failed"}, attempts : 0..(IssuanceAttempts + IssuanceTroubles)]
    BY <2>1 DEF Issuance!NoRow
  <2>3. Issuance!NoJob \in [state : {"none", "wait", "active", "failed"}, made : 0..IssuanceAttempts,
                   stalls : 0..(IssuanceStalls + 1)]
    BY <2>1 DEF Issuance!NoJob
  <2>4. Issuance!Waits \in [step : {"idle", "create", "enqueue"}, key : IssuanceKey \cup {NoKey}]
    BY DEF Issuance!Waits
  <2>5. QED
    BY <2>1, <2>2, <2>3, <2>4 DEF Issuance!Init, Issuance!TypeOK
<1>2. RequestsInv
  BY DEF Issuance!Init, RequestsInv, Issuance!Waits
<1>3. \A k \in IssuanceKey : KeyInv(k)
  BY DEF Issuance!IssuanceAssumption, Issuance!Init, KeyInv, KeyAlone, Issuance!NoRow,
     Issuance!NoJob
<1>4. QED
  BY <1>1, <1>2, <1>3 DEF IssuanceInv

\* The facts about one key that the steps use.
LEMMA KeyTypes ==
  ASSUME Issuance!IssuanceAssumption, Issuance!TypeOK, NEW k \in IssuanceKey
  PROVE  /\ IssuanceAttempts \in Nat /\ IssuanceAttempts > 0 /\ IssuanceStalls \in Nat /\ IssuanceTroubles \in Nat /\ troubles \in Nat
         /\ job[k].made \in Nat /\ job[k].made <= IssuanceAttempts
         /\ job[k].stalls \in Nat /\ job[k].stalls <= IssuanceStalls + 1
         /\ job[k].state \in {"none", "wait", "active", "failed"}
         /\ job[k] = [state |-> job[k].state, made |-> job[k].made, stalls |-> job[k].stalls]
         /\ issuance[k].attempts \in Nat
         /\ issuance[k] = [status |-> issuance[k].status, attempts |-> issuance[k].attempts]
         /\ issuance[k].status \in {"none", "pending", "failed"}
BY DEF Issuance!IssuanceAssumption, Issuance!TypeOK

\* A key that a step leaves alone.
LEMMA KeyUntouched ==
  ASSUME Issuance!IssuanceAssumption, IssuanceInv, NEW k \in IssuanceKey,
         issuance'[k] = issuance[k], job'[k] = job[k], work'[k] = work[k],
         deadLetter'[k] = deadLetter[k], failures'[k] = failures[k],
         k \in ineligible' <=> k \in ineligible, troubles' \in Nat, troubles' >= troubles
  PROVE  KeyInv(k)' /\ (KeyAlone(k) => KeyAlone(k)')
<1>1. KeyInv(k) /\ troubles \in Nat /\ job[k].stalls \in Nat /\ issuance[k].attempts \in Nat /\ IssuanceAttempts \in Nat
  BY KeyTypes DEF IssuanceInv
<1>2. KeyAlone(k)' <=> KeyAlone(k)
  BY DEF KeyAlone
<1>3. InQueue(k)' <=> InQueue(k)
  BY DEF InQueue, MarkedLast
<1>4. GivenUp(k)' <=> GivenUp(k)
  BY DEF GivenUp
<1>5. AttemptsCounted(k) => AttemptsCounted(k)'
  BY <1>1 DEF AttemptsCounted
<1>6. issuance[k].attempts <= IssuanceAttempts + troubles => issuance[k].attempts <= IssuanceAttempts + troubles'
  BY <1>1
<1>7. QED
  BY <1>1, <1>2, <1>3, <1>4, <1>5, <1>6 DEF KeyInv

\* A step of the worker or of the handler on one key.
LEMMA OneKey ==
  ASSUME Issuance!IssuanceAssumption, IssuanceInv, NEW k \in IssuanceKey, Issuance!TypeOK', KeyInv(k)',
         job[k].state # "none", request' = request, troubles' \in Nat, troubles' >= troubles,
         \A j \in IssuanceKey \ {k} : /\ issuance'[j] = issuance[j] /\ job'[j] = job[j] /\ work'[j] = work[j]
                                      /\ deadLetter'[j] = deadLetter[j] /\ failures'[j] = failures[j]
                                      /\ j \in ineligible' <=> j \in ineligible
  PROVE  IssuanceInv'
<1>1. \A j \in IssuanceKey \ {k} : KeyInv(j)' /\ (KeyAlone(j) => KeyAlone(j)')
  BY KeyUntouched
<1>2. RequestsInv'
  <2>1. ~KeyAlone(k)
    BY DEF KeyAlone, Issuance!NoJob
  <2>2. QED
    BY <1>1, <2>1 DEF IssuanceInv, RequestsInv
<1>3. QED
  BY <1>1, <1>2 DEF IssuanceInv

\* A run that throws.
LEMMA AttemptThrown ==
  ASSUME Issuance!IssuanceAssumption, Issuance!TypeOK, NEW k \in IssuanceKey, Issuance!Throw(k), job[k].made < IssuanceAttempts
  PROVE  /\ job' \in [IssuanceKey -> [state : {"none", "wait", "active", "failed"}, made : 0..IssuanceAttempts,
                              stalls : 0..(IssuanceStalls + 1)]]
         /\ work' \in [IssuanceKey -> IssuanceSteps]
         /\ \A j \in IssuanceKey \ {k} : job'[j] = job[j] /\ work'[j] = work[j]
         /\ job'[k].made = job[k].made + 1 /\ job'[k].stalls = job[k].stalls
         /\ job[k].made + 1 < IssuanceAttempts => job'[k].state = "wait" /\ work'[k] = "none"
         /\ job[k].made + 1 >= IssuanceAttempts => job'[k].state = "failed" /\ work'[k] = "dlq"
<1>1. /\ job[k].made \in Nat /\ IssuanceAttempts \in Nat /\ job[k].made + 1 \in 0..IssuanceAttempts
      /\ k \in DOMAIN job /\ DOMAIN job = IssuanceKey /\ DOMAIN job[k] = {"state", "made", "stalls"}
  BY KeyTypes DEF Issuance!TypeOK
<1>2. job' = [job EXCEPT ![k].made = @ + 1,
                         ![k].state = IF job[k].made + 1 < IssuanceAttempts THEN "wait" ELSE "failed"]
  BY DEF Issuance!Throw
<1>3. /\ job'[k].made = job[k].made + 1 /\ job'[k].stalls = job[k].stalls
      /\ job'[k].state = IF job[k].made + 1 < IssuanceAttempts THEN "wait" ELSE "failed"
      /\ \A j \in IssuanceKey \ {k} : job'[j] = job[j]
  BY <1>1, <1>2
<1>5. job' \in [IssuanceKey -> [state : {"none", "wait", "active", "failed"}, made : 0..IssuanceAttempts,
                        stalls : 0..(IssuanceStalls + 1)]]
  BY <1>1, <1>2 DEF Issuance!TypeOK
<1>6. /\ work'[k] = (IF job[k].made + 1 < IssuanceAttempts THEN "none" ELSE "dlq")
      /\ \A j \in IssuanceKey \ {k} : work'[j] = work[j]
      /\ work' \in [IssuanceKey -> IssuanceSteps]
  BY DEF Issuance!Throw, Issuance!TypeOK, IssuanceSteps
<1>7. QED
  BY <1>1, <1>3, <1>5, <1>6

LEMMA CampaignEndsKeeps == ASSUME Issuance!IssuanceAssumption, IssuanceInv, Issuance!CampaignEnds PROVE IssuanceInv'
<1>1. /\ UNCHANGED <<request, issuance, job, work, deadLetter, failures, troubles, ineligible>>
      /\ active' = FALSE
  BY DEF Issuance!CampaignEnds
<1>2. Issuance!TypeOK'
  BY <1>1 DEF IssuanceInv, Issuance!TypeOK
<1>3. troubles \in Nat
  BY DEF IssuanceInv, Issuance!TypeOK
<1>4. \A k \in IssuanceKey : KeyInv(k)' /\ (KeyAlone(k) => KeyAlone(k)')
  BY <1>1, <1>3, KeyUntouched
<1>5. RequestsInv'
  BY <1>1, <1>4 DEF IssuanceInv, RequestsInv
<1>6. QED
  BY <1>2, <1>4, <1>5 DEF IssuanceInv

\* getIssuanceByKey
LEMMA LookUpKeeps ==
  ASSUME Issuance!IssuanceAssumption, IssuanceInv, NEW r \in IssuanceRequest, NEW k \in IssuanceKey, Issuance!LookUp(r, k) PROVE IssuanceInv'
<1>1. /\ request' = [request EXCEPT ![r] = [step |-> "create", key |-> k]]
      /\ UNCHANGED <<active, issuance, job, work, deadLetter, failures, troubles, ineligible>>
  BY DEF Issuance!LookUp
<1>2. Issuance!TypeOK'
  BY <1>1 DEF IssuanceInv, Issuance!TypeOK
<1>3. troubles \in Nat
  BY DEF IssuanceInv, Issuance!TypeOK
<1>4. \A j \in IssuanceKey : KeyInv(j)' /\ (KeyAlone(j) => KeyAlone(j)')
  BY <1>1, <1>3, KeyUntouched
<1>5. /\ request'[r].step = "create" /\ request'[r].key = k
      /\ \A q \in IssuanceRequest \ {r} : request'[q] = request[q]
  BY <1>1 DEF IssuanceInv, Issuance!TypeOK
<1>6. RequestsInv'
  BY <1>1, <1>4, <1>5 DEF IssuanceInv, RequestsInv
<1>7. QED
  BY <1>2, <1>4, <1>6 DEF IssuanceInv

\* createIssuance: the row is there once, so one request alone goes on to queue its job.
LEMMA CreateKeeps ==
  ASSUME Issuance!IssuanceAssumption, IssuanceInv, NEW r \in IssuanceRequest, Issuance!CreateIssuance(r) PROVE IssuanceInv'
<1>0. PICK k \in IssuanceKey : k = request[r].key
  BY DEF Issuance!CreateIssuance, IssuanceInv, RequestsInv
<1>1. request[r].step = "create" /\ UNCHANGED <<active, job, work, deadLetter, failures, troubles, ineligible>>
  BY DEF Issuance!CreateIssuance
<1>2. troubles \in Nat /\ request \in [IssuanceRequest -> [step : {"idle", "create", "enqueue"}, key : IssuanceKey \cup {NoKey}]]
  BY DEF IssuanceInv, Issuance!TypeOK
<1>3. CASE issuance[k] # Issuance!NoRow
  <2>1. request' = [request EXCEPT ![r] = Issuance!Waits] /\ UNCHANGED issuance
    BY <1>0, <1>3 DEF Issuance!CreateIssuance
  <2>2. Issuance!TypeOK'
    BY <1>1, <2>1 DEF IssuanceInv, Issuance!TypeOK, Issuance!Waits
  <2>3. \A j \in IssuanceKey : KeyInv(j)' /\ (KeyAlone(j) => KeyAlone(j)')
    BY <1>1, <1>2, <2>1, KeyUntouched
  <2>4. /\ request'[r].step = "idle" /\ \A q \in IssuanceRequest \ {r} : request'[q] = request[q]
    BY <1>2, <2>1 DEF Issuance!Waits
  <2>5. RequestsInv'
    BY <1>1, <2>1, <2>3, <2>4 DEF IssuanceInv, RequestsInv
  <2>6. QED
    BY <2>2, <2>3, <2>5 DEF IssuanceInv
<1>4. CASE issuance[k] = Issuance!NoRow
  <2>1. /\ issuance' = [issuance EXCEPT ![k].status = "pending"]
        /\ request' = [request EXCEPT ![r].step = "enqueue"]
    BY <1>0, <1>4 DEF Issuance!CreateIssuance
  <2>2. /\ issuance'[k].status = "pending" /\ issuance'[k].attempts = issuance[k].attempts
        /\ \A j \in IssuanceKey \ {k} : issuance'[j] = issuance[j]
    BY <1>1, <2>1 DEF IssuanceInv, Issuance!TypeOK
  <2>3. /\ request'[r].step = "enqueue" /\ request'[r].key = k
        /\ \A q \in IssuanceRequest \ {r} : request'[q] = request[q]
    BY <1>0, <1>2, <2>1
  <2>4. Issuance!TypeOK'
    BY <1>1, <2>1, SMTT(60) DEF IssuanceInv, Issuance!TypeOK
  <2>5. \A j \in IssuanceKey \ {k} : KeyInv(j)' /\ (KeyAlone(j) => KeyAlone(j)')
    BY <1>1, <1>2, <2>2, KeyUntouched
  <2>6. KeyAlone(k) /\ issuance[k].status = "none"
    BY <1>1, <1>4 DEF IssuanceInv, KeyInv, Issuance!NoRow
  <2>7. KeyAlone(k)'
    BY <1>1, <2>2, <2>6 DEF KeyAlone
  <2>8. KeyInv(k)'
    <3>1. IssuanceAttempts \in Nat
      BY DEF Issuance!IssuanceAssumption
    <3>2. job'[k] = Issuance!NoJob /\ work'[k] = "none" /\ issuance'[k].attempts = 0 /\ troubles' \in Nat
      BY <1>1, <1>2, <2>7 DEF KeyAlone
    <3>3. issuance'[k].attempts <= IssuanceAttempts + troubles'
      <4>1. \A x, y \in Nat : 0 <= x + y
        OBVIOUS
      <4>2. QED
        BY <3>1, <3>2, <4>1
    <3>4. QED
      BY <2>2, <2>7, <3>2, <3>3 DEF KeyInv, Issuance!NoJob
  <2>9. RequestsInv'
    <3>1. \A q \in IssuanceRequest : request[q].step = "enqueue" => request[q].key # k
      BY <2>6 DEF IssuanceInv, RequestsInv
    <3>2. \A q \in IssuanceRequest \ {r} : request'[q].step = "enqueue" =>
             /\ issuance'[request'[q].key].status = "pending" /\ KeyAlone(request[q].key)'
             /\ \A p \in IssuanceRequest : request'[p] = request'[q] => p = q
      <4>1. SUFFICES ASSUME NEW q \in IssuanceRequest \ {r}, request'[q].step = "enqueue"
                     PROVE  /\ issuance'[request'[q].key].status = "pending" /\ KeyAlone(request[q].key)'
                            /\ \A p \in IssuanceRequest : request'[p] = request'[q] => p = q
        OBVIOUS
      <4>2. request'[q] = request[q] /\ request[q].step = "enqueue" /\ request[q].key # k
        BY <2>3, <3>1, <4>1
      <4>3. PICK j \in IssuanceKey \ {k} : j = request[q].key
        BY <4>2 DEF IssuanceInv, RequestsInv
      <4>4. /\ issuance[j].status = "pending" /\ KeyAlone(j)
            /\ \A p \in IssuanceRequest : request[p] = request[q] => p = q
        BY <4>2, <4>3 DEF IssuanceInv, RequestsInv
      <4>5. KeyAlone(j)' /\ issuance'[j].status = "pending"
        BY <2>2, <2>5, <4>4
      <4>6. KeyAlone(request[q].key)'
        BY <4>2, <4>3, <4>5 DEF KeyAlone
      <4>7. request'[r] # request'[q]
        BY <2>3, <4>2
      <4>8. QED
        BY <2>3, <4>2, <4>3, <4>4, <4>5, <4>6, <4>7
    <3>3. \A p \in IssuanceRequest : request'[p] = request'[r] => p = r
      BY <2>3, <3>1
    <3>4. \A q \in IssuanceRequest : request'[q].step # "idle" => request'[q].key \in IssuanceKey
      BY <1>1, <2>3 DEF IssuanceInv, RequestsInv
    <3>5. issuance'[request'[r].key].status = "pending" /\ KeyAlone(request[r].key)'
      BY <2>2, <2>3, <2>7 DEF KeyAlone
    <3>6. QED
      BY <3>2, <3>3, <3>4, <3>5 DEF RequestsInv
  <2>10. QED
    BY <2>4, <2>5, <2>8, <2>9 DEF IssuanceInv
<1>5. QED
  BY <1>3, <1>4

\* rewardIssuanceQueue.add finds no job under the key.
LEMMA EnqueueKeeps ==
  ASSUME Issuance!IssuanceAssumption, IssuanceInv, NEW r \in IssuanceRequest, Issuance!Enqueue(r) PROVE IssuanceInv'
<1>0. PICK k \in IssuanceKey : k = request[r].key
  BY DEF Issuance!Enqueue, IssuanceInv, RequestsInv
<1>1. /\ request[r].step = "enqueue" /\ UNCHANGED <<active, issuance, work, deadLetter, failures, troubles, ineligible>>
      /\ request' = [request EXCEPT ![r] = Issuance!Waits]
      /\ issuance[k].status = "pending" /\ KeyAlone(k)
      /\ \A q \in IssuanceRequest : request[q] = request[r] => q = r
  BY <1>0 DEF Issuance!Enqueue, IssuanceInv, RequestsInv
<1>2. troubles \in Nat /\ request \in [IssuanceRequest -> [step : {"idle", "create", "enqueue"}, key : IssuanceKey \cup {NoKey}]]
  BY DEF IssuanceInv, Issuance!TypeOK
<1>3. job' = [job EXCEPT ![k] = [Issuance!NoJob EXCEPT !.state = "wait"]] /\ job[k] = Issuance!NoJob
  BY <1>0, <1>1 DEF Issuance!Enqueue, KeyAlone
<1>4. [Issuance!NoJob EXCEPT !.state = "wait"] = [state |-> "wait", made |-> 0, stalls |-> 0]
  BY DEF Issuance!NoJob
<1>5. /\ job'[k] = [state |-> "wait", made |-> 0, stalls |-> 0]
      /\ \A j \in IssuanceKey \ {k} : job'[j] = job[j]
  BY <1>1, <1>3, <1>4 DEF IssuanceInv, Issuance!TypeOK
<1>6. Issuance!TypeOK'
  <2>1. [state |-> "wait", made |-> 0, stalls |-> 0]
          \in [state : {"none", "wait", "active", "failed"}, made : 0..IssuanceAttempts, stalls : 0..(IssuanceStalls + 1)]
    BY DEF Issuance!IssuanceAssumption
  <2>2. Issuance!Waits \in [step : {"idle", "create", "enqueue"}, key : IssuanceKey \cup {NoKey}]
    BY DEF Issuance!Waits
  <2>3. QED
    BY <1>1, <1>3, <1>4, <2>1, <2>2 DEF IssuanceInv, Issuance!TypeOK
<1>7. \A j \in IssuanceKey \ {k} : KeyInv(j)' /\ (KeyAlone(j) => KeyAlone(j)')
  BY <1>1, <1>2, <1>5, KeyUntouched
<1>8. KeyInv(k)'
  <2>1. IssuanceAttempts \in Nat /\ IssuanceAttempts > 0 /\ IssuanceStalls \in Nat
    BY DEF Issuance!IssuanceAssumption
  <2>2. issuance'[k].attempts = 0 /\ work'[k] = "none" /\ deadLetter'[k] = 0 /\ failures'[k] = 0
        /\ issuance'[k].status = "pending"
    BY <1>1 DEF KeyAlone
  <2>3. AttemptsCounted(k)'
    BY <1>1, <1>2, <1>5, <2>2 DEF AttemptsCounted
  <2>4. InQueue(k)'
    BY <1>5, <2>1, <2>2 DEF InQueue, MarkedLast
  <2>5. QED
    BY <1>1, <1>5, <2>2, <2>3, <2>4 DEF KeyInv
<1>9. RequestsInv'
  <2>1. request'[r].step = "idle" /\ \A q \in IssuanceRequest \ {r} : request'[q] = request[q]
    BY <1>1, <1>2 DEF Issuance!Waits
  <2>2. \A q \in IssuanceRequest \ {r} : request[q].step = "enqueue" => request[q].key # k
    BY <1>0, <1>1, <1>2
  <2>3. QED
    BY <1>1, <1>7, <2>1, <2>2 DEF IssuanceInv, RequestsInv
<1>10. QED
  BY <1>6, <1>7, <1>8, <1>9 DEF IssuanceInv

\* What is known of a key whose job the worker or the handler has.
LEMMA KeyFacts ==
  ASSUME Issuance!IssuanceAssumption, IssuanceInv, NEW k \in IssuanceKey
  PROVE  /\ KeyInv(k) /\ troubles \in Nat /\ IssuanceAttempts \in Nat /\ IssuanceAttempts > 0
         /\ job[k].made \in Nat /\ job[k].stalls \in Nat /\ issuance[k].attempts \in Nat
         /\ issuance[k].attempts <= IssuanceAttempts + troubles
         /\ work[k] # "none" => job[k].state # "none" /\ issuance[k].status # "none"
         /\ work[k] \in RunSteps => job[k].state = "active"
         /\ work[k] \in {"dlq", "record", "remove"} => job[k].state = "failed"
<1>1. /\ KeyInv(k) /\ troubles \in Nat /\ IssuanceAttempts \in Nat /\ IssuanceAttempts > 0
      /\ job[k].made \in Nat /\ job[k].stalls \in Nat /\ issuance[k].attempts \in Nat
      /\ job[k].made <= IssuanceAttempts /\ job[k].state \in {"none", "wait", "active", "failed"}
      /\ work[k] \in IssuanceSteps
  BY KeyTypes DEF IssuanceInv, Issuance!TypeOK, IssuanceSteps
<1>2. issuance[k].attempts <= IssuanceAttempts + troubles
  <2>1. CASE job[k].state = "none"
    BY <1>1, <2>1 DEF KeyInv
  <2>2. CASE job[k].state = "active"
    BY <1>1, <2>2 DEF KeyInv, AttemptsCounted, InQueue
  <2>3. CASE job[k].state \in {"wait", "failed"}
    BY <1>1, <2>3 DEF KeyInv, AttemptsCounted, RunSteps, CountedSteps
  <2>4. QED
    BY <1>1, <2>1, <2>2, <2>3
<1>3. /\ work[k] # "none" => job[k].state # "none" /\ issuance[k].status # "none"
      /\ work[k] \in RunSteps => job[k].state = "active"
      /\ work[k] \in {"dlq", "record", "remove"} => job[k].state = "failed"
  BY <1>1 DEF KeyInv, KeyAlone, RunSteps
<1>4. QED
  BY <1>1, <1>2, <1>3

LEMMA TakeKeeps == ASSUME Issuance!IssuanceAssumption, IssuanceInv, NEW k \in IssuanceKey, Issuance!Take(k) PROVE IssuanceInv'
<1>1. /\ job[k].state = "wait" /\ job' = [job EXCEPT ![k].state = "active"]
      /\ work' = [work EXCEPT ![k] = "count"]
      /\ UNCHANGED <<active, request, issuance, deadLetter, failures, troubles, ineligible>>
  BY DEF Issuance!Take
<1>2. /\ job'[k].state = "active" /\ job'[k].made = job[k].made /\ job'[k].stalls = job[k].stalls
      /\ work'[k] = "count" /\ \A j \in IssuanceKey \ {k} : job'[j] = job[j] /\ work'[j] = work[j]
  BY <1>1 DEF IssuanceInv, Issuance!TypeOK
<1>3. Issuance!TypeOK'
  BY <1>1 DEF IssuanceInv, Issuance!TypeOK
<1>4. KeyInv(k) /\ work[k] = "none" /\ InQueue(k) /\ AttemptsCounted(k) /\ troubles \in Nat
  BY <1>1, KeyFacts DEF KeyInv
<1>5. InQueue(k)' /\ AttemptsCounted(k)'
  BY <1>1, <1>2, <1>4 DEF InQueue, MarkedLast, AttemptsCounted, RunSteps, CountedSteps
<1>6. issuance[k].status # "none"
  BY <1>4 DEF InQueue
<1>7. KeyInv(k)'
  BY <1>1, <1>2, <1>5, <1>6 DEF KeyInv, RunSteps
<1>8. QED
  BY <1>1, <1>2, <1>3, <1>4, <1>7, OneKey

LEMMA IncrementKeeps ==
  ASSUME Issuance!IssuanceAssumption, IssuanceInv, NEW k \in IssuanceKey, Issuance!IncrementAttempts(k) PROVE IssuanceInv'
<1>1. /\ work[k] = "count" /\ issuance' = [issuance EXCEPT ![k].attempts = @ + 1]
      /\ work' = [work EXCEPT ![k] = "campaign"]
      /\ UNCHANGED <<active, request, job, deadLetter, failures, troubles, ineligible>>
  BY DEF Issuance!IncrementAttempts
<1>2. /\ issuance'[k].status = issuance[k].status /\ issuance'[k].attempts = issuance[k].attempts + 1
      /\ work'[k] = "campaign" /\ \A j \in IssuanceKey \ {k} : issuance'[j] = issuance[j] /\ work'[j] = work[j]
  BY <1>1 DEF IssuanceInv, Issuance!TypeOK
<1>3. /\ job[k].state = "active" /\ InQueue(k) /\ AttemptsCounted(k) /\ troubles \in Nat
      /\ job[k].made \in Nat /\ job[k].stalls \in Nat /\ issuance[k].attempts \in Nat /\ IssuanceAttempts \in Nat
  BY <1>1, KeyFacts DEF KeyInv, RunSteps
<1>4. issuance[k].attempts + 1 \in 0..(IssuanceAttempts + IssuanceTroubles)
  <2>1. issuance[k].attempts <= job[k].made + job[k].stalls /\ job[k].stalls <= troubles
    BY <1>1, <1>3 DEF AttemptsCounted, RunSteps, CountedSteps
  <2>2. job[k].made < IssuanceAttempts /\ troubles <= IssuanceTroubles /\ IssuanceTroubles \in Nat
    BY <1>3 DEF InQueue, IssuanceInv, Issuance!TypeOK, Issuance!IssuanceAssumption
  <2>3. QED
    BY <1>3, <2>1, <2>2
<1>5. Issuance!TypeOK'
  BY <1>1, <1>4 DEF IssuanceInv, Issuance!TypeOK
<1>6. InQueue(k)'
  BY <1>1, <1>2, <1>3 DEF InQueue, MarkedLast
<1>7. AttemptsCounted(k)'
  BY <1>1, <1>2, <1>3 DEF AttemptsCounted, RunSteps, CountedSteps
<1>8. issuance[k].status # "none"
  BY <1>3 DEF InQueue
<1>9. KeyInv(k)'
  BY <1>1, <1>2, <1>3, <1>6, <1>7, <1>8 DEF KeyInv, RunSteps
<1>10. QED
  BY <1>1, <1>2, <1>3, <1>5, <1>9, OneKey

LEMMA StatementFailsKeeps ==
  ASSUME Issuance!IssuanceAssumption, IssuanceInv, NEW k \in IssuanceKey, Issuance!StatementFails(k) PROVE IssuanceInv'
<1>1. /\ work[k] \in {"count", "campaign", "refuse", "mark"} /\ troubles < IssuanceTroubles /\ troubles' = troubles + 1
      /\ UNCHANGED <<active, request, issuance, deadLetter, failures, ineligible>>
  BY DEF Issuance!StatementFails, Issuance!Trouble
<1>2. /\ job[k].state = "active" /\ InQueue(k) /\ AttemptsCounted(k) /\ troubles \in Nat
      /\ job[k].made \in Nat /\ job[k].stalls \in Nat /\ issuance[k].attempts \in Nat
      /\ IssuanceAttempts \in Nat /\ job[k].made < IssuanceAttempts /\ MarkedLast(k) /\ issuance[k].status # "none"
  BY <1>1, KeyFacts DEF KeyInv, InQueue, RunSteps
<1>3. /\ job' \in [IssuanceKey -> [state : {"none", "wait", "active", "failed"}, made : 0..IssuanceAttempts,
                           stalls : 0..(IssuanceStalls + 1)]]
      /\ work' \in [IssuanceKey -> IssuanceSteps]
      /\ \A j \in IssuanceKey \ {k} : job'[j] = job[j] /\ work'[j] = work[j]
      /\ job'[k].made = job[k].made + 1 /\ job'[k].stalls = job[k].stalls
      /\ job[k].made + 1 < IssuanceAttempts => job'[k].state = "wait" /\ work'[k] = "none"
      /\ job[k].made + 1 >= IssuanceAttempts => job'[k].state = "failed" /\ work'[k] = "dlq"
  BY <1>2, AttemptThrown DEF Issuance!StatementFails, IssuanceInv
<1>4. troubles' \in 0..IssuanceTroubles /\ troubles' \in Nat /\ troubles' >= troubles
  BY <1>1, <1>2 DEF Issuance!IssuanceAssumption
<1>5. Issuance!TypeOK'
  BY <1>1, <1>3, <1>4 DEF IssuanceInv, Issuance!TypeOK, IssuanceSteps
<1>6. AttemptsCounted(k)'
  BY <1>1, <1>2, <1>3, <1>4 DEF AttemptsCounted, RunSteps, CountedSteps
<1>7. CASE job[k].made + 1 < IssuanceAttempts
  <2>1. InQueue(k)'
    BY <1>1, <1>2, <1>3, <1>7 DEF InQueue, MarkedLast
  <2>2. KeyInv(k)'
    BY <1>1, <1>2, <1>3, <1>6, <1>7, <2>1 DEF KeyInv
  <2>3. QED
    BY <1>1, <1>2, <1>3, <1>4, <1>5, <2>2, OneKey
<1>8. CASE job[k].made + 1 >= IssuanceAttempts
  <2>1. GivenUp(k)'
    BY <1>1, <1>2, <1>3, <1>8 DEF InQueue, GivenUp
  <2>2. KeyInv(k)'
    BY <1>1, <1>2, <1>3, <1>6, <1>8, <2>1 DEF KeyInv
  <2>3. QED
    BY <1>1, <1>2, <1>3, <1>4, <1>5, <2>2, OneKey
<1>9. QED
  BY <1>2, <1>7, <1>8

LEMMA CheckCampaignKeeps ==
  ASSUME Issuance!IssuanceAssumption, IssuanceInv, NEW k \in IssuanceKey, Issuance!CheckCampaign(k) PROVE IssuanceInv'
<1>1. /\ work[k] = "campaign" /\ work' = [work EXCEPT ![k] = IF active THEN "transfer" ELSE "refuse"]
      /\ ineligible' = IF active THEN ineligible ELSE ineligible \cup {k}
      /\ UNCHANGED <<active, request, issuance, job, deadLetter, failures, troubles>>
  BY DEF Issuance!CheckCampaign
<1>2. /\ work'[k] = (IF active THEN "transfer" ELSE "refuse")
      /\ \A j \in IssuanceKey \ {k} : work'[j] = work[j] /\ (j \in ineligible' <=> j \in ineligible)
      /\ ~active => k \in ineligible'
  BY <1>1 DEF IssuanceInv, Issuance!TypeOK
<1>3. Issuance!TypeOK'
  BY <1>1 DEF IssuanceInv, Issuance!TypeOK
<1>4. /\ job[k].state = "active" /\ InQueue(k) /\ AttemptsCounted(k) /\ troubles \in Nat
      /\ issuance[k].status # "none"
  BY <1>1, KeyFacts DEF KeyInv, InQueue, RunSteps
<1>5. InQueue(k)' /\ AttemptsCounted(k)'
  BY <1>1, <1>2, <1>4 DEF InQueue, MarkedLast, AttemptsCounted, RunSteps, CountedSteps
<1>6. KeyInv(k)'
  BY <1>1, <1>2, <1>4, <1>5 DEF KeyInv, RunSteps
<1>7. QED
  BY <1>1, <1>2, <1>3, <1>4, <1>6, OneKey

LEMMA MarkIneligibleKeeps ==
  ASSUME Issuance!IssuanceAssumption, IssuanceInv, NEW k \in IssuanceKey, Issuance!MarkIneligible(k) PROVE IssuanceInv'
<1>1. /\ work[k] = "refuse" /\ issuance' = [issuance EXCEPT ![k].status = "failed"]
      /\ work' = [work EXCEPT ![k] = "refused"]
      /\ UNCHANGED <<active, request, job, deadLetter, failures, troubles, ineligible>>
  BY DEF Issuance!MarkIneligible
<1>2. /\ issuance'[k].status = "failed" /\ issuance'[k].attempts = issuance[k].attempts /\ work'[k] = "refused"
      /\ \A j \in IssuanceKey \ {k} : issuance'[j] = issuance[j] /\ work'[j] = work[j]
  BY <1>1 DEF IssuanceInv, Issuance!TypeOK
<1>3. Issuance!TypeOK'
  BY <1>1 DEF IssuanceInv, Issuance!TypeOK
<1>4. /\ job[k].state = "active" /\ InQueue(k) /\ AttemptsCounted(k) /\ troubles \in Nat
      /\ k \in ineligible
  BY <1>1, KeyFacts DEF KeyInv, RunSteps
<1>5. InQueue(k)' /\ AttemptsCounted(k)'
  BY <1>1, <1>2, <1>4 DEF InQueue, MarkedLast, AttemptsCounted, RunSteps, CountedSteps
<1>6. KeyInv(k)'
  BY <1>1, <1>2, <1>4, <1>5 DEF KeyInv, RunSteps
<1>7. QED
  BY <1>1, <1>2, <1>3, <1>4, <1>6, OneKey

LEMMA CompleteKeeps ==
  ASSUME Issuance!IssuanceAssumption, IssuanceInv, NEW k \in IssuanceKey, Issuance!Complete(k) PROVE IssuanceInv'
<1>1. /\ work[k] = "refused"
      /\ job' = [job EXCEPT ![k] = Issuance!NoJob] /\ work' = [work EXCEPT ![k] = "none"]
      /\ UNCHANGED <<active, request, issuance, deadLetter, failures, troubles, ineligible>>
  BY DEF Issuance!Complete
<1>2. /\ job'[k] = Issuance!NoJob /\ work'[k] = "none"
      /\ \A j \in IssuanceKey \ {k} : job'[j] = job[j] /\ work'[j] = work[j]
  BY <1>1 DEF IssuanceInv, Issuance!TypeOK
<1>3. Issuance!TypeOK'
  BY <1>1 DEF IssuanceInv, Issuance!TypeOK, Issuance!NoJob, Issuance!IssuanceAssumption
<1>4. /\ job[k].state # "none" /\ k \in ineligible /\ troubles \in Nat
      /\ issuance[k].attempts <= IssuanceAttempts + troubles /\ issuance[k].status # "none"
  BY <1>1, KeyFacts DEF KeyInv, RunSteps
<1>5. KeyInv(k)'
  BY <1>1, <1>2, <1>4 DEF KeyInv, Issuance!NoJob
<1>6. QED
  BY <1>1, <1>2, <1>3, <1>4, <1>5, OneKey

LEMMA MarkLastKeeps ==
  ASSUME Issuance!IssuanceAssumption, IssuanceInv, NEW k \in IssuanceKey, Issuance!MarkFailed(k) PROVE IssuanceInv'
<1>1. /\ work[k] = "mark" /\ issuance' = [issuance EXCEPT ![k].status = "failed"]
      /\ work' = [work EXCEPT ![k] = "marked"]
      /\ UNCHANGED <<active, request, job, deadLetter, failures, troubles, ineligible>>
  BY DEF Issuance!MarkFailed
<1>2. /\ issuance'[k].status = "failed" /\ issuance'[k].attempts = issuance[k].attempts /\ work'[k] = "marked"
      /\ \A j \in IssuanceKey \ {k} : issuance'[j] = issuance[j] /\ work'[j] = work[j]
  BY <1>1 DEF IssuanceInv, Issuance!TypeOK
<1>3. Issuance!TypeOK'
  BY <1>1 DEF IssuanceInv, Issuance!TypeOK
<1>4. /\ job[k].state = "active" /\ InQueue(k) /\ AttemptsCounted(k) /\ troubles \in Nat
      /\ job[k].made = IssuanceAttempts - 1
  BY <1>1, KeyFacts DEF KeyInv, RunSteps
<1>5. InQueue(k)' /\ AttemptsCounted(k)'
  BY <1>1, <1>2, <1>4 DEF InQueue, MarkedLast, AttemptsCounted, RunSteps, CountedSteps
<1>6. KeyInv(k)'
  BY <1>1, <1>2, <1>4, <1>5 DEF KeyInv, RunSteps
<1>7. QED
  BY <1>1, <1>2, <1>3, <1>4, <1>6, OneKey

LEMMA TransferKeeps ==
  ASSUME Issuance!IssuanceAssumption, IssuanceInv, NEW k \in IssuanceKey, Issuance!Transfer(k) PROVE IssuanceInv'
<1>1. /\ work[k] = "transfer"
      /\ UNCHANGED <<active, request, issuance, deadLetter, failures, troubles, ineligible>>
  BY DEF Issuance!Transfer
<1>2. /\ job[k].state = "active" /\ InQueue(k) /\ AttemptsCounted(k) /\ troubles \in Nat
      /\ job[k].made \in Nat /\ job[k].stalls \in Nat /\ issuance[k].attempts \in Nat
      /\ IssuanceAttempts \in Nat /\ job[k].made < IssuanceAttempts /\ issuance[k].status # "none"
      /\ MarkedLast(k)
  BY <1>1, KeyFacts DEF KeyInv, InQueue, RunSteps
<1>3. CASE job[k].made >= IssuanceAttempts - 1
  <2>1. /\ work' = [work EXCEPT ![k] = "mark"] /\ job' = job /\ job[k].made = IssuanceAttempts - 1
    BY <1>2, <1>3 DEF Issuance!Transfer
  <2>2. work'[k] = "mark" /\ \A j \in IssuanceKey \ {k} : work'[j] = work[j]
    BY <2>1 DEF IssuanceInv, Issuance!TypeOK
  <2>3. Issuance!TypeOK'
    BY <1>1, <2>1 DEF IssuanceInv, Issuance!TypeOK
  <2>4. InQueue(k)' /\ AttemptsCounted(k)'
    BY <1>1, <1>2, <2>1, <2>2 DEF InQueue, MarkedLast, AttemptsCounted, RunSteps, CountedSteps
  <2>5. KeyInv(k)'
    BY <1>1, <1>2, <2>1, <2>2, <2>4 DEF KeyInv, RunSteps
  <2>6. QED
    BY <1>1, <1>2, <2>1, <2>2, <2>3, <2>5, OneKey
<1>4. CASE ~(job[k].made >= IssuanceAttempts - 1)
  <2>1. Issuance!Throw(k) /\ job[k].made + 1 < IssuanceAttempts
    BY <1>2, <1>4 DEF Issuance!Transfer
  <2>2. /\ job' \in [IssuanceKey -> [state : {"none", "wait", "active", "failed"}, made : 0..IssuanceAttempts,
                             stalls : 0..(IssuanceStalls + 1)]]
        /\ work' \in [IssuanceKey -> IssuanceSteps]
        /\ \A j \in IssuanceKey \ {k} : job'[j] = job[j] /\ work'[j] = work[j]
        /\ job'[k].made = job[k].made + 1 /\ job'[k].stalls = job[k].stalls
        /\ job'[k].state = "wait" /\ work'[k] = "none"
    BY <1>2, <2>1, AttemptThrown DEF IssuanceInv
  <2>3. Issuance!TypeOK' /\ AttemptsCounted(k)'
    BY <1>1, <1>2, <2>2 DEF AttemptsCounted, RunSteps, CountedSteps, IssuanceInv, Issuance!TypeOK, IssuanceSteps
  <2>4. InQueue(k)'
    BY <1>1, <1>2, <2>1, <2>2 DEF InQueue, MarkedLast
  <2>5. KeyInv(k)'
    BY <1>1, <1>2, <2>2, <2>3, <2>4 DEF KeyInv
  <2>6. QED
    BY <1>1, <1>2, <2>2, <2>3, <2>5, OneKey
<1>5. QED
  BY <1>3, <1>4

\* The last attempt is over: the job is out of attempts.
LEMMA MoveToFailedKeeps ==
  ASSUME Issuance!IssuanceAssumption, IssuanceInv, NEW k \in IssuanceKey, Issuance!MoveToFailed(k) PROVE IssuanceInv'
<1>1. /\ work[k] = "marked" /\ Issuance!Throw(k)
      /\ UNCHANGED <<active, request, issuance, deadLetter, failures, troubles, ineligible>>
  BY DEF Issuance!MoveToFailed
<1>2. /\ job[k].state = "active" /\ InQueue(k) /\ AttemptsCounted(k) /\ troubles \in Nat
      /\ job[k].made \in Nat /\ job[k].stalls \in Nat /\ issuance[k].attempts \in Nat
      /\ IssuanceAttempts \in Nat /\ job[k].made < IssuanceAttempts /\ issuance[k].status # "none"
      /\ MarkedLast(k) /\ job[k].made = IssuanceAttempts - 1
  BY <1>1, KeyFacts DEF KeyInv, InQueue, RunSteps
<1>3. /\ job' \in [IssuanceKey -> [state : {"none", "wait", "active", "failed"}, made : 0..IssuanceAttempts,
                           stalls : 0..(IssuanceStalls + 1)]]
      /\ work' \in [IssuanceKey -> IssuanceSteps]
      /\ \A j \in IssuanceKey \ {k} : job'[j] = job[j] /\ work'[j] = work[j]
      /\ job'[k].made = job[k].made + 1 /\ job'[k].stalls = job[k].stalls
      /\ job[k].made + 1 < IssuanceAttempts => job'[k].state = "wait" /\ work'[k] = "none"
      /\ job[k].made + 1 >= IssuanceAttempts => job'[k].state = "failed" /\ work'[k] = "dlq"
  BY <1>1, <1>2, AttemptThrown DEF IssuanceInv
<1>4. Issuance!TypeOK' /\ AttemptsCounted(k)'
  BY <1>1, <1>2, <1>3 DEF AttemptsCounted, RunSteps, CountedSteps, IssuanceInv, Issuance!TypeOK, IssuanceSteps
<1>5. job'[k].made >= IssuanceAttempts /\ job'[k].state = "failed" /\ work'[k] = "dlq"
  BY <1>2, <1>3
<1>6. GivenUp(k)'
  BY <1>1, <1>2, <1>5 DEF InQueue, GivenUp
<1>7. KeyInv(k)'
  BY <1>1, <1>2, <1>4, <1>5, <1>6 DEF KeyInv
<1>8. QED
  BY <1>1, <1>2, <1>3, <1>4, <1>7, OneKey

\* The steps of the failed handler.
LEMMA AddDeadLetterKeeps ==
  ASSUME Issuance!IssuanceAssumption, IssuanceInv, NEW k \in IssuanceKey, Issuance!AddDeadLetter(k) PROVE IssuanceInv'
<1>1. /\ work[k] = "dlq" /\ deadLetter' = [deadLetter EXCEPT ![k] = @ + 1]
      /\ work' = [work EXCEPT ![k] = "record"]
      /\ UNCHANGED <<active, request, issuance, job, failures, troubles, ineligible>>
  BY DEF Issuance!AddDeadLetter
<1>2. /\ job[k].state = "failed" /\ GivenUp(k) /\ AttemptsCounted(k) /\ troubles \in Nat
      /\ deadLetter[k] = 0
  BY <1>1, KeyFacts DEF KeyInv, GivenUp
<1>3. /\ work'[k] = "record" /\ \A j \in IssuanceKey \ {k} : deadLetter'[j] = deadLetter[j] /\ work'[j] = work[j]
  BY <1>1 DEF IssuanceInv, Issuance!TypeOK
<1>4. Issuance!TypeOK'
  BY <1>1, <1>2 DEF IssuanceInv, Issuance!TypeOK
<1>5. GivenUp(k)' /\ AttemptsCounted(k)'
  BY <1>1, <1>2, <1>3 DEF GivenUp, AttemptsCounted, RunSteps, CountedSteps
<1>6. issuance[k].status # "none"
  BY <1>2 DEF GivenUp
<1>7. KeyInv(k)'
  BY <1>1, <1>2, <1>3, <1>5, <1>6 DEF KeyInv
<1>8. QED
  BY <1>1, <1>2, <1>3, <1>4, <1>7, OneKey

LEMMA RecordFailureKeeps ==
  ASSUME Issuance!IssuanceAssumption, IssuanceInv, NEW k \in IssuanceKey, Issuance!RecordFailure(k) PROVE IssuanceInv'
<1>1. /\ work[k] = "record"
      /\ UNCHANGED <<active, request, issuance, job, deadLetter, ineligible>>
  BY DEF Issuance!RecordFailure
<1>2. /\ job[k].state = "failed" /\ GivenUp(k) /\ AttemptsCounted(k) /\ troubles \in Nat
      /\ issuance[k].status # "none" /\ job[k].stalls \in Nat
  BY <1>1, KeyFacts DEF KeyInv, GivenUp
<1>3. failures[k] \in 0..1
  BY DEF IssuanceInv, Issuance!TypeOK
<1>4. CASE /\ failures' = [failures EXCEPT ![k] = IF @ = 0 THEN 1 ELSE @]
           /\ work' = [work EXCEPT ![k] = "remove"] /\ UNCHANGED troubles
  <2>1. /\ work'[k] = "remove" /\ failures'[k] = 1
        /\ \A j \in IssuanceKey \ {k} : failures'[j] = failures[j] /\ work'[j] = work[j]
    BY <1>3, <1>4 DEF IssuanceInv, Issuance!TypeOK
  <2>2. Issuance!TypeOK'
    BY <1>1, <1>3, <1>4 DEF IssuanceInv, Issuance!TypeOK
  <2>3. GivenUp(k)' /\ AttemptsCounted(k)'
    BY <1>1, <1>2, <1>4, <2>1 DEF GivenUp, AttemptsCounted, RunSteps, CountedSteps
  <2>4. KeyInv(k)'
    BY <1>1, <1>2, <1>4, <2>1, <2>3 DEF KeyInv
  <2>5. QED
    BY <1>1, <1>2, <1>4, <2>1, <2>2, <2>4, OneKey
<1>5. CASE Issuance!Trouble /\ work' = [work EXCEPT ![k] = "none"] /\ UNCHANGED failures
  <2>1. /\ work'[k] = "none" /\ \A j \in IssuanceKey \ {k} : failures'[j] = failures[j] /\ work'[j] = work[j]
    BY <1>5 DEF IssuanceInv, Issuance!TypeOK
  <2>2. troubles' \in 0..IssuanceTroubles /\ troubles' \in Nat /\ troubles' >= troubles
    BY <1>2, <1>5 DEF Issuance!IssuanceAssumption, Issuance!Trouble
  <2>3. Issuance!TypeOK'
    BY <1>1, <1>5, <2>2 DEF IssuanceInv, Issuance!TypeOK
  <2>4. GivenUp(k)'
    BY <1>1, <1>2, <1>5, <2>1 DEF GivenUp
  <2>5. AttemptsCounted(k)'
    BY <1>1, <1>2, <1>5, <2>1, <2>2 DEF AttemptsCounted, RunSteps, CountedSteps
  <2>6. KeyInv(k)'
    BY <1>1, <1>2, <2>1, <2>4, <2>5 DEF KeyInv
  <2>7. QED
    BY <1>1, <1>2, <2>1, <2>2, <2>3, <2>6, OneKey
<1>6. QED
  BY <1>4, <1>5 DEF Issuance!RecordFailure

LEMMA RemoveJobKeeps ==
  ASSUME Issuance!IssuanceAssumption, IssuanceInv, NEW k \in IssuanceKey, Issuance!RemoveJob(k) PROVE IssuanceInv'
<1>1. /\ work[k] = "remove" /\ job' = [job EXCEPT ![k] = Issuance!NoJob] /\ work' = [work EXCEPT ![k] = "none"]
      /\ UNCHANGED <<active, request, issuance, deadLetter, failures, troubles, ineligible>>
  BY DEF Issuance!RemoveJob
<1>2. /\ job[k].state = "failed" /\ GivenUp(k) /\ troubles \in Nat
      /\ issuance[k].attempts <= IssuanceAttempts + troubles
      /\ issuance[k].status # "none" /\ failures[k] = 1
  BY <1>1, KeyFacts DEF KeyInv, GivenUp
<1>3. /\ job'[k] = Issuance!NoJob /\ work'[k] = "none"
      /\ \A j \in IssuanceKey \ {k} : job'[j] = job[j] /\ work'[j] = work[j]
  BY <1>1 DEF IssuanceInv, Issuance!TypeOK
<1>4. Issuance!TypeOK'
  BY <1>1 DEF IssuanceInv, Issuance!TypeOK, Issuance!NoJob, Issuance!IssuanceAssumption
<1>5. KeyInv(k)'
  BY <1>1, <1>2, <1>3 DEF KeyInv, Issuance!NoJob
<1>6. QED
  BY <1>1, <1>2, <1>3, <1>4, <1>5, OneKey

\* The server dies with every request and every handler.
LEMMA IssuanceCrashKeeps == ASSUME Issuance!IssuanceAssumption, IssuanceInv, Issuance!Crash PROVE IssuanceInv'
<1>1. /\ request' = [r \in IssuanceRequest |-> Issuance!Waits] /\ work' = [k \in IssuanceKey |-> "none"]
      /\ job' = [k \in IssuanceKey |->
           IF job[k].state # "active" THEN job[k]
           ELSE [job[k] EXCEPT !.state = IF job[k].stalls < IssuanceStalls THEN "wait" ELSE "failed",
                               !.stalls = @ + 1]]
      /\ troubles < IssuanceTroubles /\ troubles' = troubles + 1
      /\ UNCHANGED <<active, issuance, deadLetter, failures, ineligible>>
  BY DEF Issuance!Crash, Issuance!Trouble
<1>0. /\ troubles < IssuanceTroubles /\ troubles' = troubles + 1
      /\ UNCHANGED <<active, issuance, deadLetter, failures, ineligible>>
  BY <1>1
<1>2. \A k \in IssuanceKey : /\ job[k].state # "active" => job'[k] = job[k]
                             /\ job[k].state = "active" =>
                                  /\ job'[k].made = job[k].made /\ job'[k].stalls = job[k].stalls + 1
                                  /\ job'[k].state = IF job[k].stalls < IssuanceStalls THEN "wait" ELSE "failed"
                                  /\ job'[k] = [state |-> job'[k].state, made |-> job[k].made,
                                                stalls |-> job[k].stalls + 1]
  <2>1. SUFFICES ASSUME NEW k \in IssuanceKey, job[k].state = "active"
                 PROVE  /\ job'[k].made = job[k].made /\ job'[k].stalls = job[k].stalls + 1
                        /\ job'[k].state = IF job[k].stalls < IssuanceStalls THEN "wait" ELSE "failed"
                        /\ job'[k] = [state |-> job'[k].state, made |-> job[k].made,
                                      stalls |-> job[k].stalls + 1]
    BY <1>1
  <2>2. job'[k] = [job[k] EXCEPT !.state = IF job[k].stalls < IssuanceStalls THEN "wait" ELSE "failed",
                                 !.stalls = @ + 1]
    BY <1>1, <2>1
  <2>3. DOMAIN job[k] = {"state", "made", "stalls"}
    BY DEF IssuanceInv, Issuance!TypeOK
  <2>4. DOMAIN job'[k] = {"state", "made", "stalls"}
    BY <2>2, <2>3
  <2>5. QED
    BY <2>2, <2>3, <2>4
<1>3. troubles' \in 0..IssuanceTroubles /\ troubles' \in Nat /\ troubles' >= troubles /\ troubles \in Nat
  BY <1>0 DEF IssuanceInv, Issuance!TypeOK, Issuance!IssuanceAssumption
<1>4. \A k \in IssuanceKey : job'[k] \in [state : {"none", "wait", "active", "failed"}, made : 0..IssuanceAttempts,
                                  stalls : 0..(IssuanceStalls + 1)]
  <2>1. SUFFICES ASSUME NEW k \in IssuanceKey, job[k].state = "active"
                 PROVE  job'[k] \in [state : {"none", "wait", "active", "failed"}, made : 0..IssuanceAttempts,
                                     stalls : 0..(IssuanceStalls + 1)]
    BY <1>2 DEF IssuanceInv, Issuance!TypeOK
  <2>2. /\ job[k].stalls + 1 \in 0..(IssuanceStalls + 1) /\ job[k].made \in 0..IssuanceAttempts
    <3>1. InQueue(k)
      BY <2>1, KeyFacts DEF KeyInv
    <3>2. job[k].stalls \in Nat /\ job[k].stalls <= IssuanceStalls /\ IssuanceStalls \in Nat
      BY <3>1, KeyTypes DEF InQueue, IssuanceInv
    <3>3. job[k].made \in 0..IssuanceAttempts
      BY DEF IssuanceInv, Issuance!TypeOK
    <3>4. QED
      BY <3>2, <3>3
  <2>3. PICK s \in {"wait", "failed"} :
           job'[k] = [state |-> s, made |-> job[k].made, stalls |-> job[k].stalls + 1]
    BY <1>2, <2>1
  <2>4. QED
    BY <2>2, <2>3
<1>5. Issuance!TypeOK'
  <2>1. Issuance!Waits \in [step : {"idle", "create", "enqueue"}, key : IssuanceKey \cup {NoKey}]
    BY DEF Issuance!Waits
  <2>2. job' \in [IssuanceKey -> [state : {"none", "wait", "active", "failed"}, made : 0..IssuanceAttempts,
                          stalls : 0..(IssuanceStalls + 1)]]
    BY <1>1, <1>4
  <2>3. QED
    BY <1>1, <1>3, <2>1, <2>2 DEF IssuanceInv, Issuance!TypeOK
<1>6. RequestsInv'
  BY <1>1 DEF RequestsInv, Issuance!Waits
<1>7. ASSUME NEW k \in IssuanceKey PROVE KeyInv(k)'
  <2>1. /\ KeyInv(k) /\ work'[k] = "none" /\ IssuanceAttempts \in Nat /\ issuance[k].attempts \in Nat
        /\ job[k].stalls \in Nat /\ job[k].made \in Nat
    BY <1>1, KeyFacts
  <2>2. CASE job[k].state = "none"
    <3>1. issuance[k].attempts <= IssuanceAttempts + troubles'
      BY <1>3, <2>1, <2>2 DEF KeyInv
    <3>2. KeyAlone(k) => KeyAlone(k)'
      BY <1>0, <1>2, <2>1, <2>2 DEF KeyAlone
    <3>3. QED
      BY <1>0, <1>2, <2>1, <2>2, <3>1, <3>2 DEF KeyInv
  <2>3. CASE job[k].state \in {"wait", "failed"}
    <3>1. job'[k] = job[k] /\ issuance[k].status # "none"
      <4>1. job[k].state # "none" /\ job[k].state # "active" /\ Issuance!NoJob.state = "none"
        BY <2>3 DEF Issuance!NoJob
      <4>2. issuance[k].status # "none"
        BY <2>1, <4>1 DEF KeyInv, KeyAlone
      <4>3. QED
        BY <1>2, <4>1, <4>2
    <3>2. AttemptsCounted(k)'
      BY <1>0, <1>3, <2>1, <2>3, <3>1 DEF KeyInv, AttemptsCounted, RunSteps, CountedSteps
    <3>3. (InQueue(k) => InQueue(k)') /\ (GivenUp(k) => GivenUp(k)')
      <4>1. work[k] # "marked"
        BY <2>1, <2>3 DEF KeyInv
      <4>2. QED
        BY <1>0, <2>1, <3>1, <4>1 DEF InQueue, MarkedLast, GivenUp
    <3>4. QED
      BY <1>0, <2>1, <2>3, <3>1, <3>2, <3>3 DEF KeyInv
  <2>4. CASE job[k].state = "active"
    <3>1. /\ job'[k].made = job[k].made /\ job'[k].stalls = job[k].stalls + 1
          /\ job'[k].state = IF job[k].stalls < IssuanceStalls THEN "wait" ELSE "failed"
      BY <1>2, <2>4
    <3>2. InQueue(k) /\ AttemptsCounted(k)
      BY <2>1, <2>4 DEF KeyInv
    <3>3. AttemptsCounted(k)'
      BY <1>0, <1>3, <2>1, <3>1, <3>2 DEF AttemptsCounted, RunSteps, CountedSteps
    <3>4. CASE job[k].stalls < IssuanceStalls
      <4>1. InQueue(k)'
        BY <1>0, <2>1, <3>1, <3>2, <3>4 DEF InQueue, MarkedLast, Issuance!IssuanceAssumption
      <4>2. QED
        BY <1>0, <2>1, <3>1, <3>2, <3>3, <3>4, <4>1 DEF KeyInv, InQueue
    <3>5. CASE ~(job[k].stalls < IssuanceStalls)
      <4>1. GivenUp(k)'
        BY <1>0, <2>1, <3>2 DEF GivenUp, InQueue
      <4>2. QED
        BY <1>0, <2>1, <3>1, <3>2, <3>3, <3>5, <4>1 DEF KeyInv, InQueue
    <3>6. QED
      BY <3>4, <3>5
  <2>5. QED
    BY <2>2, <2>3, <2>4, KeyTypes DEF IssuanceInv
<1>8. QED
  BY <1>5, <1>6, <1>7 DEF IssuanceInv

LEMMA IssuanceStutters == ASSUME IssuanceInv, UNCHANGED issuanceVars PROVE IssuanceInv'
BY DEF issuanceVars, IssuanceInv, Issuance!TypeOK, RequestsInv, KeyInv, KeyAlone, InQueue, MarkedLast,
   GivenUp,
       AttemptsCounted

LEMMA IssuanceNextKeeps == ASSUME Issuance!IssuanceAssumption, IssuanceInv, Issuance!Next PROVE IssuanceInv'
<1>1. ASSUME NEW k \in IssuanceKey, Issuance!Work(k) \/ Issuance!StatementFails(k) PROVE IssuanceInv'
  BY <1>1, TakeKeeps, IncrementKeeps, CheckCampaignKeeps, MarkIneligibleKeeps, CompleteKeeps, TransferKeeps,
     MarkLastKeeps, MoveToFailedKeeps,
     AddDeadLetterKeeps, RecordFailureKeeps, RemoveJobKeeps, StatementFailsKeeps DEF Issuance!Work
<1>2. ASSUME NEW r \in IssuanceRequest, Issuance!Serve(r) \/ \E k \in IssuanceKey : Issuance!LookUp(r, k) PROVE IssuanceInv'
  BY <1>2, LookUpKeeps, CreateKeeps, EnqueueKeeps DEF Issuance!Serve
<1>3. QED
  BY <1>1, <1>2, CampaignEndsKeeps, IssuanceCrashKeeps DEF Issuance!Next

LEMMA IssuanceStep ==
  ASSUME Issuance!IssuanceAssumption, IssuanceInv, [Issuance!Next]_issuanceVars
  PROVE  IssuanceInv'
BY IssuanceNextKeeps, IssuanceStutters

LEMMA IssuanceHolds ==
  ASSUME Issuance!IssuanceAssumption, IssuanceInv PROVE Issuance!TypeOK /\ Issuance!JobHasRow /\ Issuance!FailedIsFinal /\ Issuance!FailureNotLost
<1>1. \A k \in IssuanceKey : KeyInv(k) /\ job[k].state \in {"none", "wait", "active", "failed"}
                     /\ issuance[k].status \in {"none", "pending", "failed"}
  BY KeyTypes DEF IssuanceInv
<1>2. Issuance!JobHasRow
  BY <1>1 DEF Issuance!JobHasRow, KeyInv, KeyAlone, Issuance!NoJob
<1>3. Issuance!FailedIsFinal
  BY <1>1 DEF Issuance!FailedIsFinal, KeyInv, InQueue, MarkedLast
<1>4. Issuance!FailureNotLost
  BY <1>1 DEF Issuance!FailureNotLost, KeyInv
<1>5. QED
  BY <1>2, <1>3, <1>4 DEF IssuanceInv

-----------------------------------------------------------------------------
(* Webhooks *)

\* Finite sets and their sizes are the library's.
LEMMA WebhooksSizes ==
  /\ \A S : Webhooks!IsFiniteSet(S) <=> IsFiniteSet(S)
  /\ \A S : Webhooks!Cardinality(S) = Cardinality(S)
BY Zenon DEF Webhooks!IsFiniteSet, Webhooks!Cardinality, IsFiniteSet, Cardinality

Senders(d) == {s \in WebhookServer : sending[s][d] # Webhooks!NotSending}

\* The POSTs that the servers make of a delivery until its row has attempt a.
Rounds(a) == (a - 2) * Webhooks!Cardinality(WebhookServer)

\* The row of a delivery, ...
DeliveryRowInv(d) ==
  /\ delivery[d].status = "none" => delivery[d] = Webhooks!NoDelivery
  /\ delivery[d].status = "pending" => delivery[d].attempt = 1 /\ delivery[d].retry = "never"
  /\ delivery[d].status \in {"success", "failed"} =>
       /\ delivery[d].attempt >= 2
       /\ delivery[d].attempt > 2 => delivery[d].attempt <= WebhookAttempts
  /\ delivery[d].retry # "never" => delivery[d].status = "failed"

\* ... what a server that sends it has read: the row as it still is, unless another
\* server has stored the outcome of the same attempt, ...
SenderInv(s, d) ==
  /\ sending[s][d].step = "none" => sending[s][d] = Webhooks!NotSending
  /\ sending[s][d].step = "create" =>
       /\ posted[d] = 0 /\ delivery[d] = Webhooks!NoDelivery
       /\ \A t \in WebhookServer \ {s} : sending[t][d] = Webhooks!NotSending
  /\ sending[s][d].step \in {"post", "success", "failed"} =>
       /\ posted[d] > 0 /\ sending[s][d].attempt >= 1
       /\ \/ delivery[d] = Webhooks!NoDelivery
          \/ delivery[d].status = "pending" /\ sending[s][d].attempt = 1
          \/ /\ delivery[d].status = "failed" /\ delivery[d].retry = "due"
             /\ delivery[d].attempt = sending[s][d].attempt /\ sending[s][d].attempt < WebhookAttempts
          \/ /\ delivery[d].status \in {"success", "failed"} /\ delivery[d].retry # "due"
             /\ delivery[d].attempt = sending[s][d].attempt + 1

\* ... how often it was POSTed: while a row is due, once by each server that sends it,
\* beyond what its attempt accounts for, ...
PostedInv(d) ==
  /\ posted[d] = 0 => delivery[d] = Webhooks!NoDelivery /\ accepted[d] = 0
  /\ delivery[d].status = "none" => posted[d] <= 1 + Webhooks!Repeats * Webhooks!Cardinality(WebhookServer) + upsets
  /\ delivery[d].status = "pending" => posted[d] = 1
  /\ delivery[d].status \in {"success", "failed"} =>
       IF delivery[d].retry = "due"
       THEN posted[d] <= 1 + Rounds(delivery[d].attempt) + upsets + Webhooks!Cardinality(Senders(d))
       ELSE posted[d] <= 1 + Rounds(delivery[d].attempt) + upsets

\* ... and, when no two servers sent it at once and no outcome was lost, how often it
\* was accepted.
CleanInv(d) ==
  d \notin shaky =>
    /\ \A s, t \in Senders(d) : s = t
    /\ accepted[d] <= 1
    /\ accepted[d] = 1 =>
         /\ \A s \in WebhookServer : sending[s][d].step \in {"none", "success"}
         /\ delivery[d].status \in {"success", "none"} \/ Senders(d) # {}
    /\ delivery[d].status = "pending" =>
         \E s \in WebhookServer : sending[s][d].step \in {"post", "success", "failed"}

DeliveryInv(d) == DeliveryRowInv(d) /\ (\A s \in WebhookServer : SenderInv(s, d)) /\ PostedInv(d) /\ CleanInv(d)

WebhooksInv == Webhooks!TypeOK /\ \A d \in WebhookDelivery : DeliveryInv(d)

\* Numbers.
LEMMA RoundsGrow ==
  ASSUME Webhooks!WebhooksAssumption, NEW a \in Nat, a >= 2
  PROVE  /\ Webhooks!Cardinality(WebhookServer) \in Nat /\ Rounds(a) \in Nat /\ Rounds(2) = 0
         /\ Rounds(a + 1) = Rounds(a) + Webhooks!Cardinality(WebhookServer)
         /\ Webhooks!Repeats \in Nat /\ Webhooks!Repeats * Webhooks!Cardinality(WebhookServer) \in Nat
         /\ a = 2 \/ a <= WebhookAttempts => Rounds(a) <= Webhooks!Repeats * Webhooks!Cardinality(WebhookServer)
         /\ a < WebhookAttempts => Rounds(a) + Webhooks!Cardinality(WebhookServer) <= Webhooks!Repeats * Webhooks!Cardinality(WebhookServer)
<1> DEFINE n == Webhooks!Cardinality(WebhookServer)
<1>1. n \in Nat /\ WebhookAttempts \in Nat
  BY FS_CardinalityType, WebhooksSizes DEF Webhooks!WebhooksAssumption
<1> HIDE DEF n
<1>2. \A i, j \in Nat : i <= j => i * n \in Nat /\ i * n <= j * n /\ (i + 1) * n = i * n + n
  BY <1>1
<1>3. 0 * n = 0
  BY <1>1
<1>4. PICK i \in Nat : a = i + 2
  BY DEF Webhooks!WebhooksAssumption
<1>5. Rounds(a) = i * n /\ Rounds(2) = 0 * n /\ Rounds(a + 1) = (i + 1) * n
  <2>1. a - 2 = i /\ 2 - 2 = 0 /\ (a + 1) - 2 = i + 1
    BY <1>4
  <2>2. QED
    BY <2>1 DEF Rounds, n
<1>6. Webhooks!Repeats \in Nat /\ (i = 0 \/ i + 2 <= WebhookAttempts => i <= Webhooks!Repeats)
      /\ (i + 2 < WebhookAttempts => i + 1 <= Webhooks!Repeats)
  BY <1>1 DEF Webhooks!Repeats
<1>7. Webhooks!Repeats * n \in Nat /\ (i <= Webhooks!Repeats => i * n <= Webhooks!Repeats * n)
      /\ (i + 1 <= Webhooks!Repeats => (i + 1) * n <= Webhooks!Repeats * n)
  BY <1>2, <1>6
<1>8. i * n \in Nat /\ (i + 1) * n = i * n + n
  BY <1>2
<1>9. QED
  BY <1>1, <1>3, <1>4, <1>5, <1>6, <1>7, <1>8 DEF n

LEMMA SendersCounted ==
  ASSUME Webhooks!WebhooksAssumption, NEW S, S \subseteq WebhookServer
  PROVE  /\ Webhooks!Cardinality(S) \in Nat /\ Webhooks!Cardinality(S) <= Webhooks!Cardinality(WebhookServer)
         /\ Webhooks!Cardinality(WebhookServer) \in Nat
         /\ \A s \in WebhookServer \ S : Webhooks!Cardinality(S \cup {s}) = Webhooks!Cardinality(S) + 1
         /\ \A s \in S : Webhooks!Cardinality(S) = Webhooks!Cardinality(S \ {s}) + 1
BY PartCounted, WebhooksSizes DEF Webhooks!WebhooksAssumption

LEMMA WebhooksInit == ASSUME Webhooks!WebhooksAssumption, Webhooks!Init PROVE WebhooksInv
<1>1. Webhooks!NoDelivery \in [status : {"none", "pending", "success", "failed"},
                      attempt : 0..(WebhookAttempts + 1), retry : {"never", "later", "due"}]
  BY DEF Webhooks!WebhooksAssumption, Webhooks!NoDelivery
<1>2. Webhooks!NotSending \in [step : {"none", "create", "post", "success", "failed"},
                      attempt : 0..WebhookAttempts, retry : BOOLEAN]
  BY DEF Webhooks!WebhooksAssumption, Webhooks!NotSending
<1>3. Webhooks!TypeOK
  <2>1. upsets \in 0..WebhookUpsets
    BY DEF Webhooks!WebhooksAssumption, Webhooks!Init
  <2>2. QED
    BY <1>1, <1>2, <2>1 DEF Webhooks!Init, Webhooks!TypeOK
<1>4. ASSUME NEW d \in WebhookDelivery PROVE DeliveryInv(d)
  <2>1. /\ delivery[d] = Webhooks!NoDelivery /\ delivery[d].status = "none" /\ delivery[d].retry = "never"
        /\ posted[d] = 0 /\ accepted[d] = 0 /\ upsets = 0
        /\ \A s \in WebhookServer : sending[s][d] = Webhooks!NotSending /\ sending[s][d].step = "none"
    BY DEF Webhooks!Init, Webhooks!NoDelivery, Webhooks!NotSending
  <2>2. Senders(d) = {}
    BY <2>1 DEF Senders
  <2>3. Webhooks!Repeats * Webhooks!Cardinality(WebhookServer) \in Nat
    BY RoundsGrow
  <2>4. PostedInv(d)
    BY <2>1, <2>3 DEF PostedInv
  <2>5. DeliveryRowInv(d) /\ (\A s \in WebhookServer : SenderInv(s, d)) /\ CleanInv(d)
    BY <2>1, <2>2 DEF DeliveryRowInv, SenderInv, CleanInv
  <2>6. QED
    BY <2>4, <2>5 DEF DeliveryInv
<1>5. QED
  BY <1>3, <1>4 DEF WebhooksInv

\* The facts about one delivery that the steps use.
LEMMA DeliveryTypes ==
  ASSUME Webhooks!WebhooksAssumption, Webhooks!TypeOK, NEW d \in WebhookDelivery
  PROVE  /\ WebhookAttempts \in Nat /\ WebhookAttempts > 0 /\ upsets \in Nat
         /\ posted[d] \in Nat /\ accepted[d] \in Nat
         /\ delivery[d].attempt \in Nat
         /\ delivery[d].status \in {"none", "pending", "success", "failed"}
         /\ delivery[d].retry \in {"never", "later", "due"}
         /\ \A s \in WebhookServer : /\ sending[s][d].attempt \in 0..WebhookAttempts
                                     /\ sending[s][d].step \in {"none", "create", "post", "success", "failed"}
BY DEF Webhooks!WebhooksAssumption, Webhooks!TypeOK

\* A delivery that a step leaves alone.
LEMMA DeliveryUntouched ==
  ASSUME Webhooks!WebhooksAssumption, WebhooksInv, NEW d \in WebhookDelivery,
         delivery'[d] = delivery[d], posted'[d] = posted[d], accepted'[d] = accepted[d],
         \A s \in WebhookServer : sending'[s][d] = sending[s][d],
         d \in shaky => d \in shaky', upsets' \in Nat, upsets' >= upsets
  PROVE  DeliveryInv(d)'
<1>1. DeliveryInv(d) /\ upsets \in Nat /\ posted[d] \in Nat /\ delivery[d].attempt \in Nat
  BY DeliveryTypes DEF WebhooksInv
<1>2. Senders(d)' = Senders(d)
  BY DEF Senders
<1>3. DeliveryRowInv(d)' /\ \A s \in WebhookServer : SenderInv(s, d)'
  BY <1>1 DEF DeliveryInv, DeliveryRowInv, SenderInv
<1>4. PostedInv(d)'
  <2>1. /\ Webhooks!Cardinality(Senders(d)) \in Nat /\ Webhooks!Repeats * Webhooks!Cardinality(WebhookServer) \in Nat
        /\ delivery[d].status \in {"success", "failed"} => Rounds(delivery[d].attempt) \in Nat
    <3>1. Senders(d) \subseteq WebhookServer
      BY DEF Senders
    <3>2. Webhooks!Cardinality(Senders(d)) \in Nat
      BY <3>1, SendersCounted
    <3>3. 2 \in Nat /\ 2 >= 2
      OBVIOUS
    <3>4. Webhooks!Repeats * Webhooks!Cardinality(WebhookServer) \in Nat
      BY <3>3, RoundsGrow
    <3>5. delivery[d].status \in {"success", "failed"} => delivery[d].attempt >= 2
      BY <1>1 DEF DeliveryInv, DeliveryRowInv
    <3>6. QED
      BY <1>1, <3>2, <3>4, <3>5, RoundsGrow
  <2>2. PostedInv(d)
    BY <1>1 DEF DeliveryInv
  <2>3. posted'[d] = 0 => delivery'[d] = Webhooks!NoDelivery /\ accepted'[d] = 0
    BY <2>2 DEF PostedInv
  <2>4. delivery'[d].status = "none" => posted'[d] <= 1 + Webhooks!Repeats * Webhooks!Cardinality(WebhookServer) + upsets'
    BY <1>1, <2>1, <2>2 DEF PostedInv
  <2>5. delivery'[d].status = "pending" => posted'[d] = 1
    BY <2>2 DEF PostedInv
  <2>6. delivery'[d].status \in {"success", "failed"} =>
          IF delivery'[d].retry = "due"
          THEN posted'[d] <= 1 + Rounds(delivery'[d].attempt) + upsets' + Webhooks!Cardinality(Senders(d)')
          ELSE posted'[d] <= 1 + Rounds(delivery'[d].attempt) + upsets'
    BY <1>1, <1>2, <2>1, <2>2 DEF PostedInv
  <2>7. QED
    BY <2>3, <2>4, <2>5, <2>6 DEF PostedInv, Rounds, Webhooks!Repeats
<1>5. CleanInv(d)'
  BY <1>1, <1>2 DEF DeliveryInv, CleanInv
<1>6. QED
  BY <1>3, <1>4, <1>5 DEF DeliveryInv


\* What a server does about one delivery.
Sends == [step : {"none", "create", "post", "success", "failed"}, attempt : 0..WebhookAttempts,
          retry : BOOLEAN]

LEMMA OneSends ==
  ASSUME Webhooks!WebhooksAssumption, Webhooks!TypeOK, NEW s \in WebhookServer, NEW d \in WebhookDelivery, NEW v \in Sends,
         sending' = [sending EXCEPT ![s][d] = v]
  PROVE  /\ sending' \in [WebhookServer -> [WebhookDelivery -> Sends]]
         /\ sending'[s][d] = v
         /\ \A t \in WebhookServer, e \in WebhookDelivery : t # s \/ e # d => sending'[t][e] = sending[t][e]
BY DEF Webhooks!TypeOK, Sends

LEMMA StepSends ==
  ASSUME Webhooks!WebhooksAssumption, Webhooks!TypeOK, NEW s \in WebhookServer, NEW d \in WebhookDelivery,
         NEW step \in {"none", "create", "post", "success", "failed"}, Webhooks!Step(s, d, step)
  PROVE  /\ sending' \in [WebhookServer -> [WebhookDelivery -> Sends]]
         /\ sending'[s][d].step = step /\ sending'[s][d].attempt = sending[s][d].attempt
         /\ step # "none" => sending'[s][d] # Webhooks!NotSending
         /\ \A t \in WebhookServer, e \in WebhookDelivery : t # s \/ e # d => sending'[t][e] = sending[t][e]
<1> DEFINE v == [sending[s][d] EXCEPT !.step = step]
<1>1. sending[s][d] \in Sends
  BY DEF Webhooks!TypeOK, Sends
<1>2. v \in Sends /\ v.step = step /\ v.attempt = sending[s][d].attempt
  BY <1>1 DEF Sends
<1>3. sending' = [sending EXCEPT ![s][d] = v]
  BY <1>1 DEF Webhooks!Step
<1>4. step # "none" => v # Webhooks!NotSending
  BY <1>2 DEF Webhooks!NotSending
<1> HIDE DEF v
<1>5. QED
  BY <1>2, <1>3, <1>4 DEF Webhooks!TypeOK, Sends

LEMMA DoneSends ==
  ASSUME Webhooks!WebhooksAssumption, Webhooks!TypeOK, NEW s \in WebhookServer, NEW d \in WebhookDelivery, Webhooks!Done(s, d)
  PROVE  /\ sending' \in [WebhookServer -> [WebhookDelivery -> Sends]]
         /\ sending'[s][d] = Webhooks!NotSending
         /\ \A t \in WebhookServer, e \in WebhookDelivery : t # s \/ e # d => sending'[t][e] = sending[t][e]
<1>1. Webhooks!NotSending \in Sends
  BY DEF Webhooks!NotSending, Sends, Webhooks!WebhooksAssumption
<1>2. QED
  BY <1>1 DEF Webhooks!Done, Webhooks!TypeOK, Sends

\* The step of one delivery: the others keep their part of the invariant.
LEMMA OtherDeliveriesUntouched ==
  ASSUME Webhooks!WebhooksAssumption, WebhooksInv, NEW d \in WebhookDelivery,
         \A e \in WebhookDelivery \ {d} :
           /\ delivery'[e] = delivery[e] /\ posted'[e] = posted[e] /\ accepted'[e] = accepted[e]
           /\ \A s \in WebhookServer : sending'[s][e] = sending[s][e],
         shaky \subseteq shaky', upsets' \in Nat, upsets' >= upsets,
         Webhooks!TypeOK', DeliveryInv(d)'
  PROVE  WebhooksInv'
<1>1. ASSUME NEW e \in WebhookDelivery PROVE DeliveryInv(e)'
  <2>1. CASE e = d
    BY <2>1
  <2>2. CASE e # d
    BY <2>2, DeliveryUntouched
  <2>3. QED
    BY <2>1, <2>2
<1>2. QED
  BY <1>1 DEF WebhooksInv

LEMMA SelectKeeps ==
  ASSUME Webhooks!WebhooksAssumption, WebhooksInv, NEW s \in WebhookServer, NEW d \in WebhookDelivery, Webhooks!Select(s, d)
  PROVE  WebhooksInv'
<1> USE DEF Webhooks!Select
<1>1. Webhooks!TypeOK /\ DeliveryInv(d)
  BY DEF WebhooksInv
<1>2. /\ sending' \in [WebhookServer -> [WebhookDelivery -> Sends]]
      /\ sending'[s][d].step = "create" /\ sending'[s][d] # Webhooks!NotSending
      /\ \A t \in WebhookServer, e \in WebhookDelivery : t # s \/ e # d => sending'[t][e] = sending[t][e]
  BY <1>1, StepSends
<1>3. Webhooks!TypeOK'
  BY <1>1, <1>2 DEF Webhooks!TypeOK, Sends
<1>4. \A t \in WebhookServer \ {s} : sending'[t][d] = Webhooks!NotSending /\ sending'[t][d].step = "none"
  BY <1>2 DEF Webhooks!NotSending
<1>5. /\ delivery'[d] = Webhooks!NoDelivery /\ delivery'[d].status = "none" /\ delivery'[d].retry = "never"
      /\ posted'[d] = 0 /\ accepted'[d] = 0 /\ upsets' = upsets /\ upsets \in Nat
  BY <1>1, DeliveryTypes DEF Webhooks!NoDelivery, DeliveryInv, PostedInv
<1>6. \A t \in WebhookServer : SenderInv(t, d)'
  BY <1>2, <1>4, <1>5 DEF SenderInv
<1>7. PostedInv(d)'
  <2>1. Webhooks!Repeats * Webhooks!Cardinality(WebhookServer) \in Nat
    BY RoundsGrow
  <2>2. QED
    BY <1>5, <2>1 DEF PostedInv, Webhooks!Repeats
<1>8. CleanInv(d)'
  BY <1>2, <1>4, <1>5 DEF CleanInv, Senders
<1>9. DeliveryInv(d)'
  BY <1>5, <1>6, <1>7, <1>8 DEF DeliveryInv, DeliveryRowInv
<1>10. QED
  BY <1>2, <1>3, <1>5, <1>9, OtherDeliveriesUntouched

LEMMA CreateDeliveryKeeps ==
  ASSUME Webhooks!WebhooksAssumption, WebhooksInv, NEW s \in WebhookServer, NEW d \in WebhookDelivery,
         Webhooks!CreateDelivery(s, d)
  PROVE  WebhooksInv'
<1>1. Webhooks!TypeOK /\ DeliveryInv(d) /\ sending[s][d].step = "create"
  BY DEF WebhooksInv, Webhooks!CreateDelivery
<1>2. /\ posted[d] = 0 /\ delivery[d] = Webhooks!NoDelivery /\ accepted[d] = 0
      /\ \A t \in WebhookServer \ {s} : sending[t][d] = Webhooks!NotSending
  BY <1>1 DEF DeliveryInv, SenderInv, PostedInv
<1>3. UNCHANGED <<webhook, accepted, shaky, upsets>> /\ upsets \in Nat
  BY <1>1, DeliveryTypes DEF Webhooks!CreateDelivery
<1>4. Webhooks!Repeats * Webhooks!Cardinality(WebhookServer) \in Nat
  BY RoundsGrow
<1>5. CASE webhook = "deleted"
  <2>1. Webhooks!Done(s, d) /\ UNCHANGED <<delivery, posted>>
    BY <1>5 DEF Webhooks!CreateDelivery
  <2>2. /\ sending' \in [WebhookServer -> [WebhookDelivery -> Sends]]
        /\ sending'[s][d] = Webhooks!NotSending
        /\ \A t \in WebhookServer, e \in WebhookDelivery : t # s \/ e # d => sending'[t][e] = sending[t][e]
    BY <1>1, <2>1, DoneSends
  <2>3. Webhooks!TypeOK'
    BY <1>1, <1>3, <2>1, <2>2 DEF Webhooks!TypeOK, Sends
  <2>4. \A t \in WebhookServer : sending'[t][d] = Webhooks!NotSending /\ sending'[t][d].step = "none"
    BY <1>2, <2>2 DEF Webhooks!NotSending
  <2>5. /\ delivery'[d] = Webhooks!NoDelivery /\ delivery'[d].status = "none" /\ delivery'[d].retry = "never"
        /\ posted'[d] = 0 /\ accepted'[d] = 0 /\ upsets' = upsets
    BY <1>2, <1>3, <2>1 DEF Webhooks!NoDelivery
  <2>6. PostedInv(d)'
    BY <1>3, <1>4, <2>5 DEF PostedInv, Webhooks!Repeats
  <2>7. DeliveryInv(d)'
    BY <2>4, <2>5, <2>6 DEF DeliveryInv, DeliveryRowInv, SenderInv, CleanInv, Senders
  <2>8. QED
    BY <1>3, <2>1, <2>2, <2>3, <2>7, OtherDeliveriesUntouched
<1>6. CASE webhook # "deleted"
  <2> DEFINE row == [status |-> "pending", attempt |-> 1, retry |-> "never"]
             v == [step |-> "post", attempt |-> 1, retry |-> FALSE]
  <2>1. /\ delivery' = [delivery EXCEPT ![d] = row] /\ posted' = [posted EXCEPT ![d] = @ + 1]
        /\ sending' = [sending EXCEPT ![s][d] = v]
    BY <1>6 DEF Webhooks!CreateDelivery
  <2>2. v \in Sends /\ v.step = "post" /\ v.attempt = 1
    BY DEF Sends, Webhooks!WebhooksAssumption
  <2> HIDE DEF v
  <2>3. /\ sending' \in [WebhookServer -> [WebhookDelivery -> Sends]]
        /\ sending'[s][d] = v
        /\ \A t \in WebhookServer, e \in WebhookDelivery : t # s \/ e # d => sending'[t][e] = sending[t][e]
    BY <1>1, <2>1, <2>2 DEF Webhooks!TypeOK, Sends
  <2>4. /\ delivery'[d] = row /\ posted'[d] = 1
        /\ \A e \in WebhookDelivery \ {d} : delivery'[e] = delivery[e] /\ posted'[e] = posted[e]
    BY <1>1, <1>2, <2>1 DEF Webhooks!TypeOK
  <2>5. delivery' \in [WebhookDelivery -> [status : {"none", "pending", "success", "failed"},
                         attempt : 0..(WebhookAttempts + 1), retry : {"never", "later", "due"}]]
    <3>1. row \in [status : {"none", "pending", "success", "failed"},
                   attempt : 0..(WebhookAttempts + 1), retry : {"never", "later", "due"}]
      BY DEF Webhooks!WebhooksAssumption
    <3> HIDE DEF row
    <3>2. QED
      BY <1>1, <2>1, <3>1 DEF Webhooks!TypeOK
  <2>6. posted' \in [WebhookDelivery -> Nat]
    BY <1>1, <2>1 DEF Webhooks!TypeOK
  <2>7. Webhooks!TypeOK'
    BY <1>1, <1>3, <2>3, <2>5, <2>6 DEF Webhooks!TypeOK, Sends
  <2>8. \A t \in WebhookServer \ {s} : sending'[t][d] = Webhooks!NotSending /\ sending'[t][d].step = "none"
    BY <1>2, <2>3 DEF Webhooks!NotSending
  <2>9. DeliveryRowInv(d)' /\ PostedInv(d)'
    BY <2>4 DEF DeliveryRowInv, PostedInv
  <2>10. \A t \in WebhookServer : SenderInv(t, d)'
    BY <2>2, <2>3, <2>4, <2>8 DEF SenderInv
  <2>11. CleanInv(d)'
    BY <1>2, <1>3, <2>2, <2>3, <2>8 DEF CleanInv, Senders
  <2>12. DeliveryInv(d)'
    BY <2>9, <2>10, <2>11 DEF DeliveryInv
  <2>13. QED
    BY <1>3, <2>3, <2>4, <2>7, <2>12, OtherDeliveriesUntouched
<1>7. QED
  BY <1>5, <1>6

LEMMA AnswerKeeps ==
  ASSUME Webhooks!WebhooksAssumption, WebhooksInv, NEW s \in WebhookServer, NEW d \in WebhookDelivery, Webhooks!Answer(s, d)
  PROVE  WebhooksInv'
<1>1. Webhooks!TypeOK /\ DeliveryInv(d) /\ SenderInv(s, d) /\ sending[s][d].step = "post"
  BY DEF WebhooksInv, DeliveryInv, Webhooks!Answer
<1>2. UNCHANGED <<webhook, delivery, posted, upsets>> /\ upsets \in Nat
  BY <1>1, DeliveryTypes DEF Webhooks!Answer
<1>3. PICK step \in {"success", "failed"} :
        /\ Webhooks!Step(s, d, step)
        /\ \/ /\ step = "success" /\ accepted' = [accepted EXCEPT ![d] = @ + 1] /\ shaky' = shaky
           \/ step = "failed" /\ accepted' = accepted /\ shaky' = shaky
           \/ /\ step = "failed" /\ accepted' = [accepted EXCEPT ![d] = @ + 1]
              /\ shaky' = shaky \cup {d}
  BY DEF Webhooks!Answer
<1>4. /\ sending' \in [WebhookServer -> [WebhookDelivery -> Sends]]
      /\ sending'[s][d].step = step /\ sending'[s][d].attempt = sending[s][d].attempt
      /\ sending'[s][d] # Webhooks!NotSending
      /\ \A t \in WebhookServer, e \in WebhookDelivery : t # s \/ e # d => sending'[t][e] = sending[t][e]
  BY <1>1, <1>3, StepSends
<1>5. /\ accepted' \in [WebhookDelivery -> Nat] /\ shaky' \subseteq WebhookDelivery /\ shaky \subseteq shaky'
      /\ \A e \in WebhookDelivery \ {d} : accepted'[e] = accepted[e]
  BY <1>1, <1>3, SMTT(60) DEF Webhooks!TypeOK
<1>6. Webhooks!TypeOK'
  BY <1>1, <1>2, <1>4, <1>5 DEF Webhooks!TypeOK, Sends
<1>7. sending[s][d] # Webhooks!NotSending /\ posted[d] > 0
  BY <1>1 DEF Webhooks!NotSending, SenderInv
<1>8. Senders(d)' = Senders(d)
  BY <1>4, <1>7 DEF Senders
<1>9. ASSUME NEW t \in WebhookServer PROVE SenderInv(t, d)'
  <2>1. SenderInv(t, d)
    BY <1>1 DEF DeliveryInv
  <2>2. CASE t = s
    BY <1>1, <1>2, <1>3, <1>4, <2>2 DEF SenderInv
  <2>3. CASE t # s
    <3>1. sending[t][d].step # "create"
      BY <1>7, <2>1 DEF SenderInv
    <3>2. QED
      BY <1>2, <1>4, <2>1, <2>3, <3>1 DEF SenderInv
  <2>4. QED
    BY <2>2, <2>3
<1>10. DeliveryRowInv(d)' /\ PostedInv(d)'
  BY <1>1, <1>2, <1>7, <1>8 DEF DeliveryInv, DeliveryRowInv, PostedInv, Rounds, Webhooks!Repeats
<1>11. CleanInv(d)'
  <2>1. SUFFICES ASSUME d \notin shaky' PROVE CleanInv(d)'
    BY DEF CleanInv
  <2>2. CleanInv(d) /\ d \notin shaky /\ accepted[d] \in Nat
    BY <1>1, <1>5, <2>1, DeliveryTypes DEF DeliveryInv
  <2>3. accepted[d] = 0 /\ \A t \in WebhookServer \ {s} : sending[t][d] = Webhooks!NotSending
    BY <1>1, <1>7, <2>2 DEF CleanInv, Senders
  <2>4. \A t \in WebhookServer \ {s} : sending'[t][d].step = "none"
    BY <1>4, <2>3 DEF Webhooks!NotSending
  <2>5. accepted'[d] <= 1 /\ (accepted'[d] = 1 => step = "success")
    BY <1>1, <1>3, <2>1, <2>3 DEF Webhooks!TypeOK
  <2>6. s \in Senders(d)
    BY <1>7 DEF Senders
  <2>7. QED
    BY <1>2, <1>4, <1>8, <2>2, <2>4, <2>5, <2>6 DEF CleanInv
<1>12. DeliveryInv(d)'
  BY <1>9, <1>10, <1>11 DEF DeliveryInv
<1>13. QED
  BY <1>2, <1>4, <1>5, <1>6, <1>12, OtherDeliveriesUntouched

\* A server stores an outcome: the row is at the attempt after the one it read.
LEMMA UpdateDeliveryKeeps ==
  ASSUME Webhooks!WebhooksAssumption, WebhooksInv, NEW s \in WebhookServer, NEW d \in WebhookDelivery,
         Webhooks!UpdateDelivery(s, d)
  PROVE  WebhooksInv'
<1> DEFINE a == sending[s][d].attempt
           outcome == sending[s][d].step
           retry == IF outcome = "success" THEN "never" ELSE Webhooks!NextRetry(a + 1)
           row == [status |-> outcome, attempt |-> a + 1, retry |-> retry]
<1>1. Webhooks!TypeOK /\ DeliveryInv(d) /\ SenderInv(s, d) /\ outcome \in {"success", "failed"}
  BY DEF WebhooksInv, DeliveryInv, Webhooks!UpdateDelivery
<1>2. UNCHANGED <<webhook, accepted, posted, shaky, upsets>> /\ Webhooks!Done(s, d)
  BY DEF Webhooks!UpdateDelivery
<1>3. delivery' = IF delivery[d] = Webhooks!NoDelivery THEN delivery ELSE [delivery EXCEPT ![d] = row]
  BY DEF Webhooks!UpdateDelivery
<1>4. /\ upsets \in Nat /\ posted[d] \in Nat /\ delivery[d].attempt \in Nat
      /\ delivery[d].status \in {"none", "pending", "success", "failed"}
      /\ delivery[d].retry \in {"never", "later", "due"}
      /\ a \in Nat /\ a <= WebhookAttempts /\ a >= 1 /\ posted[d] > 0
      /\ WebhookAttempts \in Nat
  BY <1>1, DeliveryTypes DEF SenderInv
<1>5. /\ sending' \in [WebhookServer -> [WebhookDelivery -> Sends]]
      /\ sending'[s][d] = Webhooks!NotSending /\ sending'[s][d].step = "none"
      /\ \A t \in WebhookServer, e \in WebhookDelivery : t # s \/ e # d => sending'[t][e] = sending[t][e]
  BY <1>1, <1>2, DoneSends DEF Webhooks!NotSending
<1>6. retry \in {"never", "later"} /\ (outcome = "success" => retry = "never")
  BY DEF Webhooks!NextRetry
<1> HIDE DEF retry
<1>7. Webhooks!TypeOK'
  <2>1. row \in [status : {"none", "pending", "success", "failed"},
                 attempt : 0..(WebhookAttempts + 1), retry : {"never", "later", "due"}]
    BY <1>1, <1>4, <1>6
  <2> HIDE DEF row
  <2>2. delivery' \in [WebhookDelivery -> [status : {"none", "pending", "success", "failed"},
                         attempt : 0..(WebhookAttempts + 1), retry : {"never", "later", "due"}]]
    BY <1>1, <1>3, <2>1 DEF Webhooks!TypeOK
  <2>3. QED
    BY <1>1, <1>2, <1>5, <2>2 DEF Webhooks!TypeOK, Sends
<1>8. \A e \in WebhookDelivery \ {d} : delivery'[e] = delivery[e]
  BY <1>1, <1>3 DEF Webhooks!TypeOK
<1>9. ASSUME NEW t \in WebhookServer PROVE SenderInv(t, d) /\ sending[t][d].step # "create"
  <2>1. SenderInv(t, d)
    BY <1>1 DEF DeliveryInv
  <2>2. QED
    BY <1>4, <2>1 DEF SenderInv
<1>10. CASE delivery[d] = Webhooks!NoDelivery
  <2>1. delivery' = delivery /\ delivery[d].status = "none" /\ delivery[d].retry = "never"
    BY <1>3, <1>10 DEF Webhooks!NoDelivery
  <2>2. \A t \in WebhookServer : SenderInv(t, d)'
    BY <1>2, <1>5, <1>9, <2>1 DEF SenderInv
  <2>3. DeliveryRowInv(d)' /\ PostedInv(d)'
    BY <1>1, <1>2, <1>4, <1>10, <2>1 DEF DeliveryInv, DeliveryRowInv, PostedInv,
       Webhooks!Repeats
  <2>4. CleanInv(d)'
    <3>1. \A x \in Senders(d)' : x \in Senders(d)
      BY <1>5 DEF Senders
    <3>2. \A x \in WebhookServer : sending'[x][d].step \in {"none", "success"}
            \/ sending'[x][d].step = sending[x][d].step
      BY <1>5
    <3>3. QED
      BY <1>1, <1>2, <2>1, <3>1, <3>2 DEF DeliveryInv, CleanInv
  <2>5. QED
    BY <1>2, <1>4, <1>5, <1>7, <1>8, <2>2, <2>3, <2>4, OtherDeliveriesUntouched DEF DeliveryInv
<1>11. CASE delivery[d] # Webhooks!NoDelivery
  <2>1. /\ delivery'[d].status = outcome /\ delivery'[d].attempt = a + 1
        /\ delivery'[d].retry = retry /\ retry # "due"
    BY <1>1, <1>3, <1>6, <1>11 DEF Webhooks!TypeOK
  <2>2. delivery[d].status # "none"
    BY <1>1, <1>11 DEF DeliveryInv, DeliveryRowInv
  <2>3. ASSUME NEW t \in WebhookServer PROVE SenderInv(t, d)'
    <3>1. CASE t = s
      BY <1>5, <3>1 DEF SenderInv
    <3>2. CASE t # s /\ sending[t][d].step = "none"
      BY <1>5, <1>9, <3>2 DEF SenderInv
    <3>3. CASE t # s /\ sending[t][d].step # "none"
      <4>1. sending[t][d].step \in {"post", "success", "failed"}
        BY <1>1, <1>9, <3>3, DeliveryTypes
      <4>2. /\ sending[t][d].attempt = a /\ sending[t][d].attempt \in Nat
        BY <1>1, <1>4, <1>9, <1>11, <2>2, <4>1, DeliveryTypes DEF SenderInv
      <4>3. QED
        BY <1>1, <1>2, <1>4, <1>5, <2>1, <3>3, <4>1, <4>2 DEF SenderInv
    <3>4. QED
      BY <3>1, <3>2, <3>3
  <2>4. DeliveryRowInv(d)'
    <3>1. a + 1 > 2 => a + 1 <= WebhookAttempts
      BY <1>1, <1>4, <1>11 DEF SenderInv, DeliveryInv, DeliveryRowInv
    <3>2. QED
      BY <1>1, <1>4, <2>1, <3>1, <1>6 DEF DeliveryRowInv
  <2>5. PostedInv(d)'
    <3>1. /\ Webhooks!Cardinality(WebhookServer) \in Nat /\ Webhooks!Cardinality(Senders(d)) \in Nat
          /\ Webhooks!Cardinality(Senders(d)) <= Webhooks!Cardinality(WebhookServer)
      BY SendersCounted DEF Senders
    <3>2. Rounds(2) = 0 /\ (a >= 2 => Rounds(a + 1) = Rounds(a) + Webhooks!Cardinality(WebhookServer)
                                      /\ Rounds(a) \in Nat)
      <4>1. 2 \in Nat /\ 2 >= 2
        OBVIOUS
      <4>2. QED
        BY <1>4, <4>1, RoundsGrow
    <3>3. posted[d] <= 1 + Rounds(a + 1) + upsets
      <4>1. CASE delivery[d].status = "pending"
        <5>1. posted[d] = 1 /\ a = 1 /\ a + 1 = 2
          BY <1>1, <1>4, <1>11, <4>1 DEF DeliveryInv, PostedInv, SenderInv
        <5>2. QED
          BY <1>4, <3>2, <5>1
      <4>2. CASE delivery[d].status \in {"success", "failed"} /\ delivery[d].retry = "due"
        <5>1. delivery[d].attempt = a /\ a >= 2
          BY <1>1, <1>4, <1>11, <4>2 DEF SenderInv, DeliveryInv, DeliveryRowInv
        <5>2. posted[d] <= 1 + Rounds(a) + upsets + Webhooks!Cardinality(Senders(d))
          BY <1>1, <4>2, <5>1 DEF DeliveryInv, PostedInv
        <5>3. QED
          BY <1>4, <3>1, <3>2, <5>1, <5>2
      <4>3. CASE delivery[d].status \in {"success", "failed"} /\ delivery[d].retry # "due"
        <5>1. delivery[d].attempt = a + 1
          BY <1>1, <1>4, <1>11, <4>3 DEF SenderInv
        <5>2. QED
          BY <1>1, <4>3, <5>1 DEF DeliveryInv, PostedInv
      <4>4. QED
        BY <1>4, <2>2, <4>1, <4>2, <4>3
    <3>4. QED
      BY <1>1, <1>2, <1>4, <2>1, <3>3 DEF PostedInv, Rounds
  <2>6. CleanInv(d)'
    <3>1. SUFFICES ASSUME d \notin shaky PROVE CleanInv(d)'
      BY <1>2 DEF CleanInv
    <3>2. CleanInv(d) /\ s \in Senders(d)
      BY <1>1 DEF DeliveryInv, Senders, Webhooks!NotSending
    <3>3. \A t \in WebhookServer : sending'[t][d] = Webhooks!NotSending /\ sending'[t][d].step = "none"
      BY <1>5, <3>1, <3>2 DEF CleanInv, Senders, Webhooks!NotSending
    <3>4. accepted[d] = 1 => outcome = "success"
      BY <1>1, <3>1, <3>2 DEF CleanInv
    <3>5. QED
      BY <1>1, <1>2, <2>1, <3>1, <3>2, <3>3, <3>4 DEF CleanInv, Senders
  <2>7. QED
    BY <1>2, <1>4, <1>5, <1>7, <1>8, <2>3, <2>4, <2>5, <2>6, OtherDeliveriesUntouched
       DEF DeliveryInv
<1>12. QED
  BY <1>10, <1>11

LEMMA UpdateFailsKeeps ==
  ASSUME Webhooks!WebhooksAssumption, WebhooksInv, NEW s \in WebhookServer, NEW d \in WebhookDelivery, Webhooks!UpdateFails(s, d)
  PROVE  WebhooksInv'
<1>1. Webhooks!TypeOK /\ DeliveryInv(d) /\ SenderInv(s, d) /\ sending[s][d].step \in {"success", "failed"}
  BY DEF WebhooksInv, DeliveryInv, Webhooks!UpdateFails
<1>2. /\ UNCHANGED <<webhook, delivery, accepted, posted>> /\ shaky' = shaky \cup {d}
      /\ upsets' = upsets + 1 /\ upsets' \in 0..WebhookUpsets
  BY <1>1 DEF Webhooks!UpdateFails, Webhooks!Upset, Webhooks!TypeOK, Webhooks!WebhooksAssumption
<1>3. /\ upsets \in Nat /\ posted[d] \in Nat /\ posted[d] > 0 /\ sending[s][d] # Webhooks!NotSending
  BY <1>1, DeliveryTypes DEF SenderInv, Webhooks!NotSending
<1>4. /\ sending' \in [WebhookServer -> [WebhookDelivery -> Sends]]
      /\ \/ /\ sending'[s][d].step = "failed" /\ sending'[s][d].attempt = sending[s][d].attempt
            /\ sending'[s][d] # Webhooks!NotSending
         \/ sending'[s][d] = Webhooks!NotSending /\ sending'[s][d].step = "none"
      /\ \A t \in WebhookServer, e \in WebhookDelivery : t # s \/ e # d => sending'[t][e] = sending[t][e]
  <2>1. CASE sending[s][d].step = "success"
    BY <1>1, <2>1, StepSends DEF Webhooks!UpdateFails
  <2>2. CASE sending[s][d].step = "failed"
    BY <1>1, <2>2, DoneSends DEF Webhooks!UpdateFails, Webhooks!NotSending
  <2>3. QED
    BY <1>1, <2>1, <2>2
<1>5. Webhooks!TypeOK'
  BY <1>1, <1>2, <1>4 DEF Webhooks!TypeOK, Sends
<1>6. ASSUME NEW t \in WebhookServer PROVE SenderInv(t, d)'
  <2>1. SenderInv(t, d) /\ sending[t][d].step # "create"
    BY <1>1, <1>3 DEF DeliveryInv, SenderInv
  <2>2. CASE t = s
    BY <1>1, <1>2, <1>4, <2>2 DEF SenderInv
  <2>3. CASE t # s
    BY <1>2, <1>4, <2>1, <2>3 DEF SenderInv
  <2>4. QED
    BY <2>2, <2>3
<1>7. PostedInv(d)'
  <2>1. Senders(d) \subseteq WebhookServer /\ s \in Senders(d)
        /\ (Senders(d)' = Senders(d) \/ Senders(d)' = Senders(d) \ {s})
    BY <1>3, <1>4 DEF Senders
  <2>2. /\ Webhooks!Cardinality(Senders(d)) \in Nat /\ Webhooks!Cardinality(Senders(d) \ {s}) \in Nat
        /\ Webhooks!Cardinality(Senders(d)) = Webhooks!Cardinality(Senders(d) \ {s}) + 1
        /\ Webhooks!Repeats * Webhooks!Cardinality(WebhookServer) \in Nat
    <3>1. Senders(d) \ {s} \subseteq WebhookServer
      BY <2>1
    <3>2. QED
      BY <2>1, <3>1, SendersCounted, RoundsGrow
  <2>3. Webhooks!Cardinality(Senders(d)') + 1 >= Webhooks!Cardinality(Senders(d)) /\ Webhooks!Cardinality(Senders(d)') \in Nat
    BY <2>1, <2>2
  <2>4. delivery[d].status \in {"success", "failed"} => Rounds(delivery[d].attempt) \in Nat
    BY <1>1, DeliveryTypes, RoundsGrow DEF DeliveryInv, DeliveryRowInv
  <2>5. delivery'[d].status = "none" => posted'[d] <= 1 + Webhooks!Repeats * Webhooks!Cardinality(WebhookServer) + upsets'
    BY <1>1, <1>2, <1>3, <2>2 DEF DeliveryInv, PostedInv
  <2>6. delivery'[d].status \in {"success", "failed"} =>
          IF delivery'[d].retry = "due"
          THEN posted'[d] <= 1 + Rounds(delivery'[d].attempt) + upsets' + Webhooks!Cardinality(Senders(d)')
          ELSE posted'[d] <= 1 + Rounds(delivery'[d].attempt) + upsets'
    <3>1. ASSUME delivery[d].status \in {"success", "failed"}, delivery[d].retry = "due"
          PROVE  posted[d] <= 1 + Rounds(delivery[d].attempt) + upsets' + Webhooks!Cardinality(Senders(d)')
      <4>1. posted[d] <= 1 + Rounds(delivery[d].attempt) + upsets + Webhooks!Cardinality(Senders(d))
        BY <1>1, <3>1 DEF DeliveryInv, PostedInv
      <4>2. QED
        BY <1>2, <1>3, <2>2, <2>3, <2>4, <3>1, <4>1
    <3>2. ASSUME delivery[d].status \in {"success", "failed"}, delivery[d].retry # "due"
          PROVE  posted[d] <= 1 + Rounds(delivery[d].attempt) + upsets'
      <4>1. posted[d] <= 1 + Rounds(delivery[d].attempt) + upsets
        BY <1>1, <3>2 DEF DeliveryInv, PostedInv
      <4>2. QED
        BY <1>2, <1>3, <2>4, <3>2, <4>1
    <3>3. QED
      BY <1>2, <3>1, <3>2
  <2>7. delivery'[d].status = "pending" => posted'[d] = 1
    BY <1>1, <1>2 DEF DeliveryInv, PostedInv
  <2>8. posted'[d] # 0
    BY <1>2, <1>3
  <2>9. QED
    BY <2>5, <2>6, <2>7, <2>8 DEF PostedInv, Rounds, Webhooks!Repeats
<1>8. DeliveryRowInv(d)' /\ CleanInv(d)'
  BY <1>1, <1>2 DEF DeliveryInv, DeliveryRowInv, CleanInv
<1>9. DeliveryInv(d)'
  BY <1>6, <1>7, <1>8 DEF DeliveryInv
<1>10. upsets' \in Nat /\ upsets' >= upsets /\ shaky \subseteq shaky'
  BY <1>2, <1>3
<1>11. QED
  BY <1>2, <1>4, <1>5, <1>9, <1>10, OtherDeliveriesUntouched

LEMMA BecomesDueKeeps ==
  ASSUME Webhooks!WebhooksAssumption, WebhooksInv, NEW d \in WebhookDelivery, Webhooks!BecomesDue(d)
  PROVE  WebhooksInv'
<1>1. Webhooks!TypeOK /\ DeliveryInv(d) /\ delivery[d].retry = "later"
      /\ \A s \in WebhookServer : sending[s][d] = Webhooks!NotSending /\ sending[s][d].step = "none"
  BY DEF WebhooksInv, Webhooks!BecomesDue, Webhooks!NotSending
<1>2. UNCHANGED <<webhook, sending, accepted, posted, shaky, upsets>> /\ upsets \in Nat
  BY <1>1, DeliveryTypes DEF Webhooks!BecomesDue
<1>3. delivery[d].status = "failed" /\ delivery[d].attempt \in Nat /\ posted[d] \in Nat
  BY <1>1, DeliveryTypes DEF DeliveryInv, DeliveryRowInv
<1>4. /\ delivery'[d].status = "failed" /\ delivery'[d].attempt = delivery[d].attempt
      /\ delivery'[d].retry = "due" /\ \A e \in WebhookDelivery \ {d} : delivery'[e] = delivery[e]
      /\ delivery' \in [WebhookDelivery -> [status : {"none", "pending", "success", "failed"},
                         attempt : 0..(WebhookAttempts + 1), retry : {"never", "later", "due"}]]
  BY <1>1, <1>3 DEF Webhooks!TypeOK, Webhooks!BecomesDue
<1>5. Webhooks!TypeOK'
  BY <1>1, <1>2, <1>4 DEF Webhooks!TypeOK
<1>6. Senders(d) = {} /\ Senders(d)' = {}
  BY <1>1, <1>2 DEF Senders
<1>7. PostedInv(d)'
  <2>1. Webhooks!Cardinality(Senders(d)') \in Nat /\ Rounds(delivery[d].attempt) \in Nat
    BY <1>1, <1>3, <1>6, SendersCounted, RoundsGrow DEF DeliveryInv, DeliveryRowInv
  <2>2. posted[d] <= 1 + Rounds(delivery[d].attempt) + upsets
    BY <1>1, <1>3 DEF DeliveryInv, PostedInv
  <2>3. posted[d] # 0
    BY <1>1, <1>3 DEF DeliveryInv, PostedInv, Webhooks!NoDelivery
  <2>4. posted'[d] <= 1 + Rounds(delivery[d].attempt) + upsets' + Webhooks!Cardinality(Senders(d)')
    BY <1>2, <1>3, <2>1, <2>2
  <2>5. QED
    BY <1>2, <1>4, <2>3, <2>4 DEF PostedInv, Rounds
<1>8. DeliveryRowInv(d)' /\ \A s \in WebhookServer : SenderInv(s, d)'
  BY <1>1, <1>2, <1>3, <1>4 DEF DeliveryInv, DeliveryRowInv, SenderInv
<1>9. CleanInv(d)'
  BY <1>1, <1>2, <1>3, <1>4, <1>6 DEF DeliveryInv, CleanInv
<1>10. DeliveryInv(d)'
  BY <1>7, <1>8, <1>9 DEF DeliveryInv
<1>11. QED
  BY <1>2, <1>4, <1>5, <1>10, OtherDeliveriesUntouched

\* A tick: every due row gains a sender and a POST.
LEMMA TickKeeps ==
  ASSUME Webhooks!WebhooksAssumption, WebhooksInv, NEW s \in WebhookServer, Webhooks!Tick(s)
  PROVE  WebhooksInv'
<1> DEFINE due == {d \in WebhookDelivery : Webhooks!Due(d) /\ sending[s][d] = Webhooks!NotSending}
<1>1. Webhooks!TypeOK /\ UNCHANGED <<webhook, delivery, accepted, upsets>> /\ upsets \in Nat
      /\ shaky' = shaky \cup {d \in due : \E t \in WebhookServer \ {s} : sending[t][d] # Webhooks!NotSending}
  BY DEF WebhooksInv, Webhooks!Tick, Webhooks!TypeOK
<1>2. posted' = [d \in WebhookDelivery |-> posted[d] + IF d \in due THEN 1 ELSE 0]
  BY DEF Webhooks!Tick
<1>3. sending' = [sending EXCEPT ![s] = [d \in WebhookDelivery |->
           IF d \in due THEN [step |-> "post", attempt |-> delivery[d].attempt, retry |-> TRUE]
           ELSE sending[s][d]]]
  BY <1>1 DEF Webhooks!Tick, Webhooks!TypeOK
<1>4. ASSUME NEW d \in due
      PROVE  /\ d \in WebhookDelivery /\ sending[s][d] = Webhooks!NotSending /\ delivery[d].status = "failed"
             /\ delivery[d].attempt < WebhookAttempts /\ delivery[d].retry = "due"
  BY DEF Webhooks!Due
<1> HIDE DEF due
<1>5. /\ \A d \in due : /\ sending'[s][d].step = "post" /\ sending'[s][d] \in Sends
                        /\ sending'[s][d].attempt = delivery[d].attempt
      /\ \A d \in WebhookDelivery \ due : sending'[s][d] = sending[s][d]
      /\ \A t \in WebhookServer \ {s} : sending'[t] = sending[t]
      /\ sending' \in [WebhookServer -> [WebhookDelivery -> Sends]]
  <2>1. \A d \in due : [step |-> "post", attempt |-> delivery[d].attempt, retry |-> TRUE] \in Sends
    <3>1. \A d \in due : delivery[d].attempt \in 0..WebhookAttempts
      BY <1>1, <1>4, DeliveryTypes
    <3>2. QED
      BY <3>1 DEF Sends
  <2> DEFINE v == [d \in WebhookDelivery |->
           IF d \in due THEN [step |-> "post", attempt |-> delivery[d].attempt, retry |-> TRUE]
           ELSE sending[s][d]]
  <2>2. v \in [WebhookDelivery -> Sends] /\ (\A d \in WebhookDelivery \ due : v[d] = sending[s][d])
        /\ \A d \in due : v[d].step = "post" /\ v[d].attempt = delivery[d].attempt /\ v[d] \in Sends
    BY <1>1, <1>4, <2>1 DEF Webhooks!TypeOK, Sends
  <2>3. sending' = [sending EXCEPT ![s] = v]
    BY <1>3
  <2> HIDE DEF v
  <2>4. sending \in [WebhookServer -> [WebhookDelivery -> Sends]]
    BY <1>1 DEF Webhooks!TypeOK, Sends
  <2>5. sending'[s] = v /\ \A t \in WebhookServer \ {s} : sending'[t] = sending[t]
    BY <2>3, <2>4
  <2>6. QED
    BY <2>2, <2>3, <2>4, <2>5
<1>6. posted' \in [WebhookDelivery -> Nat] /\ \A d \in WebhookDelivery : posted'[d] >= posted[d]
  BY <1>1, <1>2 DEF Webhooks!TypeOK
<1>7. Webhooks!TypeOK'
  BY <1>1, <1>4, <1>5, <1>6 DEF Webhooks!TypeOK, Sends
<1>8. ASSUME NEW d \in due PROVE DeliveryInv(d)'
  <2>1. /\ d \in WebhookDelivery /\ DeliveryInv(d) /\ sending[s][d] = Webhooks!NotSending
        /\ delivery'[d] = delivery[d] /\ delivery[d].status = "failed"
        /\ delivery[d].attempt < WebhookAttempts /\ delivery[d].retry = "due"
        /\ delivery[d].attempt \in Nat /\ delivery[d].attempt >= 2
        /\ posted[d] \in Nat /\ posted'[d] = posted[d] + 1 /\ accepted'[d] = accepted[d]
    <3>1. d \in WebhookDelivery /\ delivery[d].status = "failed"
      BY <1>4
    <3>2. delivery[d].attempt >= 2 /\ DeliveryInv(d)
      BY <3>1 DEF WebhooksInv, DeliveryInv, DeliveryRowInv
    <3>3. delivery[d].attempt \in Nat /\ posted[d] \in Nat
      BY <1>1, <3>1, DeliveryTypes
    <3>4. posted'[d] = posted[d] + 1
      BY <1>2, <3>1, <3>3
    <3>5. QED
      BY <1>1, <1>4, <3>1, <3>2, <3>3, <3>4
  <2>2. /\ sending'[s][d].step = "post" /\ sending'[s][d].attempt = delivery[d].attempt
        /\ \A t \in WebhookServer \ {s} : sending'[t][d] = sending[t][d]
        /\ sending'[s][d] # Webhooks!NotSending
    BY <1>5 DEF Webhooks!NotSending
  <2>3. Senders(d)' = Senders(d) \cup {s} /\ s \notin Senders(d) /\ Senders(d) \subseteq WebhookServer
    BY <2>1, <2>2 DEF Senders
  <2>4. PostedInv(d)'
    <3>1. /\ Webhooks!Cardinality(Senders(d)') = Webhooks!Cardinality(Senders(d)) + 1
          /\ Webhooks!Cardinality(Senders(d)) \in Nat /\ Rounds(delivery[d].attempt) \in Nat
      BY <2>1, <2>3, SendersCounted, RoundsGrow
    <3>2. posted[d] <= 1 + Rounds(delivery[d].attempt) + upsets + Webhooks!Cardinality(Senders(d))
      BY <2>1 DEF DeliveryInv, PostedInv
    <3>3. posted'[d] <= 1 + Rounds(delivery[d].attempt) + upsets' + Webhooks!Cardinality(Senders(d)')
      BY <1>1, <2>1, <3>1, <3>2
    <3>4. posted'[d] # 0
      BY <2>1
    <3>5. QED
      BY <2>1, <3>3, <3>4 DEF PostedInv, Rounds
  <2>5. ASSUME NEW t \in WebhookServer PROVE SenderInv(t, d)'
    <3>1. CASE t = s
      BY <2>1, <2>2, <3>1 DEF SenderInv
    <3>2. CASE t # s
      <4>1. SenderInv(t, d) /\ sending[t][d].step # "create"
        BY <2>1 DEF DeliveryInv, SenderInv, Webhooks!NoDelivery
      <4>2. posted'[d] > 0
        BY <2>1
      <4>3. QED
        BY <2>1, <2>2, <3>2, <4>1, <4>2 DEF SenderInv
    <3>3. QED
      BY <3>1, <3>2
  <2>6. CleanInv(d)'
    <3>1. SUFFICES ASSUME d \notin shaky' PROVE CleanInv(d)'
      BY DEF CleanInv
    <3>2. \A t \in WebhookServer : sending[t][d] = Webhooks!NotSending
      BY <1>1, <2>1, <3>1
    <3>3. Senders(d) = {} /\ CleanInv(d) /\ d \notin shaky
      BY <1>1, <2>1, <3>1, <3>2 DEF Senders, DeliveryInv
    <3>4. accepted[d] # 1 /\ accepted[d] <= 1
      BY <2>1, <3>3 DEF CleanInv
    <3>5. QED
      BY <2>1, <2>3, <3>3, <3>4 DEF CleanInv
  <2>7. QED
    BY <2>1, <2>4, <2>5, <2>6 DEF DeliveryInv, DeliveryRowInv
<1>9. ASSUME NEW d \in WebhookDelivery, d \notin due PROVE DeliveryInv(d)'
  <2>1. posted'[d] = posted[d]
    BY <1>1, <1>2, <1>9 DEF Webhooks!TypeOK
  <2>2. \A t \in WebhookServer : sending'[t][d] = sending[t][d]
    BY <1>5, <1>9
  <2>3. QED
    BY <1>1, <2>1, <2>2, DeliveryUntouched
<1>10. QED
  BY <1>7, <1>8, <1>9 DEF WebhooksInv

\* A server dies: it is not a sender of anything any more, ...
LEMMA SenderDiesKeeps ==
  ASSUME Webhooks!WebhooksAssumption, WebhooksInv, NEW s \in WebhookServer, Webhooks!Die(s)
  PROVE  WebhooksInv'
<1>1. /\ Webhooks!TypeOK /\ UNCHANGED <<webhook, delivery, accepted, posted>>
      /\ upsets \in Nat /\ upsets' = upsets + 1 /\ upsets' \in 0..WebhookUpsets
      /\ shaky' = shaky \cup {d \in WebhookDelivery : sending[s][d] # Webhooks!NotSending}
      /\ sending' = [sending EXCEPT ![s] = [d \in WebhookDelivery |-> Webhooks!NotSending]]
  BY DEF WebhooksInv, Webhooks!Die, Webhooks!Upset, Webhooks!TypeOK, Webhooks!WebhooksAssumption
<1>2. /\ \A d \in WebhookDelivery : sending'[s][d] = Webhooks!NotSending
      /\ \A t \in WebhookServer \ {s} : sending'[t] = sending[t]
      /\ sending' \in [WebhookServer -> [WebhookDelivery -> Sends]]
  <2>1. Webhooks!NotSending \in Sends
    BY DEF Webhooks!NotSending, Sends, Webhooks!WebhooksAssumption
  <2>2. QED
    BY <1>1, <2>1 DEF Webhooks!TypeOK, Sends
<1>3. Webhooks!TypeOK'
  BY <1>1, <1>2 DEF Webhooks!TypeOK, Sends
<1>4. ASSUME NEW d \in WebhookDelivery, sending[s][d] = Webhooks!NotSending PROVE DeliveryInv(d)'
  <2>1. upsets' \in Nat /\ upsets' >= upsets
    BY <1>1
  <2>2. \A t \in WebhookServer : sending'[t][d] = sending[t][d]
    BY <1>2, <1>4
  <2>3. QED
    BY <1>1, <2>1, <2>2, DeliveryUntouched
<1>5. ASSUME NEW d \in WebhookDelivery, sending[s][d] # Webhooks!NotSending PROVE DeliveryInv(d)'
  <2>1. /\ DeliveryInv(d) /\ d \in shaky' /\ posted[d] \in Nat
        /\ delivery'[d] = delivery[d] /\ posted'[d] = posted[d] /\ accepted'[d] = accepted[d]
    BY <1>1, <1>5, DeliveryTypes DEF WebhooksInv
  <2>2. /\ sending'[s][d].step = "none" /\ sending'[s][d] = Webhooks!NotSending
        /\ \A t \in WebhookServer \ {s} : sending'[t][d] = sending[t][d]
    BY <1>2 DEF Webhooks!NotSending
  <2>3. DeliveryRowInv(d)' /\ CleanInv(d)'
    BY <2>1 DEF DeliveryInv, DeliveryRowInv, CleanInv
  <2>4. ASSUME NEW t \in WebhookServer PROVE SenderInv(t, d)'
    <3>1. SenderInv(t, d)
      BY <2>1 DEF DeliveryInv
    <3>2. CASE t = s
      BY <2>2, <3>2 DEF SenderInv
    <3>3. CASE t # s
      BY <2>1, <2>2, <3>1, <3>3 DEF SenderInv
    <3>4. QED
      BY <3>2, <3>3
  <2>5. PostedInv(d)'
    <3>1. Senders(d) \subseteq WebhookServer /\ s \in Senders(d) /\ Senders(d)' = Senders(d) \ {s}
      BY <1>5, <2>2 DEF Senders
    <3>2. /\ Webhooks!Cardinality(Senders(d)) \in Nat /\ Webhooks!Cardinality(Senders(d)') \in Nat
          /\ Webhooks!Cardinality(Senders(d)) = Webhooks!Cardinality(Senders(d)') + 1
          /\ Webhooks!Repeats * Webhooks!Cardinality(WebhookServer) \in Nat
      <4>1. Senders(d) \ {s} \subseteq WebhookServer
        BY <3>1
      <4>2. QED
        BY <3>1, <4>1, SendersCounted, RoundsGrow
    <3>3. delivery[d].status \in {"success", "failed"} => Rounds(delivery[d].attempt) \in Nat
      BY <1>1, <2>1, DeliveryTypes, RoundsGrow DEF DeliveryInv, DeliveryRowInv
    <3>4. delivery'[d].status = "none" => posted'[d] <= 1 + Webhooks!Repeats * Webhooks!Cardinality(WebhookServer) + upsets'
      BY <1>1, <2>1, <3>2 DEF DeliveryInv, PostedInv
    <3>5. delivery'[d].status \in {"success", "failed"} =>
            IF delivery'[d].retry = "due"
            THEN posted'[d] <= 1 + Rounds(delivery'[d].attempt) + upsets' + Webhooks!Cardinality(Senders(d)')
            ELSE posted'[d] <= 1 + Rounds(delivery'[d].attempt) + upsets'
      <4>1. ASSUME delivery[d].status \in {"success", "failed"}, delivery[d].retry = "due"
            PROVE  posted[d] <= 1 + Rounds(delivery[d].attempt) + upsets' + Webhooks!Cardinality(Senders(d)')
        <5>1. posted[d] <= 1 + Rounds(delivery[d].attempt) + upsets + Webhooks!Cardinality(Senders(d))
          BY <2>1, <4>1 DEF DeliveryInv, PostedInv
        <5>2. QED
          BY <1>1, <2>1, <3>2, <3>3, <4>1, <5>1
      <4>2. ASSUME delivery[d].status \in {"success", "failed"}, delivery[d].retry # "due"
            PROVE  posted[d] <= 1 + Rounds(delivery[d].attempt) + upsets'
        <5>1. posted[d] <= 1 + Rounds(delivery[d].attempt) + upsets
          BY <2>1, <4>2 DEF DeliveryInv, PostedInv
        <5>2. QED
          BY <1>1, <2>1, <3>3, <4>2, <5>1
      <4>3. QED
        BY <2>1, <4>1, <4>2
    <3>6. delivery'[d].status = "pending" => posted'[d] = 1
      BY <2>1 DEF DeliveryInv, PostedInv
    <3>7. posted'[d] = 0 => delivery'[d] = Webhooks!NoDelivery /\ accepted'[d] = 0
      BY <2>1 DEF DeliveryInv, PostedInv
    <3>8. QED
      BY <3>4, <3>5, <3>6, <3>7 DEF PostedInv, Rounds, Webhooks!Repeats
  <2>6. QED
    BY <2>3, <2>4, <2>5 DEF DeliveryInv
<1>6. QED
  BY <1>3, <1>4, <1>5 DEF WebhooksInv

\* ... and the webhook is deleted with its rows: the bound holds without them.
LEMMA PostsAreBounded ==
  ASSUME Webhooks!WebhooksAssumption, Webhooks!TypeOK, NEW d \in WebhookDelivery, DeliveryInv(d)
  PROVE  posted[d] <= 1 + Webhooks!Repeats * Webhooks!Cardinality(WebhookServer) + upsets
<1> DEFINE a == delivery[d].attempt
<1>1. /\ upsets \in Nat /\ posted[d] \in Nat /\ a \in Nat
      /\ delivery[d].status \in {"none", "pending", "success", "failed"}
      /\ Webhooks!Repeats * Webhooks!Cardinality(WebhookServer) \in Nat /\ Webhooks!Cardinality(WebhookServer) \in Nat
  BY DeliveryTypes, RoundsGrow, SendersCounted
<1>2. CASE delivery[d].status \in {"none", "pending"}
  BY <1>1, <1>2 DEF DeliveryInv, PostedInv
<1>3. CASE delivery[d].status \in {"success", "failed"}
  <2>1. a >= 2 /\ (a = 2 \/ a <= WebhookAttempts)
    BY <1>1, <1>3 DEF DeliveryInv, DeliveryRowInv
  <2>2. /\ Rounds(a) \in Nat /\ Rounds(a) <= Webhooks!Repeats * Webhooks!Cardinality(WebhookServer)
        /\ a < WebhookAttempts => Rounds(a) + Webhooks!Cardinality(WebhookServer) <= Webhooks!Repeats * Webhooks!Cardinality(WebhookServer)
    BY <1>1, <2>1, RoundsGrow
  <2>3. /\ Webhooks!Cardinality(Senders(d)) \in Nat /\ Webhooks!Cardinality(Senders(d)) <= Webhooks!Cardinality(WebhookServer)
        /\ Senders(d) = {} => Webhooks!Cardinality(Senders(d)) = 0
    BY SendersCounted, FS_EmptySet, WebhooksSizes DEF Senders
  <2>4. CASE delivery[d].retry # "due"
    <3>1. posted[d] <= 1 + Rounds(a) + upsets
      BY <1>3, <2>4 DEF DeliveryInv, PostedInv
    <3>2. QED
      BY <1>1, <2>2, <3>1
  <2>5. CASE delivery[d].retry = "due"
    <3>1. posted[d] <= 1 + Rounds(a) + upsets + Webhooks!Cardinality(Senders(d))
      BY <1>3, <2>5 DEF DeliveryInv, PostedInv
    <3>2. CASE Senders(d) = {}
      BY <1>1, <2>2, <2>3, <3>1, <3>2
    <3>3. CASE Senders(d) # {}
      <4>1. PICK s \in WebhookServer : sending[s][d] # Webhooks!NotSending
        BY <3>3 DEF Senders
      <4>2. SenderInv(s, d) /\ sending[s][d].step \in {"none", "create", "post", "success", "failed"}
        BY <4>1, DeliveryTypes DEF DeliveryInv
      <4>3. a < WebhookAttempts
        BY <1>3, <2>5, <4>1, <4>2 DEF SenderInv, Webhooks!NoDelivery
      <4>4. QED
        BY <1>1, <2>2, <2>3, <3>1, <4>3
    <3>4. QED
      BY <3>2, <3>3
  <2>6. QED
    BY <2>4, <2>5
<1>4. QED
  BY <1>1, <1>2, <1>3

LEMMA DeleteKeeps == ASSUME Webhooks!WebhooksAssumption, WebhooksInv, Webhooks!Delete PROVE WebhooksInv'
<1>1. Webhooks!TypeOK /\ webhook' = "deleted" /\ delivery' = [d \in WebhookDelivery |-> Webhooks!NoDelivery]
      /\ UNCHANGED <<sending, accepted, posted, shaky, upsets>>
  BY DEF WebhooksInv, Webhooks!Delete
<1>2. Webhooks!TypeOK'
  <2>1. Webhooks!NoDelivery \in [status : {"none", "pending", "success", "failed"},
                        attempt : 0..(WebhookAttempts + 1), retry : {"never", "later", "due"}]
    BY DEF Webhooks!WebhooksAssumption, Webhooks!NoDelivery
  <2>2. QED
    BY <1>1, <2>1 DEF Webhooks!TypeOK
<1>3. ASSUME NEW d \in WebhookDelivery PROVE DeliveryInv(d)'
  <2>1. DeliveryInv(d) /\ posted[d] <= 1 + Webhooks!Repeats * Webhooks!Cardinality(WebhookServer) + upsets
    BY <1>1, PostsAreBounded DEF WebhooksInv
  <2>2. delivery'[d] = Webhooks!NoDelivery /\ delivery'[d].status = "none" /\ delivery'[d].retry = "never"
    BY <1>1 DEF Webhooks!NoDelivery
  <2>3. PostedInv(d)'
    BY <1>1, <2>1, <2>2 DEF DeliveryInv, PostedInv, Webhooks!Repeats
  <2>4. \A s \in WebhookServer : SenderInv(s, d)'
    BY <1>1, <2>1, <2>2 DEF DeliveryInv, SenderInv
  <2>5. CleanInv(d)'
    BY <1>1, <2>1, <2>2 DEF DeliveryInv, CleanInv, Senders
  <2>6. QED
    BY <2>2, <2>3, <2>4, <2>5 DEF DeliveryInv, DeliveryRowInv
<1>4. QED
  BY <1>2, <1>3 DEF WebhooksInv

LEMMA WebhooksStep ==
  ASSUME Webhooks!WebhooksAssumption, WebhooksInv, [Webhooks!Next]_webhooksVars
  PROVE  WebhooksInv'
<1>1. CASE Webhooks!Next
  <2>1. CASE Webhooks!Patch
    <3>1. Webhooks!TypeOK'
      BY <2>1 DEF WebhooksInv, Webhooks!TypeOK, Webhooks!Patch
    <3>2. ASSUME NEW d \in WebhookDelivery PROVE DeliveryInv(d)'
      <4>1. upsets \in Nat
        BY DEF WebhooksInv, Webhooks!TypeOK
      <4>2. UNCHANGED <<delivery, sending, accepted, posted, shaky, upsets>>
        BY <2>1 DEF Webhooks!Patch
      <4>3. QED
        BY <4>1, <4>2, DeliveryUntouched
    <3>3. QED
      BY <3>1, <3>2 DEF WebhooksInv
  <2>2. CASE Webhooks!Delete
    BY <2>2, DeleteKeeps
  <2>3. CASE \E d \in WebhookDelivery : Webhooks!BecomesDue(d)
    BY <2>3, BecomesDueKeeps
  <2>4. CASE \E s \in WebhookServer : Webhooks!Tick(s)
    BY <2>4, TickKeeps
  <2>5. CASE \E s \in WebhookServer : Webhooks!Die(s)
    BY <2>5, SenderDiesKeeps
  <2>6. CASE \E s \in WebhookServer, d \in WebhookDelivery : Webhooks!Select(s, d) \/ Webhooks!Send(s, d) \/ Webhooks!UpdateFails(s, d)
    BY <2>6, SelectKeeps, CreateDeliveryKeeps, AnswerKeeps, UpdateDeliveryKeeps,
       UpdateFailsKeeps
       DEF Webhooks!Send
  <2>7. QED
    BY <1>1, <2>1, <2>2, <2>3, <2>4, <2>5, <2>6 DEF Webhooks!Next
<1>2. CASE UNCHANGED webhooksVars
  <2>1. UNCHANGED <<webhook, delivery, sending, accepted, posted, shaky, upsets>>
    BY <1>2 DEF webhooksVars
  <2>2. Webhooks!TypeOK'
    BY <2>1 DEF WebhooksInv, Webhooks!TypeOK
  <2>3. ASSUME NEW d \in WebhookDelivery PROVE DeliveryInv(d)'
    <3>1. upsets \in Nat
      BY DEF WebhooksInv, Webhooks!TypeOK
    <3>2. QED
      BY <2>1, <3>1, DeliveryUntouched
  <2>4. QED
    BY <2>2, <2>3 DEF WebhooksInv
<1>3. QED
  BY <1>1, <1>2

LEMMA WebhooksHold ==
  ASSUME Webhooks!WebhooksAssumption, WebhooksInv
  PROVE  Webhooks!TypeOK /\ Webhooks!AcceptedOnce /\ Webhooks!PostsBounded /\ Webhooks!PendingIsUnderWay
<1>1. Webhooks!TypeOK /\ Webhooks!PostsBounded
  BY PostsAreBounded DEF WebhooksInv, Webhooks!PostsBounded
<1>2. Webhooks!AcceptedOnce /\ Webhooks!PendingIsUnderWay
  BY DEF WebhooksInv, DeliveryInv, CleanInv, Webhooks!AcceptedOnce, Webhooks!PendingIsUnderWay
<1>3. QED
  BY <1>1, <1>2

-----------------------------------------------------------------------------
(* Drops and referral bonuses *)

\* Finite sets and their sizes are the library's.
LEMMA ClaimsSizes ==
  /\ \A S : Claims!IsFiniteSet(S) <=> IsFiniteSet(S)
  /\ \A S : Claims!Cardinality(S) = Cardinality(S)
BY Zenon DEF Claims!IsFiniteSet, Claims!Cardinality, IsFiniteSet, Cardinality

\* The inductive invariant: the claims made and those still to be recorded are no
\* more than the limit and the race allow, likewise the bonuses; whoever is past a
\* check met its condition.
Recording == Tally(claim, ClaimRequest, {"record"})
Paying    == Tally(bonus, BonusRequest, {"users", "pay"})

ClaimsCounted ==
  /\ claims + Recording + 1 <= MaxClaims + together.claims
  /\ bonuses + Paying <= together.bonuses

ChecksPassed ==
  /\ \A r \in ClaimRequest : claim[r] \in {"count", "record"} => qualified
  /\ Claims!ClaimsQualified
  /\ \A r \in BonusRequest : bonus[r] = "mark" => bonuses > 0
  /\ Claims!MarkedMeansPaid

ClaimsInv == Claims!TypeOK /\ ClaimsCounted /\ ChecksPassed

LEMMA BetweenIs ==
  ASSUME Claims!TypeOK
  PROVE  /\ Claims!Between(claim, {"record"}) = Recording
         /\ Claims!Between(bonus, {"users", "pay"}) = Paying
BY ClaimsSizes DEF Claims!TypeOK, Claims!Between, Recording, Paying, Tally

LEMMA ClaimsInit == ASSUME Claims!ClaimsAssumption, Claims!Init PROVE ClaimsInv
<1>1. Recording = 0 /\ Paying = 0
  BY TallyNone, ClaimsSizes DEF Claims!Init, Recording, Paying
<1>3. Claims!Cardinality(ClaimRequest) \in Nat /\ Claims!Cardinality(BonusRequest) \in Nat
  BY FS_CardinalityType, ClaimsSizes DEF Claims!ClaimsAssumption
<1>4. Claims!TypeOK
  <2>1. together \in [claims : 0..Claims!Cardinality(ClaimRequest), bonuses : 0..Claims!Cardinality(BonusRequest)]
    BY <1>3 DEF Claims!Init
  <2>2. earned \in 0..MaxPoints /\ claims \in Nat /\ bonuses \in Nat
    BY DEF Claims!ClaimsAssumption, Claims!Init
  <2>3. QED
    BY <2>1, <2>2 DEF Claims!Init, Claims!TypeOK
<1>5. ClaimsCounted
  BY <1>1 DEF Claims!ClaimsAssumption, Claims!Init, ClaimsCounted
<1>6. QED
  BY <1>4, <1>5 DEF Claims!Init, ClaimsInv, ChecksPassed, Claims!ClaimsQualified,
     Claims!MarkedMeansPaid

\* A step that leaves the claims and bonuses and the requests alone.
LEMMA OthersKeepClaims == ASSUME Claims!ClaimsAssumption, ClaimsInv, Claims!Expire \/ Claims!Earn PROVE ClaimsInv'
<1>1. UNCHANGED <<listed, claim, claims, bonus, bonuses, bonus_claimed, together>>
  BY DEF Claims!Expire, Claims!Earn
<1>2. (qualified => qualified') /\ qualified' \in BOOLEAN
  BY DEF Claims!Expire, Claims!Earn, ClaimsInv, Claims!TypeOK
<1>3. Claims!TypeOK'
  <2>1. earned' \in 0..MaxPoints
    <3>1. CASE Claims!Earn
      BY <3>1 DEF Claims!ClaimsAssumption, Claims!Earn, ClaimsInv, Claims!TypeOK
    <3>2. CASE Claims!Expire
      BY <3>2 DEF Claims!Expire, ClaimsInv, Claims!TypeOK
    <3>3. QED
      BY <3>1, <3>2
  <2>2. expired' \in BOOLEAN
    BY DEF Claims!Expire, Claims!Earn, ClaimsInv, Claims!TypeOK
  <2>3. QED
    BY <1>1, <1>2, <2>1, <2>2 DEF ClaimsInv, Claims!TypeOK
<1>4. ClaimsCounted'
  BY <1>1 DEF ClaimsInv, ClaimsCounted, Recording, Paying
<1>5. ChecksPassed'
  BY <1>1, <1>2 DEF ClaimsInv, ChecksPassed, Claims!ClaimsQualified, Claims!MarkedMeansPaid
<1>6. QED
  BY <1>3, <1>4, <1>5 DEF ClaimsInv

\* What holds of the numbers.
LEMMA ClaimsNumbers ==
  ASSUME Claims!ClaimsAssumption, Claims!TypeOK
  PROVE  /\ MaxClaims \in Nat /\ claims \in Nat /\ bonuses \in Nat
         /\ together.claims \in Nat /\ together.bonuses \in Nat
         /\ together = [claims |-> together.claims, bonuses |-> together.bonuses]
         /\ together.claims <= Claims!Cardinality(ClaimRequest)
         /\ together.bonuses <= Claims!Cardinality(BonusRequest)
         /\ Claims!Cardinality(ClaimRequest) \in Nat /\ Claims!Cardinality(BonusRequest) \in Nat
<1>1. Claims!Cardinality(ClaimRequest) \in Nat /\ Claims!Cardinality(BonusRequest) \in Nat
  BY FS_CardinalityType, ClaimsSizes DEF Claims!ClaimsAssumption
<1>2. QED
  BY <1>1 DEF Claims!ClaimsAssumption, Claims!TypeOK

\* A request for a claim moves.
LEMMA ClaimMoves ==
  ASSUME Claims!ClaimsAssumption, ClaimsInv, NEW r \in ClaimRequest, NEW step, Claims!To(r, step),
         step \in Claims!Checking \cup {"idle", "done"}
  PROVE  /\ claim' \in [ClaimRequest -> Claims!Checking \cup {"idle", "done"}]
         /\ claim'[r] = step /\ \A q \in ClaimRequest \ {r} : claim'[q] = claim[q]
         /\ Recording \in Nat /\ Recording' \in Nat
         /\ Recording' <= Claims!Cardinality(ClaimRequest)
         /\ (claim[r] = "record" <=> step = "record") => Recording' = Recording
         /\ claim[r] = "record" /\ step # "record" =>
              Recording = Recording' + 1
         /\ claim[r] # "record" /\ step = "record" =>
              Recording' = Recording + 1
<1>1. /\ claim' \in [ClaimRequest -> Claims!Checking \cup {"idle", "done"}]
      /\ claim'[r] = step /\ \A q \in ClaimRequest \ {r} : claim'[q] = claim[q]
  BY DEF Claims!To, ClaimsInv, Claims!TypeOK
<1>2. Claims!IsFiniteSet(ClaimRequest)
  BY DEF Claims!ClaimsAssumption
<1> DEFINE S == {"record"}
<1> HIDE DEF S
<1>3. /\ Tally(claim, ClaimRequest, S) \in 0..Claims!Cardinality(ClaimRequest)
      /\ Tally(claim', ClaimRequest, S) \in 0..Claims!Cardinality(ClaimRequest)
      /\ Claims!Cardinality(ClaimRequest) \in Nat
  BY <1>2, TallyType, ClaimsSizes
<1>4. (claim[r] \in S <=> claim'[r] \in S) => Tally(claim, ClaimRequest, S) = Tally(claim', ClaimRequest, S)
  BY <1>1, TallySame, ClaimsSizes
<1>5. claim[r] \in S /\ claim'[r] \notin S => Tally(claim, ClaimRequest, S) = Tally(claim', ClaimRequest, S) + 1
  BY <1>1, <1>2, TallyEnters, ClaimsSizes
<1>6. claim[r] \notin S /\ claim'[r] \in S => Tally(claim', ClaimRequest, S) = Tally(claim, ClaimRequest, S) + 1
  BY <1>1, <1>2, TallyEnters, ClaimsSizes
<1>7. Recording = Tally(claim, ClaimRequest, S) /\ Recording' = Tally(claim', ClaimRequest, S)
  BY DEF Recording, S
<1>8. QED
  BY <1>1, <1>3, <1>4, <1>5, <1>6, <1>7 DEF S

\* A request for a bonus moves.
LEMMA BonusMoves ==
  ASSUME Claims!ClaimsAssumption, ClaimsInv, NEW r \in BonusRequest, NEW step, Claims!BonusTo(r, step),
         step \in {"idle", "users", "pay", "mark", "done"}
  PROVE  /\ bonus' \in [BonusRequest -> {"idle", "users", "pay", "mark", "done"}]
         /\ bonus'[r] = step /\ \A q \in BonusRequest \ {r} : bonus'[q] = bonus[q]
         /\ Paying \in Nat /\ Paying' \in Nat
         /\ Paying' <= Claims!Cardinality(BonusRequest)
         /\ (bonus[r] \in {"users", "pay"} <=> step \in {"users", "pay"}) =>
              Paying' = Paying
         /\ bonus[r] \in {"users", "pay"} /\ step \notin {"users", "pay"} =>
              Paying = Paying' + 1
<1>1. /\ bonus' \in [BonusRequest -> {"idle", "users", "pay", "mark", "done"}]
      /\ bonus'[r] = step /\ \A q \in BonusRequest \ {r} : bonus'[q] = bonus[q]
  BY DEF Claims!BonusTo, ClaimsInv, Claims!TypeOK
<1>2. Claims!IsFiniteSet(BonusRequest)
  BY DEF Claims!ClaimsAssumption
<1> DEFINE S == {"users", "pay"}
<1> HIDE DEF S
<1>3. /\ Tally(bonus, BonusRequest, S) \in 0..Claims!Cardinality(BonusRequest)
      /\ Tally(bonus', BonusRequest, S) \in 0..Claims!Cardinality(BonusRequest)
      /\ Claims!Cardinality(BonusRequest) \in Nat
  BY <1>2, TallyType, ClaimsSizes
<1>4. (bonus[r] \in S <=> bonus'[r] \in S) => Tally(bonus, BonusRequest, S) = Tally(bonus', BonusRequest, S)
  BY <1>1, TallySame, ClaimsSizes
<1>5. bonus[r] \in S /\ bonus'[r] \notin S => Tally(bonus, BonusRequest, S) = Tally(bonus', BonusRequest, S) + 1
  BY <1>1, <1>2, TallyEnters, ClaimsSizes
<1>6. bonus[r] \notin S /\ bonus'[r] \in S => Tally(bonus', BonusRequest, S) = Tally(bonus, BonusRequest, S) + 1
  BY <1>1, <1>2, TallyEnters, ClaimsSizes
<1>7. Paying = Tally(bonus, BonusRequest, S) /\ Paying' = Tally(bonus', BonusRequest, S)
  BY DEF Paying, S
<1>8. QED
  BY <1>1, <1>3, <1>4, <1>5, <1>6, <1>7 DEF S

\* The steps of a claim.
LEMMA ClaimStepKeeps ==
  ASSUME Claims!ClaimsAssumption, ClaimsInv, NEW r \in ClaimRequest,
         Claims!StartClaim(r) \/ Claims!EvaluateCriteria(r) \/ Claims!GetClaimCount(r) \/ Claims!RecordClaim(r)
  PROVE  ClaimsInv'
<1> USE ClaimsNumbers, BetweenIs DEF ClaimsInv
<1>1. CASE Claims!StartClaim(r) \/ Claims!EvaluateCriteria(r)
  <2>1. /\ UNCHANGED <<expired, earned, listed, claims, bonus, bonuses, bonus_claimed, together>>
        /\ qualified' = (qualified \/ Claims!Points >= MinPoints)
        /\ claim[r] \in {"idle", "criteria"}
    BY <1>1 DEF Claims!StartClaim, Claims!EvaluateCriteria
  <2>2. \E step \in {"criteria", "count", "done"} :
           Claims!To(r, step) /\ (step = "count" => Claims!Points >= MinPoints)
    BY <1>1 DEF Claims!StartClaim, Claims!EvaluateCriteria
  <2>3. PICK step \in {"criteria", "count", "done"} :
           Claims!To(r, step) /\ (step = "count" => Claims!Points >= MinPoints)
    BY <2>2
  <2>4. /\ claim' \in [ClaimRequest -> Claims!Checking \cup {"idle", "done"}]
        /\ claim'[r] = step /\ \A q \in ClaimRequest \ {r} : claim'[q] = claim[q]
        /\ Recording' = Recording
    BY <2>1, <2>3, ClaimMoves DEF Claims!Checking
  <2>5. (qualified => qualified') /\ qualified' \in BOOLEAN
    BY <2>1 DEF Claims!TypeOK
  <2>6. Claims!TypeOK'
    BY <2>1, <2>4, <2>5 DEF Claims!TypeOK
  <2>7. ClaimsCounted'
    BY <2>1, <2>4 DEF ClaimsCounted, Paying
  <2>8. ChecksPassed'
    BY <2>1, <2>3, <2>4, <2>5 DEF ChecksPassed, Claims!ClaimsQualified, Claims!MarkedMeansPaid
  <2>9. QED
    BY <2>6, <2>7, <2>8
<1>2. CASE Claims!GetClaimCount(r)
  <2> DEFINE step == IF claims < MaxClaims THEN "record" ELSE "done"
  <2>1. /\ claim[r] = "count" /\ Claims!To(r, step)
        /\ together' = [together EXCEPT !.claims = Claims!Most(@, Claims!Between(claim', {"record"}))]
        /\ UNCHANGED <<expired, earned, listed, claims, bonus, bonuses, bonus_claimed, qualified>>
    BY <1>2 DEF Claims!GetClaimCount
  <2>2. /\ claim' \in [ClaimRequest -> Claims!Checking \cup {"idle", "done"}]
        /\ claim'[r] = step /\ \A q \in ClaimRequest \ {r} : claim'[q] = claim[q]
        /\ Recording \in Nat /\ Recording' \in Nat
        /\ Recording' <= Claims!Cardinality(ClaimRequest)
        /\ step = "done" => Recording' = Recording
    BY <2>1, ClaimMoves DEF Claims!Checking
  <2>3. Claims!Between(claim', {"record"}) = Recording'
    BY <2>2, ClaimsSizes DEF Claims!Between, Recording, Tally
  <2>4. /\ together'.claims = Claims!Most(together.claims, Recording')
        /\ together'.bonuses = together.bonuses
        /\ together' = [claims |-> together'.claims, bonuses |-> together.bonuses]
    BY <2>1, <2>3
  <2>5. /\ together'.claims \in Nat /\ together'.claims >= together.claims
        /\ together'.claims >= Recording'
        /\ together'.claims <= Claims!Cardinality(ClaimRequest)
    BY <2>2, <2>4 DEF Claims!Most
  <2>6. Claims!TypeOK'
    <3>1. /\ together'.claims \in 0..Claims!Cardinality(ClaimRequest)
          /\ together.bonuses \in 0..Claims!Cardinality(BonusRequest)
      BY <2>5
    <3>2. together' \in [claims : 0..Claims!Cardinality(ClaimRequest), bonuses : 0..Claims!Cardinality(BonusRequest)]
      BY <2>4, <3>1
    <3>3. QED
      BY <2>1, <2>2, <3>2 DEF Claims!TypeOK
  <2>7. ClaimsCounted'
    <3>1. claims + Recording' + 1 <= MaxClaims + together'.claims
      <4>1. CASE claims < MaxClaims
        BY <2>2, <2>5, <4>1
      <4>2. CASE ~(claims < MaxClaims)
        BY <2>2, <2>5, <4>2 DEF ClaimsCounted
      <4>3. QED
        BY <4>1, <4>2
    <3>2. Paying' = Paying
      BY <2>1 DEF Paying
    <3>3. QED
      BY <2>1, <2>4, <3>1, <3>2 DEF ClaimsCounted
  <2>8. ChecksPassed'
    BY <2>1, <2>2 DEF ChecksPassed, Claims!ClaimsQualified, Claims!MarkedMeansPaid
  <2>9. QED
    BY <2>6, <2>7, <2>8
<1>3. CASE Claims!RecordClaim(r)
  <2>1. /\ claim[r] = "record" /\ Claims!To(r, "done") /\ claims' = claims + 1
        /\ UNCHANGED <<expired, earned, listed, bonus, bonuses, bonus_claimed, together, qualified>>
    BY <1>3 DEF Claims!RecordClaim
  <2>2. /\ claim' \in [ClaimRequest -> Claims!Checking \cup {"idle", "done"}]
        /\ claim'[r] = "done" /\ \A q \in ClaimRequest \ {r} : claim'[q] = claim[q]
        /\ Recording \in Nat /\ Recording' \in Nat
        /\ Recording = Recording' + 1
    BY <2>1, ClaimMoves DEF Claims!Checking
  <2>3. Claims!TypeOK'
    BY <2>1, <2>2 DEF Claims!TypeOK
  <2>4. ClaimsCounted'
    BY <2>1, <2>2 DEF ClaimsCounted, Paying
  <2>5. ChecksPassed'
    BY <2>1, <2>2 DEF ChecksPassed, Claims!ClaimsQualified, Claims!MarkedMeansPaid
  <2>6. QED
    BY <2>3, <2>4, <2>5
<1>4. QED
  BY <1>1, <1>2, <1>3

\* The steps of a bonus.
LEMMA BonusStepKeeps ==
  ASSUME Claims!ClaimsAssumption, ClaimsInv, NEW r \in BonusRequest,
         Claims!CheckBonus(r) \/ Claims!CheckRelation(r) \/ Claims!PayBonus(r) \/ Claims!MarkBonus(r)
  PROVE  ClaimsInv'
<1> USE ClaimsNumbers, BetweenIs DEF ClaimsInv
<1>1. CASE Claims!CheckBonus(r)
  <2> DEFINE step == IF bonuses > 0 THEN "done" ELSE "users"
  <2>1. /\ bonus[r] = "idle" /\ Claims!BonusTo(r, step)
        /\ together' = [together EXCEPT !.bonuses = Claims!Most(@, Claims!Between(bonus', {"users", "pay"}))]
        /\ UNCHANGED <<expired, earned, listed, claim, claims, bonuses, bonus_claimed, qualified>>
    BY <1>1 DEF Claims!CheckBonus
  <2>2. /\ bonus' \in [BonusRequest -> {"idle", "users", "pay", "mark", "done"}]
        /\ bonus'[r] = step /\ \A q \in BonusRequest \ {r} : bonus'[q] = bonus[q]
        /\ Paying \in Nat /\ Paying' \in Nat
        /\ Paying' <= Claims!Cardinality(BonusRequest)
        /\ step = "done" => Paying' = Paying
    BY <2>1, BonusMoves
  <2>3. Claims!Between(bonus', {"users", "pay"}) = Paying'
    BY <2>2, ClaimsSizes DEF Claims!Between, Paying, Tally
  <2>4. /\ together'.bonuses = Claims!Most(together.bonuses, Paying')
        /\ together'.claims = together.claims
        /\ together' = [claims |-> together.claims, bonuses |-> together'.bonuses]
    BY <2>1, <2>3
  <2>5. /\ together'.bonuses \in Nat /\ together'.bonuses >= together.bonuses
        /\ together'.bonuses >= Paying'
        /\ together'.bonuses <= Claims!Cardinality(BonusRequest)
    BY <2>2, <2>4 DEF Claims!Most
  <2>6. Claims!TypeOK'
    <3>1. /\ together'.bonuses \in 0..Claims!Cardinality(BonusRequest)
          /\ together.claims \in 0..Claims!Cardinality(ClaimRequest)
      BY <2>5
    <3>2. together' \in [claims : 0..Claims!Cardinality(ClaimRequest), bonuses : 0..Claims!Cardinality(BonusRequest)]
      BY <2>4, <3>1
    <3>3. QED
      BY <2>1, <2>2, <3>2 DEF Claims!TypeOK
  <2>7. ClaimsCounted'
    <3>1. bonuses + Paying' <= together'.bonuses
      <4>1. CASE bonuses > 0
        BY <2>2, <2>5, <4>1 DEF ClaimsCounted
      <4>2. CASE ~(bonuses > 0)
        BY <2>2, <2>5, <4>2
      <4>3. QED
        BY <4>1, <4>2
    <3>2. Recording' = Recording
      BY <2>1 DEF Recording
    <3>3. QED
      BY <2>1, <2>4, <3>1, <3>2 DEF ClaimsCounted
  <2>8. ChecksPassed'
    BY <2>1, <2>2 DEF ChecksPassed, Claims!ClaimsQualified, Claims!MarkedMeansPaid
  <2>9. QED
    BY <2>6, <2>7, <2>8
<1>2. CASE Claims!CheckRelation(r)
  <2>1. /\ bonus[r] = "users" /\ Claims!BonusTo(r, "pay")
        /\ UNCHANGED <<expired, earned, listed, claim, claims, bonuses, bonus_claimed, together, qualified>>
    BY <1>2 DEF Claims!CheckRelation
  <2>2. /\ bonus' \in [BonusRequest -> {"idle", "users", "pay", "mark", "done"}]
        /\ bonus'[r] = "pay" /\ \A q \in BonusRequest \ {r} : bonus'[q] = bonus[q]
        /\ Paying' = Paying
    BY <2>1, BonusMoves
  <2>3. Claims!TypeOK' /\ ClaimsCounted' /\ ChecksPassed'
    BY <2>1, <2>2 DEF Claims!TypeOK, ClaimsCounted, Recording, ChecksPassed,
       Claims!ClaimsQualified, Claims!MarkedMeansPaid
  <2>4. QED
    BY <2>3
<1>3. CASE Claims!PayBonus(r)
  <2>1. /\ bonus[r] = "pay" /\ Claims!BonusTo(r, "mark") /\ bonuses' = bonuses + 1
        /\ qualified' = (qualified \/ (listed /\ ~expired /\ Claims!Points + BonusPoints >= MinPoints))
        /\ UNCHANGED <<expired, earned, listed, claim, claims, bonus_claimed, together>>
    BY <1>3 DEF Claims!PayBonus
  <2>2. /\ bonus' \in [BonusRequest -> {"idle", "users", "pay", "mark", "done"}]
        /\ bonus'[r] = "mark" /\ \A q \in BonusRequest \ {r} : bonus'[q] = bonus[q]
        /\ Paying \in Nat /\ Paying' \in Nat
        /\ Paying = Paying' + 1
    BY <2>1, BonusMoves
  <2>3. (qualified => qualified') /\ qualified' \in BOOLEAN
    BY <2>1 DEF Claims!TypeOK
  <2>4. Claims!TypeOK'
    BY <2>1, <2>2, <2>3 DEF Claims!TypeOK
  <2>5. ClaimsCounted'
    BY <2>1, <2>2 DEF ClaimsCounted, Recording
  <2>6. bonuses' > 0
    BY <2>1
  <2>7. ChecksPassed'
    BY <2>1, <2>2, <2>3, <2>6 DEF ChecksPassed, Claims!ClaimsQualified, Claims!MarkedMeansPaid
  <2>8. QED
    BY <2>4, <2>5, <2>7
<1>4. CASE Claims!MarkBonus(r)
  <2>1. /\ bonus[r] = "mark" /\ Claims!BonusTo(r, "done") /\ bonus_claimed' = TRUE
        /\ UNCHANGED <<expired, earned, listed, claim, claims, bonuses, together, qualified>>
    BY <1>4 DEF Claims!MarkBonus
  <2>2. /\ bonus' \in [BonusRequest -> {"idle", "users", "pay", "mark", "done"}]
        /\ bonus'[r] = "done" /\ \A q \in BonusRequest \ {r} : bonus'[q] = bonus[q]
        /\ Paying' = Paying
    BY <2>1, BonusMoves
  <2>3. Claims!TypeOK' /\ ClaimsCounted' /\ ChecksPassed'
    BY <2>1, <2>2 DEF Claims!TypeOK, ClaimsCounted, Recording, ChecksPassed,
       Claims!ClaimsQualified, Claims!MarkedMeansPaid
  <2>4. QED
    BY <2>3
<1>5. QED
  BY <1>1, <1>2, <1>3, <1>4

LEMMA AbandonKeepsClaims == ASSUME Claims!ClaimsAssumption, ClaimsInv, Claims!Abandon PROVE ClaimsInv'
<1> USE ClaimsNumbers DEF ClaimsInv
<1>1. UNCHANGED <<expired, earned, listed, claims, bonuses, bonus_claimed, together, qualified>>
  BY DEF Claims!Abandon
<1>2. CASE \E r \in ClaimRequest : claim[r] # "idle" /\ Claims!To(r, "idle") /\ UNCHANGED bonus
  <2>1. PICK r \in ClaimRequest : Claims!To(r, "idle") /\ UNCHANGED bonus
    BY <1>2
  <2>2. /\ claim' \in [ClaimRequest -> Claims!Checking \cup {"idle", "done"}]
        /\ claim'[r] = "idle" /\ \A q \in ClaimRequest \ {r} : claim'[q] = claim[q]
        /\ Recording \in Nat /\ Recording' \in Nat
        /\ Recording' <= Recording
    BY <2>1, ClaimMoves DEF Claims!Checking
  <2>3. Claims!TypeOK' /\ ChecksPassed'
    BY <1>1, <2>1, <2>2 DEF Claims!TypeOK, ChecksPassed, Claims!ClaimsQualified,
       Claims!MarkedMeansPaid
  <2>4. ClaimsCounted'
    BY <1>1, <2>1, <2>2 DEF ClaimsCounted, Paying
  <2>5. QED
    BY <2>3, <2>4
<1>3. CASE \E r \in BonusRequest : bonus[r] # "idle" /\ Claims!BonusTo(r, "idle") /\ UNCHANGED claim
  <2>1. PICK r \in BonusRequest : Claims!BonusTo(r, "idle") /\ UNCHANGED claim
    BY <1>3
  <2>2. /\ bonus' \in [BonusRequest -> {"idle", "users", "pay", "mark", "done"}]
        /\ bonus'[r] = "idle" /\ \A q \in BonusRequest \ {r} : bonus'[q] = bonus[q]
        /\ Paying \in Nat /\ Paying' \in Nat
        /\ Paying' <= Paying
    BY <2>1, BonusMoves
  <2>3. Claims!TypeOK' /\ ChecksPassed'
    BY <1>1, <2>1, <2>2 DEF Claims!TypeOK, ChecksPassed, Claims!ClaimsQualified,
       Claims!MarkedMeansPaid
  <2>4. ClaimsCounted'
    BY <1>1, <2>1, <2>2 DEF ClaimsCounted, Recording
  <2>5. QED
    BY <2>3, <2>4
<1>4. QED
  BY <1>2, <1>3 DEF Claims!Abandon

LEMMA ClaimsStep == ASSUME Claims!ClaimsAssumption, ClaimsInv, [Claims!Next]_claimsVars PROVE ClaimsInv'
<1>1. CASE Claims!Next
  BY <1>1, OthersKeepClaims, ClaimStepKeeps, BonusStepKeeps, AbandonKeepsClaims DEF Claims!Next
<1>2. CASE UNCHANGED claimsVars
  BY <1>2 DEF claimsVars, ClaimsInv, Claims!TypeOK, ClaimsCounted, ChecksPassed, Recording,
     Paying, Tally,
              Claims!ClaimsQualified, Claims!MarkedMeansPaid
<1>3. QED
  BY <1>1, <1>2

LEMMA ClaimsHold ==
  ASSUME Claims!ClaimsAssumption, ClaimsInv
  PROVE  Claims!TypeOK /\ Claims!ClaimsWithinLimit /\ Claims!BonusOncePerRace /\ Claims!ClaimsQualified /\ Claims!MarkedMeansPaid
<1>1. Recording \in Nat /\ Paying \in Nat
  BY TallyType, ClaimsSizes DEF Claims!ClaimsAssumption, Recording, Paying
<1>2. Claims!ClaimsWithinLimit /\ Claims!BonusOncePerRace
  BY <1>1, ClaimsNumbers DEF ClaimsInv, ClaimsCounted, Claims!ClaimsWithinLimit,
     Claims!BonusOncePerRace, Claims!Most
<1>3. QED
  BY <1>2 DEF ClaimsInv, ChecksPassed

-----------------------------------------------------------------------------
(* Batches *)

\* The inductive invariant: a run is counted as one of those that attempts and
\* stalls allow; no run has come to an item twice, so what is still before it was
\* applied by earlier runs only; what it has counted are the items it has passed.
ItemsPassed == {i \in Batch!Item : i < next \/ (i = next /\ processed)}

RunsCounted ==
  /\ state = "none" => runs = 0 /\ made = 0 /\ stalls = 0
  /\ state \in {"waiting", "failed"} => runs = made + stalls
  /\ state \in {"active", "completed"} => runs = 1 + made + stalls
  /\ state \in {"none", "waiting", "active"} => made < BatchAttempts

ItemsOncePerRun ==
  \A i \in Batch!Item : /\ applied[i] <= runs
                        /\ state = "active" /\ i \notin ItemsPassed => applied[i] < runs

ItemsCounted ==
  state = "active" =>
    /\ processed => next <= BatchItems
    /\ succeeded \cup failed = ItemsPassed /\ succeeded \cap failed = {}
    /\ \A i \in succeeded : applied[i] > 0
    /\ runs = 1 => \A i \in failed : applied[i] = 0

BatchInv == Batch!TypeOK /\ RunsCounted /\ ItemsOncePerRun /\ ItemsCounted /\ Batch!SummaryComplete

LEMMA BatchInit == ASSUME Batch!BatchJobsAssumption, Batch!Init PROVE BatchInv
<1>1. summary \in [succeeded : SUBSET Batch!Item, failed : SUBSET Batch!Item]
  BY DEF Batch!Init, Batch!None
<1>2. /\ next \in 1..(BatchItems + 1) /\ progress \in 0..BatchItems /\ applied \in [Batch!Item -> Nat]
      /\ made \in 0..BatchAttempts /\ stalls \in 0..(BatchStalls + 1) /\ flaws \in 0..BatchFlaws
  BY DEF Batch!BatchJobsAssumption, Batch!Init
<1>3. Batch!TypeOK
  BY <1>1, <1>2 DEF Batch!Init, Batch!TypeOK
<1>4. QED
  BY <1>2, <1>3 DEF Batch!BatchJobsAssumption, Batch!Init, BatchInv, RunsCounted,
     ItemsOncePerRun, ItemsCounted,
              Batch!SummaryComplete

LEMMA BatchTypeKept == ASSUME Batch!BatchJobsAssumption, BatchInv, [Batch!Next]_batchVars PROVE Batch!TypeOK'
<1> USE DEF Batch!BatchJobsAssumption, BatchInv, Batch!TypeOK, Batch!Item
<1>1. CASE Batch!Queue
  BY <1>1 DEF Batch!Queue
<1>2. CASE Batch!StartRun
  <2>1. next' \in 1..(BatchItems + 1) /\ runs' \in Nat
    BY <1>2 DEF Batch!StartRun
  <2>2. QED
    BY <1>2, <2>1 DEF Batch!StartRun
<1>3. CASE Batch!Process
  <2>1. next \in 1..BatchItems
    BY <1>3 DEF Batch!Process
  <2>2. applied' \in [1..BatchItems -> Nat]
    BY <1>3, <2>1 DEF Batch!Process
  <2>3. flaws' \in 0..BatchFlaws
    BY <1>3 DEF Batch!Process
  <2>4. succeeded' \subseteq 1..BatchItems /\ failed' \subseteq 1..BatchItems
    BY <1>3, <2>1 DEF Batch!Process
  <2>5. QED
    BY <1>3, <2>2, <2>3, <2>4 DEF Batch!Process
<1>4. CASE Batch!Report
  <2>1. next' \in 1..(BatchItems + 1) /\ progress' \in 0..BatchItems
    BY <1>4 DEF Batch!Report, ItemsCounted
  <2>2. QED
    BY <1>4, <2>1 DEF Batch!Report
<1>5. CASE Batch!ReportFails
  BY <1>5 DEF Batch!ReportFails, RunsCounted
<1>6. CASE Batch!Stall
  BY <1>6 DEF Batch!Stall
<1>7. CASE Batch!Complete
  BY <1>7 DEF Batch!Complete
<1>8. CASE UNCHANGED batchVars
  BY <1>8 DEF batchVars
<1>9. QED
  BY <1>1, <1>2, <1>3, <1>4, <1>5, <1>6, <1>7, <1>8 DEF Batch!Next, Batch!Run

LEMMA BatchRunsKept ==
  ASSUME Batch!BatchJobsAssumption, BatchInv, [Batch!Next]_batchVars
  PROVE  RunsCounted' /\ ItemsOncePerRun'
<1> USE DEF Batch!BatchJobsAssumption, BatchInv, Batch!TypeOK, RunsCounted, ItemsOncePerRun, ItemsPassed, Batch!Item
<1>1. CASE Batch!Queue
  BY <1>1 DEF Batch!Queue
<1>2. CASE Batch!StartRun
  BY <1>2 DEF Batch!StartRun
<1>3. CASE Batch!Process
  <2>1. next \in 1..BatchItems /\ applied[next] < runs
    BY <1>3 DEF Batch!Process
  <2>2. RunsCounted'
    BY <1>3 DEF Batch!Process
  <2>3. ASSUME NEW i \in Batch!Item PROVE applied'[i] = applied[i] \/ (i = next /\ applied'[i] = applied[i] + 1)
    BY <1>3, <2>3 DEF Batch!Process
  <2>4. QED
    BY <1>3, <2>1, <2>2, <2>3 DEF Batch!Process
<1>4. CASE Batch!Report
  BY <1>4 DEF Batch!Report
<1>5. CASE Batch!ReportFails
  BY <1>5 DEF Batch!ReportFails
<1>6. CASE Batch!Stall
  BY <1>6 DEF Batch!Stall
<1>7. CASE Batch!Complete
  BY <1>7 DEF Batch!Complete
<1>8. CASE UNCHANGED batchVars
  BY <1>8 DEF batchVars
<1>9. QED
  BY <1>1, <1>2, <1>3, <1>4, <1>5, <1>6, <1>7, <1>8 DEF Batch!Next, Batch!Run

LEMMA BatchItemsKept ==
  ASSUME Batch!BatchJobsAssumption, BatchInv, [Batch!Next]_batchVars
  PROVE  ItemsCounted' /\ Batch!SummaryComplete'
<1> USE DEF Batch!BatchJobsAssumption, BatchInv, Batch!TypeOK, ItemsCounted, Batch!Item
<1>1. CASE Batch!Queue
  BY <1>1 DEF Batch!Queue, Batch!SummaryComplete
<1>2. CASE Batch!StartRun
  BY <1>2 DEF Batch!StartRun, Batch!SummaryComplete, ItemsPassed
<1>3. CASE Batch!Process
  <2>1. /\ next \in 1..BatchItems /\ next \notin ItemsPassed /\ next \notin succeeded
        /\ applied[next] < runs /\ applied[next] \in Nat
    BY <1>3 DEF Batch!Process, ItemsOncePerRun, ItemsPassed
  <2>2. ItemsPassed' = ItemsPassed \cup {next}
    BY <1>3, <2>1 DEF Batch!Process, ItemsPassed
  <2>3. ASSUME NEW i \in Batch!Item
        PROVE  applied'[i] = IF i \in succeeded' \ succeeded THEN applied[i] + 1 ELSE applied[i]
    <3>1. CASE applied' = [applied EXCEPT ![next] = @ + 1] /\ succeeded' = succeeded \cup {next}
      BY <2>1, <2>3, <3>1
    <3>2. CASE UNCHANGED <<applied, succeeded>>
      BY <2>3, <3>2
    <3>3. QED
      BY <1>3, <3>1, <3>2 DEF Batch!Process
  <2>4. succeeded' \cup failed' = ItemsPassed' /\ succeeded' \cap failed' = {}
    <3>1. succeeded \cup failed = ItemsPassed /\ succeeded \cap failed = {}
      BY <1>3 DEF Batch!Process
    <3>2. \/ succeeded' = succeeded \cup {next} /\ failed' = failed
          \/ failed' = failed \cup {next} /\ succeeded' = succeeded
      BY <1>3 DEF Batch!Process
    <3>3. succeeded' \cup failed' = (succeeded \cup failed) \cup {next}
      BY <3>2
    <3>4. next \notin succeeded /\ next \notin failed
      BY <2>1, <3>1
    <3>5. succeeded' \cap failed' = {}
      BY <3>1, <3>2, <3>4
    <3>6. QED
      BY <2>2, <3>1, <3>3, <3>5
  <2>5. \A i \in succeeded' : applied'[i] > 0
    <3> SUFFICES ASSUME NEW i \in succeeded' PROVE applied'[i] > 0
      OBVIOUS
    <3>1. i \in Batch!Item /\ applied[i] \in Nat
      BY <1>3, <2>1 DEF Batch!Process
    <3>2. i \in succeeded => applied[i] > 0
      BY <1>3 DEF Batch!Process
    <3>3. QED
      BY <2>3, <3>1, <3>2
  <2>6. runs' = 1 => \A i \in failed' : applied'[i] = 0
    <3>1. runs' = runs /\ failed' \subseteq failed \cup {next} /\ (next \in failed' => succeeded' = succeeded)
      BY <1>3, <2>1 DEF Batch!Process
    <3>2. SUFFICES ASSUME runs = 1, NEW i \in failed' PROVE applied'[i] = 0
      BY <3>1
    <3>3. i \in Batch!Item /\ i \notin succeeded'
      BY <1>3, <2>1, <2>4, <3>1, <3>2 DEF Batch!Process
    <3>4. applied'[i] = applied[i]
      BY <2>3, <3>3
    <3>5. i \in failed => applied[i] = 0
      BY <1>3, <3>2 DEF Batch!Process
    <3>6. i = next => applied[i] = 0
      BY <2>1, <3>2
    <3>7. QED
      BY <3>1, <3>2, <3>4, <3>5, <3>6
  <2>7. QED
    BY <1>3, <2>1, <2>4, <2>5, <2>6 DEF Batch!Process, Batch!SummaryComplete
<1>4. CASE Batch!Report
  <2>1. ItemsPassed' = ItemsPassed
    BY <1>4 DEF Batch!Report, ItemsPassed
  <2>2. QED
    BY <1>4, <2>1 DEF Batch!Report, Batch!SummaryComplete
<1>5. CASE Batch!ReportFails
  BY <1>5 DEF Batch!ReportFails, Batch!SummaryComplete
<1>6. CASE Batch!Stall
  BY <1>6 DEF Batch!Stall, Batch!SummaryComplete
<1>7. CASE Batch!Complete
  <2>1. ItemsPassed = Batch!Item
    BY <1>7 DEF Batch!Complete, ItemsPassed
  <2>2. QED
    BY <1>7, <2>1 DEF Batch!Complete, Batch!SummaryComplete
<1>8. CASE UNCHANGED batchVars
  BY <1>8 DEF batchVars, Batch!SummaryComplete, ItemsPassed
<1>9. QED
  BY <1>1, <1>2, <1>3, <1>4, <1>5, <1>6, <1>7, <1>8 DEF Batch!Next, Batch!Run

LEMMA BatchStep == ASSUME Batch!BatchJobsAssumption, BatchInv, [Batch!Next]_batchVars PROVE BatchInv'
BY BatchTypeKept, BatchRunsKept, BatchItemsKept DEF BatchInv

\* What AppliedOncePerRun says follows.
LEMMA BatchHolds == ASSUME Batch!BatchJobsAssumption, BatchInv PROVE Batch!AppliedOncePerRun
BY DEF Batch!BatchJobsAssumption, BatchInv, Batch!TypeOK, RunsCounted, ItemsOncePerRun,
   Batch!AppliedOncePerRun

-----------------------------------------------------------------------------
(* Inbound actions *)

\* The inductive invariant: before its award a job has been awarded at most once
\* per death of a worker, and a job no worker died of has its award with its audit
\* entry, unless it is between the two.
WorkUnderWay(c) ==
  /\ awarding[c] # "none" <=> action[c].state = "active"
  /\ action[c].state \in {"waiting", "active"} => action[c].stalls <= InboundStalls
  /\ call[c] = "none" => action[c].state = "none"
  /\ action[c].state = "none" => action[c].stalls = 0 /\ awards[c] = 0 /\ audits[c] = 0

AwardsCounted(c) ==
  /\ awards[c] <= 1 + action[c].stalls
  /\ action[c].state = "waiting" \/ awarding[c] = "award" => awards[c] <= action[c].stalls

AuditsCounted(c) ==
  action[c].stalls = 0 =>
    /\ action[c].state = "waiting" \/ awarding[c] = "award" => awards[c] = 0 /\ audits[c] = 0
    /\ awarding[c] = "audit" => awards[c] = 1 /\ audits[c] = 0
    /\ action[c].state = "done" => awards[c] = audits[c]

CallCounted(c) == WorkUnderWay(c) /\ AwardsCounted(c) /\ AuditsCounted(c)

InboundInv == Inbound!TypeOK /\ \A c \in InboundCall : CallCounted(c)

LEMMA InboundInit == ASSUME Inbound!InboundActionsAssumption, Inbound!Init PROVE InboundInv
BY DEF Inbound!InboundActionsAssumption, Inbound!Init, InboundInv, Inbound!TypeOK, CallCounted,
   WorkUnderWay,
       AwardsCounted, AuditsCounted

LEMMA InboundTypeKept ==
  ASSUME Inbound!InboundActionsAssumption, InboundInv, [Inbound!Next]_inboundVars
  PROVE  Inbound!TypeOK'
<1> USE DEF Inbound!InboundActionsAssumption, InboundInv, Inbound!TypeOK
<1>1. ASSUME NEW c \in InboundCall, Inbound!Post(c) PROVE Inbound!TypeOK'
  BY <1>1 DEF Inbound!Post
<1>2. ASSUME NEW c \in InboundCall, Inbound!LogDelivery(c) PROVE Inbound!TypeOK'
  BY <1>2 DEF Inbound!LogDelivery
<1>3. ASSUME NEW c \in InboundCall, Inbound!Take(c) PROVE Inbound!TypeOK'
  BY <1>3 DEF Inbound!Take
<1>4. ASSUME NEW c \in InboundCall, Inbound!Award(c) PROVE Inbound!TypeOK'
  BY <1>4 DEF Inbound!Award
<1>5. ASSUME NEW c \in InboundCall, Inbound!Audit(c) PROVE Inbound!TypeOK'
  BY <1>5 DEF Inbound!Audit
<1>6. ASSUME NEW c \in InboundCall, Inbound!Throw(c) PROVE Inbound!TypeOK'
  BY <1>6 DEF Inbound!Throw
<1>7. ASSUME NEW c \in InboundCall, Inbound!Stall(c) PROVE Inbound!TypeOK'
  <2>1. action[c].stalls \in 0..InboundStalls
    BY <1>7 DEF Inbound!Stall, CallCounted, WorkUnderWay
  <2>2. QED
    BY <1>7, <2>1 DEF Inbound!Stall
<1>8. CASE UNCHANGED inboundVars
  BY <1>8 DEF inboundVars
<1>9. QED
  BY <1>1, <1>2, <1>3, <1>4, <1>5, <1>6, <1>7, <1>8 DEF Inbound!Next, Inbound!Run

LEMMA InboundStep ==
  ASSUME Inbound!InboundActionsAssumption, InboundInv, [Inbound!Next]_inboundVars
  PROVE  InboundInv'
<1>1. Inbound!TypeOK'
  BY InboundTypeKept
<1>2. SUFFICES ASSUME NEW d \in InboundCall PROVE CallCounted(d)'
  BY <1>1 DEF InboundInv
<1>3. CallCounted(d)
  BY DEF InboundInv
<1> USE DEF CallCounted, WorkUnderWay, AwardsCounted, AuditsCounted
<1>4. ASSUME action'[d] = action[d], awarding'[d] = awarding[d], awards'[d] = awards[d],
             audits'[d] = audits[d], call'[d] = call[d] \/ call'[d] # "none"
      PROVE  CallCounted(d)'
  BY <1>3, <1>4
<1>5. /\ awards[d] \in Nat /\ audits[d] \in Nat /\ action[d].stalls \in Nat /\ InboundStalls \in Nat
      /\ awards \in [InboundCall -> Nat] /\ audits \in [InboundCall -> Nat] /\ d \in DOMAIN action
      /\ d \in DOMAIN awarding /\ d \in DOMAIN call
      /\ DOMAIN action[d] = {"state", "stalls"}
  BY DEF Inbound!InboundActionsAssumption, InboundInv, Inbound!TypeOK
<1>6. ASSUME NEW c \in InboundCall, Inbound!Post(c) PROVE CallCounted(d)'
  BY <1>3, <1>4, <1>5, <1>6 DEF Inbound!Post
<1>7. ASSUME NEW c \in InboundCall, Inbound!LogDelivery(c) PROVE CallCounted(d)'
  BY <1>3, <1>4, <1>5, <1>7 DEF Inbound!LogDelivery
<1>8. ASSUME NEW c \in InboundCall, Inbound!Take(c) PROVE CallCounted(d)'
  BY <1>3, <1>4, <1>5, <1>8 DEF Inbound!Take
<1>9. ASSUME NEW c \in InboundCall, Inbound!Award(c) PROVE CallCounted(d)'
  BY <1>3, <1>4, <1>5, <1>9 DEF Inbound!Award
<1>10. ASSUME NEW c \in InboundCall, Inbound!Audit(c) PROVE CallCounted(d)'
  BY <1>3, <1>4, <1>5, <1>10 DEF Inbound!Audit
<1>11. ASSUME NEW c \in InboundCall, Inbound!Throw(c) PROVE CallCounted(d)'
  BY <1>3, <1>4, <1>5, <1>11 DEF Inbound!Throw
<1>12. ASSUME NEW c \in InboundCall, Inbound!Stall(c) PROVE CallCounted(d)'
  BY <1>3, <1>4, <1>5, <1>12 DEF Inbound!Stall
<1>13. CASE UNCHANGED inboundVars
  BY <1>4, <1>13 DEF inboundVars
<1>14. QED
  BY <1>6, <1>7, <1>8, <1>9, <1>10, <1>11, <1>12, <1>13 DEF Inbound!Next, Inbound!Run

LEMMA InboundHolds == ASSUME InboundInv PROVE Inbound!AwardsPerPost
BY DEF InboundInv, Inbound!TypeOK, CallCounted, AwardsCounted, AuditsCounted,
   Inbound!AwardsPerPost

-----------------------------------------------------------------------------
(* Distribution jobs on a list *)

Unpaid(S, n) == \A r \in S : sent[r] = unheard[r] /\ sent[r] <= n
Paid(S)      == \A r \in S : sent[r] = unheard[r] + 1

\* The inductive invariant: the id of the job is in the list or one worker at most
\* has it; no payment to whoever is still to be paid has been heard of, and there were
\* no more than runs before this one; and the worker's copy is the job as it was saved.
OneWorks ==
  /\ \A w \in ListWorker : worker[w].step = "idle" => worker[w] = List!Idle
  /\ \A v, w \in ListWorker : worker[v] # List!Idle /\ worker[w] # List!Idle => v = w
  /\ queue # "popped" => \A w \in ListWorker : worker[w] = List!Idle

Listed ==
  /\ stored = List!NoJob => queue = "new" /\ Unpaid(Recipient, 0)
  /\ queue # "popped" => Unpaid(stored.pending, stored.retryCount)
  /\ Paid(stored.successful)
  /\ \A r \in Recipient : sent[r] <= unheard[r] + 1 /\ sent[r] <= stored.retryCount + 1

RunUnderWay(w) ==
  /\ worker[w].step \in {"read", "push"} => Unpaid(stored.pending, stored.retryCount)
  /\ worker[w].step = "run" =>
       /\ worker[w].job = stored
       /\ worker[w].todo \subseteq stored.pending
       /\ worker[w].failures \subseteq stored.pending \ worker[w].todo
       /\ Unpaid(worker[w].todo, stored.retryCount)
       /\ Unpaid(worker[w].failures, stored.retryCount + 1)
       /\ Paid(stored.pending \ (worker[w].todo \cup worker[w].failures))

ListInv == List!TypeOK /\ OneWorks /\ Listed /\ \A w \in ListWorker : RunUnderWay(w)

LEMMA ListInit == ASSUME List!ListJobsAssumption, List!Init PROVE ListInv
<1>1. List!NoJob \in List!Jobs
  BY DEF List!ListJobsAssumption, List!NoJob, List!Jobs
<1>2. List!TypeOK
  BY <1>1 DEF List!ListJobsAssumption, List!Init, List!TypeOK, List!Idle
<1>3. OneWorks /\ Listed /\ \A w \in ListWorker : RunUnderWay(w)
  BY DEF List!Init, OneWorks, Listed, RunUnderWay, List!Idle, List!NoJob, Paid, Unpaid
<1>4. QED
  BY <1>2, <1>3 DEF ListInv

\* What a worker saves is a job.
LEMMA OutcomeType ==
  ASSUME List!ListJobsAssumption, ListInv, NEW w \in ListWorker, worker[w].step = "run"
  PROVE  /\ List!Outcome(w) \in List!Jobs /\ List!Outcome(w) # List!NoJob
         /\ List!Outcome(w).pending = worker[w].failures
         /\ List!Outcome(w).successful = stored.successful \cup (stored.pending \ worker[w].failures)
         /\ \/ List!Outcome(w).retryCount = stored.retryCount + 1
            \/ /\ List!Outcome(w).retryCount = stored.retryCount
               /\ List!Outcome(w).status # "retrying"
<1>1. worker[w].job = stored /\ stored \in List!Jobs /\ worker[w].failures \subseteq Recipient
  BY DEF ListInv, List!TypeOK, RunUnderWay
<1>2. /\ stored.retryCount \in 0..ListRetries /\ stored.pending \subseteq Recipient
      /\ stored.successful \subseteq Recipient
  BY <1>1 DEF List!Jobs
<1>3. stored.retryCount + (IF worker[w].failures # {} /\ stored.retryCount < ListRetries THEN 1 ELSE 0)
        \in 0..ListRetries
  BY <1>2 DEF List!ListJobsAssumption
<1>4. QED
  BY <1>1, <1>2, <1>3 DEF List!Outcome, List!Jobs, List!NoJob

LEMMA SaveKeepsList == ASSUME List!ListJobsAssumption, ListInv, List!Save PROVE ListInv'
<1>1. stored' = [List!NoJob EXCEPT !.status = "queued", !.pending = Recipient] /\ Unpaid(Recipient, 0)
  BY DEF List!Save, ListInv, Listed
<1>2. /\ stored' \in List!Jobs /\ stored' # List!NoJob /\ stored'.pending = Recipient /\ stored'.successful = {}
      /\ stored'.retryCount = 0
  <2>1. stored' = [status |-> "queued", pending |-> Recipient, successful |-> {}, failed |-> {},
                   retryCount |-> 0]
    BY <1>1 DEF List!NoJob
  <2>2. QED
    BY <2>1 DEF List!NoJob, List!Jobs, List!ListJobsAssumption
<1>3. queue = "new" /\ \A w \in ListWorker : worker[w] = List!Idle
  BY DEF List!Save, ListInv, Listed, OneWorks
<1>4. List!TypeOK'
  BY <1>2 DEF List!Save, ListInv, List!TypeOK
<1>5. OneWorks' /\ Listed'
  BY <1>1, <1>2 DEF List!Save, ListInv, OneWorks, Listed, Paid, Unpaid
<1>6. \A w \in ListWorker : RunUnderWay(w)'
  BY <1>3 DEF List!Save, RunUnderWay, List!Idle
<1>7. QED
  BY <1>4, <1>5, <1>6 DEF ListInv

LEMMA PushKeepsList == ASSUME ListInv, List!Push PROVE ListInv'
<1>1. stored # List!NoJob
  BY DEF List!Push, List!NoJob
<1>2. QED
  BY <1>1 DEF List!Push, ListInv, List!TypeOK, OneWorks, Listed, RunUnderWay, Paid, Unpaid

LEMMA PopKeepsList == ASSUME ListInv, NEW w \in ListWorker, List!Pop(w) PROVE ListInv'
<1>1. /\ worker' = [worker EXCEPT ![w].step = "read"] /\ Unpaid(stored.pending, stored.retryCount)
      /\ \A v \in ListWorker : worker[v] = List!Idle
  BY DEF List!Pop, ListInv, OneWorks, Listed
<1>2. \A v \in ListWorker : worker'[v] = IF v = w THEN [List!Idle EXCEPT !.step = "read"] ELSE List!Idle
  BY <1>1 DEF ListInv, List!TypeOK
<1>3. List!TypeOK'
  BY <1>1 DEF List!Pop, ListInv, List!TypeOK
<1>4. OneWorks'
  BY <1>2 DEF List!Pop, OneWorks, List!Idle
<1>5. Listed'
  BY DEF List!Pop, ListInv, Listed, Paid, Unpaid
<1>6. \A v \in ListWorker : RunUnderWay(v)'
  BY <1>1, <1>2 DEF List!Pop, RunUnderWay, List!Idle, Unpaid
<1>7. QED
  BY <1>3, <1>4, <1>5, <1>6 DEF ListInv

\* A worker that has the id is the only one.
LEMMA OthersIdle ==
  ASSUME ListInv, NEW w \in ListWorker, worker[w].step # "idle"
  PROVE  /\ queue = "popped" /\ stored # List!NoJob
         /\ \A v \in ListWorker \ {w} : worker[v] = List!Idle
BY DEF ListInv, List!TypeOK, OneWorks, Listed, List!Idle

LEMMA BeginKeepsList == ASSUME ListInv, NEW w \in ListWorker, List!Begin(w) PROVE ListInv'
<1> DEFINE begun == [stored EXCEPT !.status = "processing", !.failed = {}]
<1>1. /\ stored' = begun /\ UNCHANGED <<queue, sent, unheard, glitches, deaths>>
      /\ worker' = [worker EXCEPT ![w] = [step |-> "run", job |-> begun, todo |-> begun.pending,
                                          failures |-> {}]]
      /\ worker[w].step = "read"
  BY DEF List!Begin
<1>2. stored \in List!Jobs /\ Unpaid(stored.pending, stored.retryCount)
  BY <1>1 DEF ListInv, List!TypeOK, RunUnderWay
<1>3. /\ begun \in List!Jobs /\ begun # List!NoJob /\ begun.pending = stored.pending
      /\ begun.successful = stored.successful /\ begun.retryCount = stored.retryCount
  BY <1>2 DEF List!Jobs, List!NoJob
<1>4. /\ queue = "popped" /\ \A v \in ListWorker \ {w} : worker[v] = List!Idle
  BY <1>1, OthersIdle
<1>5. \A v \in ListWorker : worker'[v] = IF v = w
                                     THEN [step |-> "run", job |-> stored', todo |-> stored'.pending,
                                           failures |-> {}]
                                     ELSE List!Idle
  BY <1>1, <1>4 DEF ListInv, List!TypeOK
<1> HIDE DEF begun
<1>6. stored' \in List!Jobs /\ stored'.pending \subseteq Recipient
  BY <1>1, <1>3 DEF List!Jobs
<1>7. List!TypeOK'
  <2>1. [step |-> "run", job |-> begun, todo |-> begun.pending, failures |-> {}]
          \in [step : {"idle", "read", "run", "push"}, job : List!Jobs,
               todo : SUBSET Recipient, failures : SUBSET Recipient]
    BY <1>1, <1>6
  <2>2. QED
    BY <1>1, <1>6, <2>1 DEF ListInv, List!TypeOK
<1>8. OneWorks'
  BY <1>1, <1>4 DEF OneWorks, List!Idle
<1>9. Listed'
  BY <1>1, <1>3, <1>4 DEF ListInv, Listed, Paid, Unpaid
<1>10. \A v \in ListWorker : RunUnderWay(v)'
  BY <1>1, <1>2, <1>3, <1>5 DEF RunUnderWay, List!Idle, Paid, Unpaid
<1>11. QED
  BY <1>7, <1>8, <1>9, <1>10 DEF ListInv

LEMMA RecipientKeepsList ==
  ASSUME List!ListJobsAssumption, ListInv, NEW w \in ListWorker, NEW r \in Recipient,
         List!ProcessRecipient(w, r)
  PROVE  ListInv'
<1> DEFINE runsBefore == stored.retryCount
           kept == worker[w].failures
           rest == worker[w].todo \ {r}
<1>1. /\ worker[w].step = "run" /\ r \in worker[w].todo
      /\ UNCHANGED <<queue, stored, deaths>>
  BY DEF List!ProcessRecipient
<1>2. /\ queue = "popped" /\ stored # List!NoJob /\ \A v \in ListWorker \ {w} : worker[v] = List!Idle
  BY <1>1, OthersIdle
<1>3. /\ stored \in List!Jobs /\ worker[w].job = stored /\ worker[w].todo \subseteq stored.pending
      /\ kept \subseteq stored.pending \ worker[w].todo
      /\ stored.pending \subseteq Recipient /\ stored.successful \subseteq Recipient
      /\ Unpaid(worker[w].todo, runsBefore) /\ Unpaid(kept, runsBefore + 1)
      /\ Paid(stored.pending \ (worker[w].todo \cup kept))
      /\ sent[r] = unheard[r] /\ sent[r] <= runsBefore /\ runsBefore \in Nat
      /\ sent \in [Recipient -> Nat] /\ unheard \in [Recipient -> Nat]
      /\ Paid(stored.successful)
      /\ \A q \in Recipient : sent[q] <= unheard[q] + 1 /\ sent[q] <= runsBefore + 1
  <2>1. /\ stored \in List!Jobs /\ stored.pending \subseteq Recipient
        /\ stored.successful \subseteq Recipient /\ runsBefore \in Nat
        /\ sent \in [Recipient -> Nat] /\ unheard \in [Recipient -> Nat]
    BY DEF ListInv, List!TypeOK, List!Jobs
  <2>2. /\ Paid(stored.successful)
        /\ \A q \in Recipient : sent[q] <= unheard[q] + 1 /\ sent[q] <= runsBefore + 1
    BY DEF ListInv, Listed
  <2>3. /\ worker[w].job = stored /\ worker[w].todo \subseteq stored.pending
        /\ kept \subseteq stored.pending \ worker[w].todo
        /\ Unpaid(worker[w].todo, runsBefore) /\ Unpaid(kept, runsBefore + 1)
        /\ Paid(stored.pending \ (worker[w].todo \cup kept))
    BY <1>1 DEF ListInv, RunUnderWay
  <2>4. sent[r] = unheard[r] /\ sent[r] <= runsBefore
    BY <1>1, <2>3 DEF Unpaid
  <2>5. QED
    BY <2>1, <2>2, <2>3, <2>4
<1>4. /\ worker'[w].step = "run" /\ worker'[w].job = stored
      /\ worker'[w].todo = rest
      /\ \/ sent'[r] = sent[r] + 1 /\ unheard' = unheard /\ worker'[w].failures = kept
         \/ sent'[r] = sent[r] /\ unheard' = unheard /\ worker'[w].failures = kept \cup {r}
         \/ /\ sent'[r] = sent[r] + 1 /\ unheard'[r] = unheard[r] + 1
            /\ worker'[w].failures = kept \cup {r}
      /\ \A v \in ListWorker \ {w} : worker'[v] = List!Idle
      /\ \A q \in Recipient \ {r} : sent'[q] = sent[q] /\ unheard'[q] = unheard[q]
  <2>1. /\ w \in DOMAIN worker /\ DOMAIN worker = ListWorker
        /\ {"step", "todo", "job", "failures"} = DOMAIN worker[w]
    BY DEF ListInv, List!TypeOK
  <2>2. CASE /\ sent' = [sent EXCEPT ![r] = @ + 1] /\ UNCHANGED unheard
             /\ worker' = [worker EXCEPT ![w].todo = @ \ {r}]
    BY <1>1, <1>2, <1>3, <2>1, <2>2
  <2>3. CASE /\ worker' = [worker EXCEPT ![w].todo = @ \ {r}, ![w].failures = @ \cup {r}]
             /\ UNCHANGED <<sent, unheard>>
    BY <1>1, <1>2, <1>3, <2>1, <2>3
  <2>4. CASE /\ worker' = [worker EXCEPT ![w].todo = @ \ {r}, ![w].failures = @ \cup {r}]
             /\ sent' = [sent EXCEPT ![r] = @ + 1] /\ unheard' = [unheard EXCEPT ![r] = @ + 1]
    BY <1>1, <1>2, <1>3, <2>1, <2>4
  <2>5. QED
    BY <2>2, <2>3, <2>4 DEF List!ProcessRecipient
<1>5. List!TypeOK'
  <2>1. worker' \in [ListWorker -> [step : {"idle", "read", "run", "push"}, job : List!Jobs,
                                todo : SUBSET Recipient, failures : SUBSET Recipient]]
    BY <1>1, <1>3 DEF List!ProcessRecipient, ListInv, List!TypeOK
  <2>2. sent' \in [Recipient -> Nat] /\ unheard' \in [Recipient -> Nat]
    BY <1>3, SMTT(60) DEF List!ProcessRecipient
  <2>3. glitches' \in 0..ListGlitches
    <3>1. glitches' = glitches \/ (glitches < ListGlitches /\ glitches' = glitches + 1)
      BY DEF List!ProcessRecipient
    <3>2. glitches \in 0..ListGlitches
      BY DEF ListInv, List!TypeOK
    <3>3. QED
      BY <3>1, <3>2 DEF List!ListJobsAssumption
  <2>4. QED
    BY <1>1, <2>1, <2>2, <2>3 DEF ListInv, List!TypeOK
<1>6. OneWorks'
  BY <1>1, <1>2, <1>4 DEF OneWorks, List!Idle
<1>7. r \notin stored.successful
  BY <1>3 DEF Paid
<1>8. Listed'
  <2>1. Paid(stored.successful)'
    BY <1>1, <1>3, <1>4, <1>7 DEF Paid
  <2>2. \A q \in Recipient : sent'[q] <= unheard'[q] + 1 /\ sent'[q] <= runsBefore + 1
    BY <1>3, <1>4
  <2>3. QED
    BY <1>1, <1>2, <2>1, <2>2 DEF Listed
<1>9. \A v \in ListWorker : RunUnderWay(v)'
  <2>1. \A v \in ListWorker \ {w} : RunUnderWay(v)'
    BY <1>4 DEF RunUnderWay, List!Idle
  <2>2. worker'[w].failures \subseteq stored.pending \ worker'[w].todo
    BY <1>1, <1>3, <1>4
  <2>3. Unpaid(rest, runsBefore)'
    BY <1>1, <1>3, <1>4 DEF Unpaid
  <2>4. Unpaid(worker[w].failures, runsBefore + 1)'
    <3>1. \A q \in kept : q \in Recipient \ {r} /\ sent[q] = unheard[q] /\ sent[q] <= runsBefore + 1
      BY <1>1, <1>3 DEF Unpaid
    <3>2. \A q \in kept : sent'[q] = unheard'[q] /\ sent'[q] <= runsBefore + 1
      BY <1>4, <3>1
    <3>3. CASE worker'[w].failures = kept
      BY <1>1, <3>2, <3>3 DEF Unpaid
    <3>4. CASE worker'[w].failures = kept \cup {r} /\ sent'[r] = unheard'[r] /\ sent'[r] <= runsBefore + 1
      BY <1>1, <3>2, <3>4 DEF Unpaid
    <3>5. sent'[r] <= runsBefore + 1
      BY <1>3, <1>4
    <3>6. QED
      BY <1>3, <1>4, <3>3, <3>4, <3>5
  <2>5. \A q \in stored.pending \ (worker'[w].todo \cup worker'[w].failures) :
          sent'[q] = unheard'[q] + 1
    BY <1>1, <1>3, <1>4 DEF Paid
  <2>6. RunUnderWay(w)'
    BY <1>1, <1>3, <1>4, <2>2, <2>3, <2>4, <2>5 DEF RunUnderWay, Paid, Unpaid
  <2>7. QED
    BY <2>1, <2>6
<1>10. QED
  BY <1>5, <1>6, <1>8, <1>9 DEF ListInv

LEMMA EndKeepsList ==
  ASSUME List!ListJobsAssumption, ListInv, NEW w \in ListWorker, List!End(w) PROVE ListInv'
<1>1. /\ worker[w].step = "run" /\ worker[w].todo = {} /\ stored' = List!Outcome(w)
      /\ worker' = [worker EXCEPT ![w] = IF List!Outcome(w).status = "retrying"
                                         THEN [List!Idle EXCEPT !.step = "push"] ELSE List!Idle]
      /\ UNCHANGED <<queue, sent, unheard, glitches, deaths>>
  BY DEF List!End
<1>2. /\ stored' \in List!Jobs /\ stored' # List!NoJob /\ stored'.pending = worker[w].failures
      /\ stored'.successful = stored.successful \cup (stored.pending \ worker[w].failures)
      /\ \/ stored'.retryCount = stored.retryCount + 1
         \/ stored'.retryCount = stored.retryCount /\ stored'.status # "retrying"
      /\ stored.retryCount \in Nat /\ sent \in [Recipient -> Nat]
  BY <1>1, OutcomeType DEF ListInv, List!TypeOK, List!Jobs
<1>3. queue = "popped" /\ \A v \in ListWorker \ {w} : worker[v] = List!Idle
  BY <1>1, OthersIdle
<1>4. /\ Unpaid(worker[w].failures, stored.retryCount + 1) /\ Paid(stored.pending \ worker[w].failures)
      /\ Paid(stored.successful)
      /\ \A r \in Recipient : sent[r] <= unheard[r] + 1 /\ sent[r] <= stored.retryCount + 1
  BY <1>1 DEF ListInv, Listed, RunUnderWay
<1>5. \A v \in ListWorker : worker'[v] \in {List!Idle, [List!Idle EXCEPT !.step = "push"]}
                        /\ (v # w => worker'[v] = List!Idle)
                        /\ (worker'[v] # List!Idle => stored'.retryCount = stored.retryCount + 1)
  BY <1>1, <1>2, <1>3 DEF ListInv, List!TypeOK
<1>6. List!TypeOK'
  <2>1. List!NoJob \in List!Jobs
    BY DEF List!ListJobsAssumption, List!NoJob, List!Jobs
  <2>2. {List!Idle, [List!Idle EXCEPT !.step = "push"]}
          \subseteq [step : {"idle", "read", "run", "push"}, job : List!Jobs,
                     todo : SUBSET Recipient, failures : SUBSET Recipient]
    BY <2>1 DEF List!Idle
  <2>3. QED
    BY <1>1, <1>2, <2>2 DEF ListInv, List!TypeOK
<1>7. OneWorks'
  BY <1>1, <1>3, <1>5, SMTT(60) DEF OneWorks, List!Idle
<1>8. Listed'
  BY <1>1, <1>2, <1>3, <1>4 DEF Listed, Paid
<1>9. \A v \in ListWorker : RunUnderWay(v)'
  BY <1>1, <1>2, <1>4, <1>5 DEF RunUnderWay, List!Idle, Unpaid
<1>10. QED
  BY <1>6, <1>7, <1>8, <1>9 DEF ListInv

LEMMA PushAgainKeepsList == ASSUME List!ListJobsAssumption, ListInv, NEW w \in ListWorker, List!PushAgain(w) PROVE ListInv'
<1>1. /\ worker[w].step = "push" /\ queue' = "listed" /\ worker' = [worker EXCEPT ![w] = List!Idle]
      /\ UNCHANGED <<stored, sent, unheard, glitches, deaths>>
  BY DEF List!PushAgain
<1>2. stored # List!NoJob /\ Unpaid(stored.pending, stored.retryCount) /\ \A v \in ListWorker \ {w} : worker[v] = List!Idle
  BY <1>1, OthersIdle DEF ListInv, RunUnderWay
<1>3. \A v \in ListWorker : worker'[v] = List!Idle
  BY <1>1, <1>2 DEF ListInv, List!TypeOK
<1>4. List!TypeOK'
  <2>1. List!NoJob \in List!Jobs
    BY DEF List!ListJobsAssumption, List!NoJob, List!Jobs
  <2>2. List!Idle \in [step : {"idle", "read", "run", "push"}, job : List!Jobs,
                  todo : SUBSET Recipient, failures : SUBSET Recipient]
    BY <2>1 DEF List!Idle
  <2>3. QED
    BY <1>1, <2>2 DEF ListInv, List!TypeOK
<1>5. OneWorks' /\ \A v \in ListWorker : RunUnderWay(v)'
  BY <1>3 DEF OneWorks, RunUnderWay, List!Idle
<1>6. Listed'
  BY <1>1, <1>2 DEF ListInv, Listed, Paid, Unpaid
<1>7. QED
  BY <1>4, <1>5, <1>6 DEF ListInv

LEMMA DieKeepsList == ASSUME List!ListJobsAssumption, ListInv, NEW w \in ListWorker, List!Die(w) PROVE ListInv'
<1>1. /\ worker[w] # List!Idle /\ deaths < ListGlitches /\ deaths' = deaths + 1
      /\ worker' = [worker EXCEPT ![w] = List!Idle]
      /\ UNCHANGED <<queue, stored, sent, unheard, glitches>>
  BY DEF List!Die
<1>2. worker[w].step # "idle"
  BY <1>1 DEF ListInv, OneWorks
<1>3. queue = "popped" /\ stored # List!NoJob /\ \A v \in ListWorker \ {w} : worker[v] = List!Idle
  BY <1>2, OthersIdle
<1>4. \A v \in ListWorker : worker'[v] = List!Idle
  BY <1>1, <1>3 DEF ListInv, List!TypeOK
<1>5. List!TypeOK'
  <2>1. List!NoJob \in List!Jobs
    BY DEF List!ListJobsAssumption, List!NoJob, List!Jobs
  <2>2. List!Idle \in [step : {"idle", "read", "run", "push"}, job : List!Jobs,
                  todo : SUBSET Recipient, failures : SUBSET Recipient]
    BY <2>1 DEF List!Idle
  <2>3. deaths' \in 0..ListGlitches
    BY <1>1 DEF ListInv, List!TypeOK, List!ListJobsAssumption
  <2>4. QED
    BY <1>1, <2>2, <2>3 DEF ListInv, List!TypeOK
<1>6. OneWorks' /\ \A v \in ListWorker : RunUnderWay(v)'
  BY <1>4 DEF OneWorks, RunUnderWay, List!Idle
<1>7. Listed'
  BY <1>1, <1>3 DEF ListInv, Listed, Paid, Unpaid
<1>8. QED
  BY <1>5, <1>6, <1>7 DEF ListInv

LEMMA ListStep == ASSUME List!ListJobsAssumption, ListInv, [List!Next]_listVars PROVE ListInv'
<1>1. CASE List!Next
  BY <1>1, SaveKeepsList, PushKeepsList, PopKeepsList, BeginKeepsList, RecipientKeepsList,
     EndKeepsList, PushAgainKeepsList, DieKeepsList DEF List!Next, List!Run
<1>2. CASE UNCHANGED listVars
  BY <1>2 DEF listVars, ListInv, List!TypeOK, OneWorks, Listed, RunUnderWay, Unpaid, Paid
<1>3. QED
  BY <1>1, <1>2

LEMMA ListHolds == ListInv => List!TypeOK /\ List!PaidPerRun
BY DEF ListInv, Listed, Paid, List!PaidPerRun

-----------------------------------------------------------------------------
(* Calls of the API client *)

LEMMA ApiSizes ==
  /\ \A S : Api!IsFiniteSet(S) <=> IsFiniteSet(S)
  /\ \A S : Api!Cardinality(S) = Cardinality(S)
BY Zenon DEF Api!IsFiniteSet, Api!Cardinality, IsFiniteSet, Cardinality

CallState ==
  [step : {"none", "sent", "queued", "refresh", "backoff", "done", "rejected"}, retry : BOOLEAN,
   retries : 0..ApiRetries]
CallTypes == Api!TypeOK /\ api_call \in [ApiRequest -> CallState] /\ {sends, api_handled, api_lost} \subseteq [ApiRequest -> Nat]

\* One request refreshes while others wait, ...
OneRefresh ==
  /\ pendingRefreshQueue = {r \in ApiRequest : api_call[r].step = "queued"}
  /\ isRefreshingToken => \E r \in ApiRequest : \A q \in ApiRequest : api_call[q].step = "refresh" <=> q = r
  /\ ~isRefreshingToken => \A q \in ApiRequest : api_call[q].step \notin {"queued", "refresh"}

\* ... each was sent once per attempt, and once more if it was refused, ...
SentPerAttempt(r) ==
  /\ sends[r] <= api_call[r].retries + 2
  /\ ~api_call[r].retry => sends[r] <= api_call[r].retries + 1
  /\ api_call[r].step \in {"queued", "refresh"} => api_call[r].retry /\ sends[r] <= api_call[r].retries + 1
  /\ api_call[r].step \in {"none", "backoff"} =>
       sends[r] <= api_call[r].retries + 1 /\ (~api_call[r].retry => sends[r] <= api_call[r].retries)

\* ... and a write that is not answered was carried out only where an answer was lost.
WrittenIfDone(r) ==
  r \in ApiWrite => /\ api_handled[r] <= api_lost[r] + 1
                    /\ api_call[r].step # "done" => api_handled[r] <= api_lost[r]

CallsInv == CallTypes /\ OneRefresh /\ \A r \in ApiRequest : SentPerAttempt(r) /\ WrittenIfDone(r)

LEMMA CallGoes ==
  ASSUME NEW c \in CallState,
         NEW step \in {"none", "sent", "queued", "refresh", "backoff", "done", "rejected"}
  PROVE  \E x \in CallState :
           x = [c EXCEPT !.step = step] /\ x.step = step /\ x.retry = c.retry /\ x.retries = c.retries
<1>1. [c EXCEPT !.step = step] \in CallState
  BY DEF CallState
<1>2. PICK x \in CallState : x = [c EXCEPT !.step = step]
  BY <1>1
<1>3. x.step = step /\ x.retry = c.retry /\ x.retries = c.retries
  BY <1>2 DEF CallState
<1>4. QED
  BY <1>2, <1>3

LEMMA GoesTo ==
  ASSUME CallsInv, NEW r \in ApiRequest,
         NEW step \in {"none", "sent", "queued", "refresh", "backoff", "done", "rejected"}, Api!GoTo(r, step)
  PROVE  \E x \in CallState : /\ api_call' = [api_call EXCEPT ![r] = x] /\ x.step = step
                              /\ x.retry = api_call[r].retry /\ x.retries = api_call[r].retries
<1>1. PICK c \in CallState : c = api_call[r]
  BY DEF CallsInv, CallTypes
<1>2. PICK x \in CallState :
        x = [c EXCEPT !.step = step] /\ x.step = step /\ x.retry = c.retry /\ x.retries = c.retries
  BY CallGoes, ZenonT(60)
<1>3. api_call' = [api_call EXCEPT ![r] = x]
  BY <1>1, <1>2, Zenon DEF Api!GoTo
<1>4. QED
  BY <1>1, <1>2, <1>3

LEMMA CallsInit ==
  ASSUME Api!ApiClientAssumption, Api!Init
  PROVE  CallsInv
<1>1. PICK x \in CallState : x = [step |-> "none", retry |-> FALSE, retries |-> 0]
  <2>1. [step |-> "none", retry |-> FALSE, retries |-> 0] \in CallState
    BY DEF CallState, Api!ApiClientAssumption
  <2>2. QED
    BY <2>1
<1>2. x.step = "none" /\ ~x.retry /\ x.retries = 0
  BY <1>1
<1>3. /\ api_call = [r \in ApiRequest |-> x] /\ sends = [r \in ApiRequest |-> 0] /\ api_handled = sends /\ api_lost = sends
      /\ isRefreshingToken = FALSE /\ pendingRefreshQueue = {} /\ api_faults = 0 /\ cached = {}
  BY <1>1, Zenon DEF Api!Init
<1>4. /\ api_call \in [ApiRequest -> CallState] /\ sends \in [ApiRequest -> Nat]
      /\ \A r \in ApiRequest : api_call[r].step = "none" /\ ~api_call[r].retry /\ api_call[r].retries = 0 /\ sends[r] = 0
  BY <1>2, <1>3
<1>5. Api!TypeOK
  <2>1. \A r \in ApiRequest : api_call[r].step = "none" /\ api_call[r].retries \in 0..ApiRetries
    BY <1>4 DEF Api!ApiClientAssumption
  <2>2. token = "valid" /\ refreshToken = "valid" /\ understood \in BOOLEAN
    BY DEF Api!Init
  <2>3. understood \in BOOLEAN /\ isRefreshingToken \in BOOLEAN
    BY <1>3, <2>2, Zenon
  <2>4. /\ pendingRefreshQueue \subseteq ApiRequest /\ cached \subseteq ApiRequest \ ApiWrite /\ api_faults \in 0..ApiFaults
        /\ sentWith \in [ApiRequest -> {"current", "valid", "refused"}]
    BY <1>3 DEF Api!ApiClientAssumption, Api!Init
  <2>5. /\ token \in {Api!NoToken, "valid", "expired", "undefined"} /\ refreshToken \in {Api!NoToken, "valid", "used"}
        /\ \A r \in ApiRequest :
             api_call[r].step \in {"none", "sent", "queued", "refresh", "backoff", "done", "rejected"}
    BY <2>1, <2>2
  <2>6. QED
    BY <2>1, <2>3, <2>4, <2>5 DEF Api!TypeOK
<1>6. CallTypes /\ OneRefresh
  BY <1>3, <1>4, <1>5 DEF CallTypes, OneRefresh
<1>7. \A r \in ApiRequest : SentPerAttempt(r) /\ WrittenIfDone(r)
  BY <1>3, <1>4 DEF SentPerAttempt, WrittenIfDone
<1>8. QED
  BY <1>6, <1>7 DEF CallsInv

\* Whatever becomes of its token, a request has one of a known kind.
LEMMA SentWithType ==
  ASSUME CallsInv, \/ Api!Replaced \/ UNCHANGED sentWith \/ \E r \in ApiRequest : Api!Answered(r)
  PROVE  sentWith' \in [ApiRequest -> {"current", "valid", "refused"}]
<1>1. sentWith \in [ApiRequest -> {"current", "valid", "refused"}]
  BY DEF CallsInv, CallTypes, Api!TypeOK
<1>2. QED
  BY <1>1 DEF Api!Replaced, Api!Answered

LEMMA TokensChange ==
  ASSUME Api!ApiClientAssumption, CallsInv, Api!Expire \/ Api!LogIn \/ Api!LogOut \/ UNCHANGED apiVars
  PROVE  CallsInv'
<1>1. /\ UNCHANGED <<understood, isRefreshingToken, pendingRefreshQueue, api_call, cached, sends, api_handled, api_lost>>
      /\ token' \in {Api!NoToken, "valid", "expired", "undefined"} /\ refreshToken' \in {Api!NoToken, "valid", "used"}
      /\ api_faults' \in 0..ApiFaults
      /\ Api!Replaced \/ UNCHANGED sentWith
  BY DEF Api!Expire, Api!LogIn, Api!LogOut, apiVars, Api!TokensUnchanged, Api!RefreshUnchanged, Api!Fault, CallsInv, CallTypes, Api!TypeOK,
         Api!ApiClientAssumption
<1>2. CallTypes'
  <2>1. sentWith' \in [ApiRequest -> {"current", "valid", "refused"}]
    BY <1>1, SentWithType
  <2>2. QED
    BY <1>1, <2>1 DEF CallsInv, CallTypes, Api!TypeOK
<1>3. OneRefresh' /\ \A r \in ApiRequest : SentPerAttempt(r)' /\ WrittenIfDone(r)'
  BY <1>1 DEF CallsInv, OneRefresh, SentPerAttempt, WrittenIfDone
<1>4. QED
  BY <1>2, <1>3 DEF CallsInv

\* A request goes on that neither waits nor refreshes.
LEMMA CallMoves ==
  ASSUME CallsInv, NEW r \in ApiRequest, NEW x \in CallState, api_call' = [api_call EXCEPT ![r] = x],
         x.step \notin {"queued", "refresh"}, api_call[r].step \notin {"queued", "refresh"},
         Api!TokensUnchanged, Api!RefreshUnchanged, Api!Answered(r) \/ UNCHANGED sentWith, cached' \subseteq ApiRequest \ ApiWrite, api_faults' \in 0..ApiFaults,
         sends' \in [ApiRequest -> Nat], api_handled' \in [ApiRequest -> Nat], api_lost' \in [ApiRequest -> Nat],
         \A q \in ApiRequest \ {r} : sends'[q] = sends[q] /\ api_handled'[q] = api_handled[q] /\ api_lost'[q] = api_lost[q],
         SentPerAttempt(r)', WrittenIfDone(r)'
  PROVE  CallsInv'
<1>1. api_call' \in [ApiRequest -> CallState] /\ api_call'[r] = x /\ \A q \in ApiRequest \ {r} : api_call'[q] = api_call[q]
  BY DEF CallsInv, CallTypes
<1>2. CallTypes'
  <2>1. sentWith' \in [ApiRequest -> {"current", "valid", "refused"}]
    BY SentWithType
  <2>2. QED
    BY <1>1, <2>1 DEF CallsInv, CallTypes, Api!TypeOK, CallState, Api!TokensUnchanged, Api!RefreshUnchanged
<1>3. \A q \in ApiRequest : /\ api_call'[q].step = "queued" <=> api_call[q].step = "queued"
                            /\ api_call'[q].step = "refresh" <=> api_call[q].step = "refresh"
  BY <1>1
<1>4. OneRefresh'
  BY <1>3 DEF CallsInv, OneRefresh, Api!RefreshUnchanged
<1>5. \A q \in ApiRequest \ {r} : SentPerAttempt(q)' /\ WrittenIfDone(q)'
  BY <1>1 DEF CallsInv, SentPerAttempt, WrittenIfDone
<1>6. QED
  BY <1>2, <1>4, <1>5 DEF CallsInv

LEMMA SendKeeps ==
  ASSUME Api!ApiClientAssumption, CallsInv, NEW r \in ApiRequest, Api!Send(r)
  PROVE  CallsInv'
<1>1. PICK x \in CallState : /\ api_call' = [api_call EXCEPT ![r] = x] /\ x.step = "sent"
                             /\ x.retry = api_call[r].retry /\ x.retries = api_call[r].retries
  BY GoesTo DEF Api!Send
<1>2. api_call'[r] = x
  BY <1>1 DEF CallsInv, CallTypes
<1>3. /\ sends \in [ApiRequest -> Nat] /\ sends' = [q \in ApiRequest |-> sends[q] + IF q \in {r} THEN 1 ELSE 0]
      /\ api_call[r].step \in {"none", "backoff"}
      /\ UNCHANGED <<sentWith, cached, api_faults, api_handled, api_lost>> /\ Api!TokensUnchanged /\ Api!RefreshUnchanged
  BY DEF Api!Send, Api!Sent, CallsInv, CallTypes
<1>4. sends' \in [ApiRequest -> Nat] /\ sends'[r] = sends[r] + 1 /\ \A q \in ApiRequest \ {r} : sends'[q] = sends[q]
  BY <1>3
<1>5. cached' \subseteq ApiRequest \ ApiWrite /\ api_faults' \in 0..ApiFaults /\ api_handled' \in [ApiRequest -> Nat] /\ api_lost' \in [ApiRequest -> Nat]
  BY <1>3 DEF CallsInv, CallTypes, Api!TypeOK
<1>6. SentPerAttempt(r)'
  <2>1. api_call[r].retries \in Nat /\ sends[r] \in Nat
    BY <1>3 DEF CallsInv, CallTypes, CallState, Api!ApiClientAssumption
  <2>2. /\ sends[r] <= api_call[r].retries + 1 /\ (~api_call[r].retry => sends[r] <= api_call[r].retries)
    BY <1>3 DEF CallsInv, SentPerAttempt
  <2>3. sends'[r] <= api_call[r].retries + 2 /\ (~api_call[r].retry => sends'[r] <= api_call[r].retries + 1)
    BY <1>4, <2>1, <2>2
  <2>4. QED
    BY <1>1, <1>2, <2>3 DEF SentPerAttempt
<1>7. WrittenIfDone(r)'
  BY <1>1, <1>2, <1>3 DEF CallsInv, WrittenIfDone
<1>8. QED
  BY <1>1, <1>3, <1>4, <1>5, <1>6, <1>7, CallMoves

LEMMA SucceedKeeps ==
  ASSUME Api!ApiClientAssumption, CallsInv, NEW r \in ApiRequest, Api!Succeed(r)
  PROVE  CallsInv'
<1>1. PICK x \in CallState : /\ api_call' = [api_call EXCEPT ![r] = x] /\ x.step = "done"
                             /\ x.retry = api_call[r].retry /\ x.retries = api_call[r].retries
  BY GoesTo DEF Api!Succeed
<1>2. api_call'[r] = x
  BY <1>1 DEF CallsInv, CallTypes
<1>3. /\ api_handled \in [ApiRequest -> Nat] /\ api_handled' = [api_handled EXCEPT ![r] = api_handled[r] + 1]
      /\ api_call[r].step = "sent" /\ Api!Answered(r) /\ UNCHANGED <<api_faults, sends, api_lost>> /\ Api!TokensUnchanged /\ Api!RefreshUnchanged
  BY DEF Api!Succeed, Api!At, CallsInv, CallTypes
<1>4. api_handled' \in [ApiRequest -> Nat] /\ api_handled'[r] = api_handled[r] + 1 /\ \A q \in ApiRequest \ {r} : api_handled'[q] = api_handled[q]
  BY <1>3
<1>5. cached' \subseteq ApiRequest \ ApiWrite /\ api_faults' \in 0..ApiFaults /\ sends' \in [ApiRequest -> Nat] /\ api_lost' \in [ApiRequest -> Nat]
  BY <1>3 DEF Api!Succeed, CallsInv, CallTypes, Api!TypeOK
<1>6. SentPerAttempt(r)'
  BY <1>1, <1>2, <1>3 DEF CallsInv, SentPerAttempt
<1>7. WrittenIfDone(r)'
  <2>1. r \in ApiWrite => api_handled[r] <= api_lost[r]
    BY <1>3 DEF CallsInv, WrittenIfDone
  <2>2. api_handled[r] \in Nat /\ api_lost[r] \in Nat
    BY DEF CallsInv, CallTypes
  <2>3. r \in ApiWrite => api_handled'[r] <= api_lost[r] + 1
    BY <1>4, <2>1, <2>2
  <2>4. QED
    BY <1>1, <1>2, <1>3, <2>3 DEF WrittenIfDone
<1>8. QED
  BY <1>1, <1>3, <1>4, <1>5, <1>6, <1>7, CallMoves

LEMMA AskAgainKeeps ==
  ASSUME Api!ApiClientAssumption, CallsInv, NEW r \in ApiRequest, Api!AskAgain(r)
  PROVE  CallsInv'
<1>1. PICK x \in CallState : x = [step |-> "none", retry |-> FALSE, retries |-> 0]
  <2>1. [step |-> "none", retry |-> FALSE, retries |-> 0] \in CallState
    BY DEF CallState, Api!ApiClientAssumption
  <2>2. QED
    BY <2>1
<1>2. x.step = "none" /\ ~x.retry /\ x.retries = 0
  BY <1>1
<1>3. api_call' = [api_call EXCEPT ![r] = x]
  BY <1>1, Zenon DEF Api!AskAgain
<1>4. api_call'[r] = x
  BY <1>3 DEF CallsInv, CallTypes
<1>5. /\ sends' = [sends EXCEPT ![r] = 0] /\ r \notin ApiWrite /\ api_call[r].step = "done"
      /\ UNCHANGED <<sentWith, cached, api_handled, api_lost>> /\ Api!TokensUnchanged /\ Api!RefreshUnchanged
      /\ api_faults' = api_faults + 1 /\ api_faults < ApiFaults
  BY DEF Api!AskAgain, Api!At
<1>6. sends' \in [ApiRequest -> Nat] /\ sends'[r] = 0 /\ \A q \in ApiRequest \ {r} : sends'[q] = sends[q]
  BY <1>5 DEF CallsInv, CallTypes
<1>7. /\ cached' \subseteq ApiRequest \ ApiWrite /\ api_faults' \in 0..ApiFaults
      /\ api_handled' \in [ApiRequest -> Nat] /\ api_lost' \in [ApiRequest -> Nat]
  BY <1>5 DEF CallsInv, CallTypes, Api!TypeOK, Api!ApiClientAssumption
<1>8. SentPerAttempt(r)' /\ WrittenIfDone(r)'
  BY <1>2, <1>4, <1>5, <1>6 DEF SentPerAttempt, WrittenIfDone
<1>9. QED
  BY <1>2, <1>3, <1>5, <1>6, <1>7, <1>8, CallMoves

LEMMA FailKeeps ==
  ASSUME Api!ApiClientAssumption, CallsInv, NEW r \in ApiRequest, Api!Fail(r)
  PROVE  CallsInv'
<1>1. /\ api_call[r].step = "sent" /\ api_faults < ApiFaults /\ api_faults' = api_faults + 1
      /\ UNCHANGED <<cached, sends>> /\ Api!TokensUnchanged /\ Api!RefreshUnchanged /\ Api!Answered(r)
      /\ api_call[r].retries \in Nat /\ sends[r] \in Nat /\ api_handled[r] \in Nat /\ api_lost[r] \in Nat
  BY DEF Api!Fail, Api!At, Api!Fault, CallsInv, CallTypes, CallState, Api!ApiClientAssumption
<1>2. PICK n \in 0..1 : /\ api_handled' = [api_handled EXCEPT ![r] = api_handled[r] + n]
                        /\ api_lost' = [api_lost EXCEPT ![r] = api_lost[r] + n]
  BY DEF Api!Fail
<1>3. /\ api_handled' \in [ApiRequest -> Nat] /\ api_lost' \in [ApiRequest -> Nat]
      /\ api_handled'[r] = api_handled[r] + n /\ api_lost'[r] = api_lost[r] + n
      /\ \A q \in ApiRequest \ {r} : api_handled'[q] = api_handled[q] /\ api_lost'[q] = api_lost[q]
  BY <1>1, <1>2 DEF CallsInv, CallTypes
<1>4. PICK x \in CallState :
        /\ api_call' = [api_call EXCEPT ![r] = x] /\ x.retry = api_call[r].retry
        /\ \/ x.step = "done" /\ r \in cached /\ x.retries = api_call[r].retries
           \/ x.step = "rejected" /\ x.retries = api_call[r].retries
           \/ x.step = "backoff" /\ x.retries = api_call[r].retries + 1
  <2>1. CASE r \in cached /\ Api!GoTo(r, "done")
    BY <2>1, GoesTo
  <2>2. CASE Api!GoTo(r, "rejected")
    BY <2>2, GoesTo
  <2>3. CASE /\ api_call[r].retries < ApiRetries
             /\ api_call' = [api_call EXCEPT ![r].retries = @ + 1, ![r].step = "backoff"]
    <3>1. PICK c \in CallState : c = api_call[r]
      BY DEF CallsInv, CallTypes
    <3>2. c.retries + 1 \in 0..ApiRetries
      BY <2>3, <3>1 DEF CallState, Api!ApiClientAssumption
    <3>3. PICK k \in 0..ApiRetries : k = c.retries + 1
      BY <3>2
    <3>4. [c EXCEPT !.retries = k, !.step = "backoff"] \in CallState
      BY DEF CallState
    <3>5. PICK x \in CallState : x = [c EXCEPT !.retries = k, !.step = "backoff"]
      BY <3>4
    <3>6. x.step = "backoff" /\ x.retry = c.retry /\ x.retries = k
      BY <3>5 DEF CallState
    <3>8. api_call' = [api_call EXCEPT ![r] = [c EXCEPT !.retries = k, !.step = "backoff"]]
      BY <2>3, <3>1, <3>3 DEF CallsInv, CallTypes
    <3>9. api_call' = [api_call EXCEPT ![r] = x]
      BY <3>5, <3>8, Zenon
    <3>10. QED
      BY <3>1, <3>3, <3>6, <3>9
  <2>4. QED
    BY <2>1, <2>2, <2>3 DEF Api!Fail
<1>5. api_call'[r] = x
  BY <1>4 DEF CallsInv, CallTypes
<1>6. cached' \subseteq ApiRequest \ ApiWrite /\ api_faults' \in 0..ApiFaults /\ sends' \in [ApiRequest -> Nat]
  BY <1>1 DEF CallsInv, CallTypes, Api!TypeOK, Api!ApiClientAssumption
<1>7. SentPerAttempt(r)'
  <2>1. sends[r] <= api_call[r].retries + 2 /\ (~api_call[r].retry => sends[r] <= api_call[r].retries + 1)
    BY DEF CallsInv, SentPerAttempt
  <2>2. CASE x.step = "backoff"
    <3>1. x.retries = api_call[r].retries + 1
      BY <1>4, <2>2
    <3>2. sends[r] <= x.retries + 2 /\ sends[r] <= x.retries + 1 /\ (~api_call[r].retry => sends[r] <= x.retries)
      BY <1>1, <2>1, <3>1
    <3>3. QED
      BY <1>1, <1>4, <1>5, <2>2, <3>1, <3>2 DEF SentPerAttempt
  <2>3. CASE x.step # "backoff"
    BY <1>1, <1>4, <1>5, <2>1, <2>3 DEF SentPerAttempt
  <2>4. QED
    BY <2>2, <2>3
<1>8. WrittenIfDone(r)'
  <2>1. r \in ApiWrite => api_handled[r] <= api_lost[r]
    BY <1>1 DEF CallsInv, WrittenIfDone
  <2>2. r \in ApiWrite => api_handled'[r] <= api_lost'[r] /\ api_handled'[r] <= api_lost'[r] + 1
    BY <1>1, <1>3, <2>1
  <2>3. QED
    BY <2>2 DEF WrittenIfDone
<1>9. x.step \notin {"queued", "refresh"}
  BY <1>4
<1>10. \A q \in ApiRequest \ {r} : sends'[q] = sends[q] /\ api_handled'[q] = api_handled[q] /\ api_lost'[q] = api_lost[q]
  BY <1>1, <1>3
<1>11. QED
  BY <1>1, <1>3, <1>4, <1>6, <1>7, <1>8, <1>9, <1>10, CallMoves

LEMMA RefuseKeeps ==
  ASSUME Api!ApiClientAssumption, CallsInv, NEW r \in ApiRequest, Api!Refuse(r)
  PROVE  CallsInv'
<1>1. /\ api_call[r].step = "sent" /\ UNCHANGED <<cached, api_faults, sends, api_handled, api_lost>> /\ Api!TokensUnchanged
      /\ Api!Answered(r)
      /\ cached' \subseteq ApiRequest \ ApiWrite /\ api_faults' \in 0..ApiFaults
      /\ sends' \in [ApiRequest -> Nat] /\ api_handled' \in [ApiRequest -> Nat] /\ api_lost' \in [ApiRequest -> Nat]
  BY DEF Api!Refuse, Api!At, CallsInv, CallTypes, Api!TypeOK
<1>2. CASE api_call[r].retry /\ Api!GoTo(r, "rejected") /\ Api!RefreshUnchanged
  <2>1. PICK x \in CallState : /\ api_call' = [api_call EXCEPT ![r] = x] /\ x.step = "rejected"
                               /\ x.retry = api_call[r].retry /\ x.retries = api_call[r].retries
    BY <1>2, GoesTo
  <2>2. api_call'[r] = x
    BY <2>1 DEF CallsInv, CallTypes
  <2>3. SentPerAttempt(r)' /\ WrittenIfDone(r)'
    BY <1>1, <2>1, <2>2 DEF CallsInv, SentPerAttempt, WrittenIfDone
  <2>4. QED
    BY <1>1, <1>2, <2>1, <2>3, CallMoves
<1>3. CASE /\ ~api_call[r].retry
           /\ \/ /\ isRefreshingToken
                 /\ api_call' = [api_call EXCEPT ![r].retry = TRUE, ![r].step = "queued"]
                 /\ pendingRefreshQueue' = pendingRefreshQueue \union {r}
                 /\ UNCHANGED isRefreshingToken
              \/ /\ ~isRefreshingToken
                 /\ api_call' = [api_call EXCEPT ![r].retry = TRUE, ![r].step = "refresh"]
                 /\ isRefreshingToken' = TRUE
                 /\ UNCHANGED pendingRefreshQueue
  <2>1. PICK step \in {"queued", "refresh"} :
          /\ api_call' = [api_call EXCEPT ![r].retry = TRUE, ![r].step = step]
          /\ step = "queued" => /\ isRefreshingToken /\ UNCHANGED isRefreshingToken
                                /\ pendingRefreshQueue' = pendingRefreshQueue \union {r}
          /\ step = "refresh" => ~isRefreshingToken /\ isRefreshingToken' = TRUE /\ UNCHANGED pendingRefreshQueue
    <3>1. CASE isRefreshingToken
      BY <1>3, <3>1
    <3>2. CASE ~isRefreshingToken
      BY <1>3, <3>2
    <3>3. QED
      BY <3>1, <3>2
  <2>2. PICK c \in CallState : c = api_call[r]
    BY DEF CallsInv, CallTypes
  <2>3. [c EXCEPT !.retry = TRUE, !.step = step] \in CallState
    BY DEF CallState
  <2>4. PICK x \in CallState : x = [c EXCEPT !.retry = TRUE, !.step = step]
    BY <2>3
  <2>5. x.step = step /\ x.retry /\ x.retries = c.retries
    BY <2>4 DEF CallState
  <2>7. api_call' = [api_call EXCEPT ![r] = [c EXCEPT !.retry = TRUE, !.step = step]]
    BY <2>1, <2>2 DEF CallsInv, CallTypes
  <2>8. api_call' = [api_call EXCEPT ![r] = x]
    BY <2>4, <2>7, Zenon
  <2>9. api_call' \in [ApiRequest -> CallState] /\ api_call'[r] = x /\ \A q \in ApiRequest \ {r} : api_call'[q] = api_call[q]
    BY <2>8 DEF CallsInv, CallTypes
  <2>10. CallTypes'
    <3>1. sentWith' \in [ApiRequest -> {"current", "valid", "refused"}]
      BY <1>1, SentWithType
    <3>2. QED
      BY <1>1, <2>1, <2>9, <3>1 DEF CallsInv, CallTypes, Api!TypeOK, CallState, Api!TokensUnchanged
  <2>11. OneRefresh'
    <3>1. CASE step = "queued"
      <4>1. isRefreshingToken /\ isRefreshingToken' = isRefreshingToken
        BY <2>1, <3>1
      <4>2. PICK p \in ApiRequest : \A q \in ApiRequest : api_call[q].step = "refresh" <=> q = p
        BY <4>1 DEF CallsInv, OneRefresh
      <4>3. \A q \in ApiRequest : api_call'[q].step = "refresh" <=> q = p
        BY <1>1, <2>5, <2>9, <3>1, <4>2
      <4>4. pendingRefreshQueue = {q \in ApiRequest : api_call[q].step = "queued"}
        BY DEF CallsInv, OneRefresh
      <4>5. pendingRefreshQueue' = {q \in ApiRequest : api_call'[q].step = "queued"}
        <5>1. pendingRefreshQueue' = pendingRefreshQueue \union {r} /\ api_call'[r].step = "queued"
          BY <2>1, <2>5, <2>9, <3>1
        <5>2. QED
          BY <2>9, <4>4, <5>1
      <4>6. QED
        BY <4>1, <4>3, <4>5 DEF OneRefresh
    <3>2. CASE step = "refresh"
      <4>1. ~isRefreshingToken /\ isRefreshingToken' = TRUE /\ pendingRefreshQueue' = pendingRefreshQueue
        BY <2>1, <3>2
      <4>2. /\ \A q \in ApiRequest : api_call[q].step \notin {"queued", "refresh"}
            /\ pendingRefreshQueue = {q \in ApiRequest : api_call[q].step = "queued"}
        BY <4>1 DEF CallsInv, OneRefresh
      <4>3. \A q \in ApiRequest : api_call'[q].step = "refresh" <=> q = r
        BY <2>5, <2>9, <3>2, <4>2
      <4>4. pendingRefreshQueue' = {q \in ApiRequest : api_call'[q].step = "queued"}
        BY <2>5, <2>9, <3>2, <4>1, <4>2
      <4>5. QED
        BY <4>1, <4>3, <4>4 DEF OneRefresh
    <3>3. QED
      BY <3>1, <3>2
  <2>12. SentPerAttempt(r)' /\ WrittenIfDone(r)'
    <3>1. sends[r] <= c.retries + 1 /\ sends[r] <= c.retries + 2
      BY <1>3, <2>2 DEF CallsInv, SentPerAttempt
    <3>2. QED
      BY <1>1, <2>1, <2>2, <2>5, <2>9, <3>1 DEF CallsInv, SentPerAttempt, WrittenIfDone
  <2>13. \A q \in ApiRequest \ {r} : SentPerAttempt(q)' /\ WrittenIfDone(q)'
    BY <1>1, <2>9 DEF CallsInv, SentPerAttempt, WrittenIfDone
  <2>14. QED
    BY <2>10, <2>11, <2>12, <2>13 DEF CallsInv
<1>4. QED
  BY <1>2, <1>3 DEF Api!Refuse

\* The refresh ends, and with it the waiting.
LEMMA ReleasedGo ==
  ASSUME CallsInv, NEW r \in ApiRequest, NEW step \in {"sent", "rejected"}, api_call' = Api!Released(r, step)
  PROVE  /\ api_call' \in [ApiRequest -> CallState]
         /\ \A q \in ApiRequest : /\ api_call'[q].retry = api_call[q].retry /\ api_call'[q].retries = api_call[q].retries
                                  /\ api_call'[q].step = IF q \in pendingRefreshQueue \union {r} THEN step ELSE api_call[q].step
<1>0. step \in {"none", "sent", "queued", "refresh", "backoff", "done", "rejected"}
  OBVIOUS
<1>1. ASSUME NEW q \in ApiRequest
      PROVE  \E x \in CallState :
               /\ x = IF q \in pendingRefreshQueue \union {r} THEN [api_call[q] EXCEPT !.step = step] ELSE api_call[q]
               /\ x.retry = api_call[q].retry /\ x.retries = api_call[q].retries
               /\ x.step = IF q \in pendingRefreshQueue \union {r} THEN step ELSE api_call[q].step
  <2>1. PICK c \in CallState : c = api_call[q]
    BY DEF CallsInv, CallTypes
  <2>2. PICK x \in CallState :
          x = [c EXCEPT !.step = step] /\ x.step = step /\ x.retry = c.retry /\ x.retries = c.retries
    BY <1>0, CallGoes, ZenonT(60)
  <2>3. CASE q \in pendingRefreshQueue \union {r}
    BY <2>1, <2>2, <2>3
  <2>4. CASE q \notin pendingRefreshQueue \union {r}
    BY <2>1, <2>4
  <2>5. QED
    BY <2>3, <2>4
<1>2. \A q \in ApiRequest :
        api_call'[q] = IF q \in pendingRefreshQueue \union {r} THEN [api_call[q] EXCEPT !.step = step] ELSE api_call[q]
  BY Zenon DEF Api!Released
<1>3. DOMAIN api_call' = ApiRequest /\ api_call' = [q \in ApiRequest |-> api_call'[q]]
  BY DEF Api!Released
<1>4. QED
  BY <1>1, <1>2, <1>3

LEMMA RefreshEnds ==
  ASSUME Api!ApiClientAssumption, CallsInv, NEW r \in ApiRequest, Api!Refreshed(r) \/ Api!RefreshFails(r)
  PROVE  CallsInv'
<1>1. PICK step \in {"sent", "rejected"} :
        /\ api_call[r].step = "refresh" /\ api_call' = Api!Released(r, step)
        /\ pendingRefreshQueue' = {} /\ isRefreshingToken' = FALSE
        /\ UNCHANGED <<understood, cached, api_handled, api_lost>> /\ Api!Replaced
        /\ \/ step = "sent" /\ Api!Sent(pendingRefreshQueue \union {r})
           \/ step = "rejected" /\ UNCHANGED sends
  BY Zenon DEF Api!Refreshed, Api!RefreshFails, Api!At
<1>2. /\ api_call' \in [ApiRequest -> CallState]
      /\ \A q \in ApiRequest : /\ api_call'[q].retry = api_call[q].retry /\ api_call'[q].retries = api_call[q].retries
                               /\ api_call'[q].step = IF q \in pendingRefreshQueue \union {r} THEN step ELSE api_call[q].step
  BY <1>1, ReleasedGo
<1>3. /\ token' \in {Api!NoToken, "valid", "expired", "undefined"} /\ refreshToken' \in {Api!NoToken, "valid", "used"}
      /\ api_faults' \in 0..ApiFaults
  BY DEF Api!Refreshed, Api!RefreshFails, Api!Fault, CallsInv, CallTypes, Api!TypeOK, Api!ApiClientAssumption
<1>4. isRefreshingToken /\ \A q \in ApiRequest : q \in pendingRefreshQueue \union {r} <=> api_call[q].step \in {"queued", "refresh"}
  BY <1>1 DEF CallsInv, OneRefresh
<1>5. sends \in [ApiRequest -> Nat] /\ api_handled \in [ApiRequest -> Nat] /\ api_lost \in [ApiRequest -> Nat]
  BY DEF CallsInv, CallTypes
<1>6. /\ sends' \in [ApiRequest -> Nat]
      /\ \A q \in ApiRequest : sends'[q] = sends[q]
            \/ (q \in pendingRefreshQueue \union {r} /\ step = "sent" /\ sends'[q] = sends[q] + 1)
  BY <1>1, <1>5 DEF Api!Sent
<1>7. CallTypes'
  <2>1. sentWith' \in [ApiRequest -> {"current", "valid", "refused"}]
    BY <1>1, SentWithType
  <2>2. QED
    BY <1>1, <1>2, <1>3, <1>5, <1>6, <2>1 DEF CallsInv, CallTypes, Api!TypeOK, CallState
<1>8. OneRefresh'
  <2>1. \A q \in ApiRequest : api_call'[q].step \notin {"queued", "refresh"}
    BY <1>2, <1>4
  <2>2. QED
    BY <1>1, <2>1 DEF OneRefresh
<1>9. ASSUME NEW q \in ApiRequest PROVE SentPerAttempt(q)' /\ WrittenIfDone(q)'
  <2>1. SentPerAttempt(q) /\ WrittenIfDone(q) /\ sends[q] \in Nat /\ api_call[q].retries \in Nat
    BY <1>5 DEF CallsInv, CallTypes, CallState, Api!ApiClientAssumption
  <2>2. CASE q \notin pendingRefreshQueue \union {r}
    <3>1. sends'[q] = sends[q] /\ api_call'[q].step = api_call[q].step
      BY <1>2, <1>6, <2>2
    <3>2. QED
      BY <1>1, <1>2, <2>1, <3>1 DEF SentPerAttempt, WrittenIfDone
  <2>3. CASE q \in pendingRefreshQueue \union {r}
    <3>1. api_call[q].step \in {"queued", "refresh"} /\ api_call'[q].step = step
      BY <1>2, <1>4, <2>3
    <3>2. api_call[q].retry /\ sends[q] <= api_call[q].retries + 1
      BY <2>1, <3>1 DEF SentPerAttempt
    <3>3. sends'[q] <= api_call[q].retries + 2
      BY <1>6, <2>1, <3>2
    <3>4. QED
      BY <1>1, <1>2, <2>1, <3>1, <3>2, <3>3 DEF SentPerAttempt, WrittenIfDone
  <2>4. QED
    BY <2>2, <2>3
<1>10. QED
  BY <1>7, <1>8, <1>9 DEF CallsInv

LEMMA CallsStep ==
  ASSUME Api!ApiClientAssumption, CallsInv, [Api!Next]_apiVars
  PROVE  CallsInv'
BY TokensChange, SendKeeps, SucceedKeeps, RefuseKeeps, RefreshEnds, FailKeeps, AskAgainKeeps DEF Api!Next

LEMMA CallsHold ==
  ASSUME Api!ApiClientAssumption, CallsInv
  PROVE  Api!WaitersAreReleased /\ Api!SendsBounded /\ Api!WrittenOncePerLoss
<1>1. pendingRefreshQueue = {r \in ApiRequest : Api!At(r, "queued")}
  BY Zenon DEF Api!At, CallsInv, OneRefresh
<1>2. Api!Cardinality({r \in ApiRequest : Api!At(r, "refresh")}) = IF isRefreshingToken THEN 1 ELSE 0
  <2>1. CASE isRefreshingToken
    <3>1. PICK r \in ApiRequest : \A q \in ApiRequest : api_call[q].step = "refresh" <=> q = r
      BY <2>1 DEF CallsInv, OneRefresh
    <3>2. {q \in ApiRequest : Api!At(q, "refresh")} = {r}
      BY <3>1 DEF Api!At
    <3>3. QED
      BY <2>1, <3>2, FS_Singleton, ApiSizes
  <2>2. CASE ~isRefreshingToken
    <3>1. {q \in ApiRequest : Api!At(q, "refresh")} = {}
      BY <2>2 DEF Api!At, CallsInv, OneRefresh
    <3>2. QED
      BY <2>2, <3>1, FS_EmptySet, ApiSizes
  <2>3. QED
    BY <2>1, <2>2
<1>3. pendingRefreshQueue # {} => isRefreshingToken
  BY DEF CallsInv, OneRefresh
<1>4. Api!SendsBounded
  <2>1. ASSUME NEW r \in ApiRequest PROVE sends[r] <= 2 + ApiRetries
    <3>1. sends[r] \in Nat /\ api_call[r].retries \in 0..ApiRetries /\ sends[r] <= api_call[r].retries + 2
      BY DEF CallsInv, CallTypes, CallState, SentPerAttempt
    <3>2. QED
      BY <3>1 DEF Api!ApiClientAssumption
  <2>2. QED
    BY <2>1 DEF Api!SendsBounded
<1>5. Api!WrittenOncePerLoss
  <2>1. ASSUME NEW r \in ApiWrite PROVE api_handled[r] <= 1 + api_lost[r]
    <3>1. r \in ApiRequest /\ api_handled[r] <= api_lost[r] + 1 /\ api_handled[r] \in Nat /\ api_lost[r] \in Nat
      BY DEF Api!ApiClientAssumption, CallsInv, CallTypes, WrittenIfDone
    <3>2. QED
      BY <3>1
  <2>2. QED
    BY <2>1 DEF Api!WrittenOncePerLoss
<1>6. QED
  BY <1>1, <1>2, <1>3, <1>4, <1>5 DEF Api!WaitersAreReleased

-----------------------------------------------------------------------------
(* The connected wallet *)

ReadState ==
  [step : {"none", "asked", "answered"}, of : Wallet \union {NoWallet}, balance : 0..WalletChanges,
   hydrates : BOOLEAN]

\* A read on its way is of a wallet, and has what that had.
Reading(r) == reads[r].step # "none"
ReadsSound ==
  \A r \in WalletRead : /\ ~Reading(r) => reads[r] = Wal!NoRead
                        /\ Reading(r) => reads[r].of \in Wallet
                        /\ reads[r].step = "answered" => reads[r].balance <= holdings[reads[r].of]
ShownSound == wallet_shown.of \in Wallet => wallet_shown.balance <= holdings[wallet_shown.of]

\* Unless the wallet changed under way it is of the connected one or of the linked one,
\* as is what is shown, and of the connected one if its failure takes that away, ...
OfKey ==
  ~crossed => /\ \A r \in WalletRead : Reading(r) => reads[r].of \in {publicKey, linked}
              /\ \A r \in WalletRead : Reading(r) /\ reads[r].hydrates => reads[r].of = publicKey
              /\ wallet_shown.of \in {publicKey, linked, NoWallet}
              /\ prompt # NoWallet => publicKey = NoWallet

\* ... and a read that is alone has nothing older than what is shown.
Alone ==
  ~overlapped => /\ \A q, r \in WalletRead : Reading(q) /\ Reading(r) => q = r
                 /\ \A r \in WalletRead : reads[r].step = "answered" /\ wallet_shown.of = reads[r].of =>
                      wallet_shown.balance <= reads[r].balance

WalletInv ==
  Wal!TypeOK /\ ReadsSound /\ ShownSound /\ OfKey /\ Alone /\ Wal!BalanceNotBackwards /\ Wal!KeptUnlessCrossed

LEMMA NoReadIs ==
  ASSUME Wal!SessionAssumption
  PROVE  Wal!NoRead \in ReadState /\ Wal!NoRead.step = "none" /\ Wal!Nothing.of = NoWallet /\ Wal!Nothing.balance = 0
BY DEF Wal!SessionAssumption, Wal!NoRead, Wal!Nothing, ReadState

LEMMA AskedIs ==
  ASSUME Wal!SessionAssumption, NEW w \in Wallet, NEW hydrates \in BOOLEAN
  PROVE  \E a \in ReadState : a = Wal!Asked(w, hydrates) /\ a.step = "asked" /\ a.of = w /\ a.hydrates = hydrates
<1>1. Wal!Asked(w, hydrates) \in ReadState
  BY DEF Wal!SessionAssumption, Wal!Asked, ReadState
<1>2. PICK a \in ReadState : a = Wal!Asked(w, hydrates)
  BY <1>1
<1>3. a.step = "asked" /\ a.of = w /\ a.hydrates = hydrates
  BY <1>2 DEF Wal!Asked
<1>4. QED
  BY <1>2, <1>3

LEMMA WayEmpty ==
  ASSUME Wal!SessionAssumption, WalletInv
  PROVE  Wal!OnTheirWay # {} <=> \E r \in WalletRead : Reading(r)
<1>1. \A r \in WalletRead : reads[r] # Wal!NoRead <=> Reading(r)
  BY NoReadIs DEF WalletInv, ReadsSound, Reading
<1>2. QED
  BY <1>1 DEF Wal!OnTheirWay

LEMMA WalletTypes ==
  ASSUME WalletInv
  PROVE  /\ reads \in [WalletRead -> ReadState] /\ holdings \in [Wallet -> 0..WalletChanges] /\ wallet_shown.balance \in 0..WalletChanges
         /\ publicKey \in Wallet \union {NoWallet} /\ prompt \in Wallet \union {NoWallet}
         /\ wallet_shown.of \in Wallet \union {NoWallet} /\ account \in Wallet /\ wallet_reloads \in 0..WalletReloads
         /\ linked \in Wallet \union {NoWallet}
         /\ crossed \in BOOLEAN /\ overlapped \in BOOLEAN /\ backwards \in BOOLEAN /\ robbed \in BOOLEAN
BY DEF WalletInv, Wal!TypeOK, ReadState

LEMMA WalletInit ==
  ASSUME Wal!SessionAssumption, Wal!Init
  PROVE  WalletInv
<1>1. /\ reads = [r \in WalletRead |-> Wal!NoRead] /\ holdings = [w \in Wallet |-> 0] /\ wallet_shown = Wal!Nothing
      /\ publicKey = NoWallet /\ prompt = NoWallet /\ account \in Wallet /\ store \in {"context", "store"} /\ wallet_reloads = 0
      /\ linked \in Wallet \union {NoWallet}
      /\ crossed = FALSE /\ overlapped = FALSE /\ backwards = FALSE /\ robbed = FALSE
  BY DEF Wal!Init
<1>2. reads \in [WalletRead -> ReadState] /\ \A r \in WalletRead : reads[r] = Wal!NoRead /\ ~Reading(r) /\ reads[r].step # "answered"
  BY <1>1, NoReadIs DEF Reading
<1>3. 0 \in 0..WalletChanges /\ 0 \in 0..WalletReloads
  BY DEF Wal!SessionAssumption
<1>4. Wal!TypeOK
  <2>1. {crossed, overlapped, backwards, robbed} \subseteq BOOLEAN
    BY <1>1
  <2>2. {publicKey, prompt, wallet_shown.of} \subseteq Wallet \union {NoWallet} /\ wallet_shown.balance \in 0..WalletChanges
    BY <1>1, <1>3, NoReadIs
  <2>3. QED
    BY <1>1, <1>2, <1>3, <2>1, <2>2 DEF Wal!TypeOK, ReadState
<1>5. ReadsSound /\ ShownSound /\ OfKey /\ Alone
  <2>1. NoWallet \notin Wallet
    BY DEF Wal!SessionAssumption
  <2>2. QED
    BY <1>1, <1>2, <2>1, NoReadIs DEF ReadsSound, ShownSound, OfKey, Alone
<1>6. QED
  BY <1>1, <1>4, <1>5 DEF WalletInv, Wal!BalanceNotBackwards, Wal!KeptUnlessCrossed

LEMMA ChangeKeepsWallet ==
  ASSUME Wal!SessionAssumption, WalletInv, NEW w \in Wallet, Wal!Change(w)
  PROVE  WalletInv'
<1>1. /\ UNCHANGED <<store, linked, account, publicKey, wallet_shown, prompt, reads, wallet_reloads, crossed, overlapped, backwards, robbed>>
      /\ holdings[w] < WalletChanges /\ holdings' = [holdings EXCEPT ![w] = holdings[w] + 1]
  BY DEF Wal!Change
<1>2. holdings' \in [Wallet -> 0..WalletChanges] /\ \A v \in Wallet : holdings[v] <= holdings'[v] /\ holdings[v] \in Nat /\ holdings'[v] \in Nat
  BY <1>1, WalletTypes DEF Wal!SessionAssumption
<1>3. Wal!TypeOK'
  BY <1>1, <1>2 DEF WalletInv, Wal!TypeOK
<1>4. ReadsSound' /\ ShownSound'
  <2>1. \A r \in WalletRead : reads[r].balance \in Nat /\ wallet_shown.balance \in Nat
    BY WalletTypes DEF ReadState, Wal!SessionAssumption
  <2>2. ASSUME NEW r \in WalletRead, reads[r].step = "answered"
        PROVE  reads[r].balance <= holdings'[reads[r].of]
    <3>1. PICK v \in Wallet : v = reads[r].of /\ reads[r].balance <= holdings[v]
      BY <2>2 DEF WalletInv, ReadsSound, Reading
    <3>2. PICK n \in Nat : n = reads[r].balance
      BY <2>1
    <3>3. n <= holdings[v] /\ holdings[v] <= holdings'[v] /\ holdings[v] \in Nat /\ holdings'[v] \in Nat
      BY <1>2, <3>1, <3>2
    <3>4. n <= holdings'[v]
      BY <3>3
    <3>5. QED
      BY <3>1, <3>2, <3>4
  <2>3. ReadsSound'
    BY <1>1, <2>2 DEF WalletInv, ReadsSound, Reading
  <2>4. ShownSound'
    <3>1. ASSUME wallet_shown.of \in Wallet PROVE wallet_shown.balance <= holdings'[wallet_shown.of]
      <4>1. PICK v \in Wallet : v = wallet_shown.of /\ wallet_shown.balance <= holdings[v]
        BY <3>1 DEF WalletInv, ShownSound
      <4>2. PICK n \in Nat : n = wallet_shown.balance
        BY <2>1, WalletTypes DEF Wal!SessionAssumption
      <4>3. n <= holdings[v] /\ holdings[v] <= holdings'[v] /\ holdings[v] \in Nat /\ holdings'[v] \in Nat
        BY <1>2, <4>1, <4>2
      <4>4. n <= holdings'[v]
        BY <4>3
      <4>5. QED
        BY <4>1, <4>2, <4>4
    <3>2. QED
      BY <1>1, <3>1 DEF ShownSound
  <2>5. QED
    BY <2>3, <2>4
<1>5. OfKey' /\ Alone' /\ Wal!BalanceNotBackwards' /\ Wal!KeptUnlessCrossed'
  BY <1>1 DEF WalletInv, OfKey, Alone, Reading, Wal!BalanceNotBackwards, Wal!KeptUnlessCrossed
<1>6. QED
  BY <1>3, <1>4, <1>5 DEF WalletInv

LEMMA AnswerKeepsWallet ==
  ASSUME Wal!SessionAssumption, WalletInv, NEW r \in WalletRead, Wal!Answer(r)
  PROVE  WalletInv'
<1>1. /\ UNCHANGED <<store, linked, account, holdings, publicKey, wallet_shown, prompt, wallet_reloads, crossed, overlapped, backwards, robbed>>
      /\ reads[r].step = "asked" /\ reads[r].of \in Wallet
      /\ reads' = [reads EXCEPT ![r].step = "answered", ![r].balance = holdings[reads[r].of]]
  BY DEF Wal!Answer, WalletInv, ReadsSound, Reading
<1>2. PICK b \in 0..WalletChanges : b = holdings[reads[r].of] /\ b <= holdings[reads[r].of]
  BY <1>1, WalletTypes DEF Wal!SessionAssumption
<1>3. PICK c \in ReadState : c = reads[r]
  BY WalletTypes
<1>4. PICK x \in ReadState : x = [c EXCEPT !.step = "answered", !.balance = b]
  <2>1. [c EXCEPT !.step = "answered", !.balance = b] \in ReadState
    BY DEF ReadState
  <2>2. QED
    BY <2>1
<1>5. x.step = "answered" /\ x.of = reads[r].of /\ x.balance = b /\ x.hydrates = reads[r].hydrates
  BY <1>3, <1>4 DEF ReadState
<1>6. reads' = [reads EXCEPT ![r] = [c EXCEPT !.step = "answered", !.balance = b]]
  BY <1>1, <1>2, <1>3, WalletTypes
<1>7. reads' = [reads EXCEPT ![r] = x]
  BY <1>4, <1>6, Zenon
<1>8. reads' \in [WalletRead -> ReadState] /\ reads'[r] = x /\ \A q \in WalletRead \ {r} : reads'[q] = reads[q]
  BY <1>7, WalletTypes
<1>9. Wal!TypeOK'
  BY <1>1, <1>8 DEF WalletInv, Wal!TypeOK, ReadState
<1>10. \A q \in WalletRead : Reading(q)' <=> Reading(q)
  BY <1>1, <1>5, <1>8 DEF Reading
<1>11. \A q \in WalletRead : reads'[q].of = reads[q].of /\ reads'[q].hydrates = reads[q].hydrates
  BY <1>5, <1>8
<1>12. ReadsSound' /\ ShownSound' /\ OfKey'
  <2>1. ReadsSound'
    BY <1>1, <1>2, <1>5, <1>8, <1>10 DEF WalletInv, ReadsSound, Reading
  <2>2. ShownSound' /\ OfKey'
    BY <1>1, <1>10, <1>11 DEF WalletInv, ShownSound, OfKey
  <2>3. QED
    BY <2>1, <2>2
<1>13. Alone'
  BY <1>1, <1>2, <1>5, <1>8, <1>10 DEF WalletInv, ShownSound, Alone
<1>14. QED
  BY <1>1, <1>9, <1>12, <1>13 DEF WalletInv, Wal!BalanceNotBackwards, Wal!KeptUnlessCrossed

\* The wallet, the account or the prompt changes; nothing is asked.
LEMMA KeyChanges ==
  ASSUME Wal!SessionAssumption, WalletInv, Wal!Approve \/ Wal!Disconnect \/ UNCHANGED walletVars
           \/ \E w \in Wallet, synced \in BOOLEAN : Wal!SwitchAccount(w, synced)
  PROVE  WalletInv'
<1>1. UNCHANGED <<store, linked, holdings, reads, wallet_reloads, overlapped, backwards, robbed>>
  BY DEF Wal!Approve, Wal!Disconnect, Wal!SwitchAccount, walletVars
<1>2. wallet_shown' = wallet_shown \/ wallet_shown' = Wal!Nothing
  BY DEF Wal!Approve, Wal!Disconnect, Wal!SwitchAccount, walletVars
<1>3. account' \in Wallet /\ prompt' \in Wallet \union {NoWallet} /\ publicKey' \in Wallet \union {NoWallet}
  BY WalletTypes DEF Wal!Approve, Wal!Disconnect, Wal!SwitchAccount, walletVars, Wal!SetKey
<1>4. crossed' \in BOOLEAN /\ (crossed => crossed')
  BY WalletTypes DEF Wal!Approve, Wal!Disconnect, Wal!SwitchAccount, walletVars, Wal!SetKey
<1>5. wallet_shown'.of \in Wallet \union {NoWallet} /\ wallet_shown'.balance \in 0..WalletChanges
  BY <1>2, WalletTypes, NoReadIs DEF Wal!SessionAssumption
<1>6. Wal!TypeOK'
  BY <1>1, <1>3, <1>4, <1>5 DEF WalletInv, Wal!TypeOK
<1>7. ReadsSound' /\ ShownSound' /\ Alone'
  <2>1. NoWallet \notin Wallet
    BY DEF Wal!SessionAssumption
  <2>2. ReadsSound' /\ ShownSound'
    BY <1>1, <1>2, <2>1, NoReadIs DEF WalletInv, ReadsSound, ShownSound, Reading
  <2>3. \A r \in WalletRead : reads[r].step = "answered" => reads[r].of # NoWallet
    BY <2>1 DEF WalletInv, ReadsSound, Reading
  <2>4. Alone'
    BY <1>1, <1>2, <2>3, NoReadIs DEF WalletInv, Alone, Reading
  <2>5. QED
    BY <2>2, <2>4
<1>8. OfKey'
  <2>1. CASE Wal!Approve \/ UNCHANGED walletVars \/ \E w \in Wallet, synced \in BOOLEAN : Wal!SwitchAccount(w, synced)
    BY <1>1, <2>1, WalletTypes DEF Wal!Approve, Wal!SwitchAccount, walletVars, WalletInv, OfKey, Reading
  <2>2. CASE Wal!Disconnect
    <3>1. publicKey # NoWallet /\ publicKey' = NoWallet /\ wallet_shown' = Wal!Nothing
          /\ crossed' = (crossed \/ (NoWallet # publicKey /\ Wal!OnTheirWay # {}))
      BY <2>2 DEF Wal!Disconnect, Wal!SetKey
    <3>2. ~crossed' => ~crossed /\ \A r \in WalletRead : ~Reading(r)
      BY <3>1, WayEmpty
    <3>3. QED
      BY <1>1, <3>1, <3>2, NoReadIs DEF OfKey, Reading
  <2>3. QED
    BY <2>1, <2>2
<1>9. QED
  BY <1>1, <1>4, <1>6, <1>7, <1>8 DEF WalletInv, Wal!BalanceNotBackwards, Wal!KeptUnlessCrossed

LEMMA AskKeepsWallet ==
  ASSUME Wal!SessionAssumption, WalletInv, NEW r \in WalletRead, Wal!Connect(r) \/ Wal!RefreshBalance(r)
  PROVE  WalletInv'
<1>1. PICK w \in Wallet : /\ publicKey' = w /\ Wal!Ask(r, w)
                          /\ w = publicKey \/ (w = prompt /\ crossed' = (crossed \/ (w # publicKey /\ Wal!OnTheirWay # {})))
                          /\ w = publicKey => crossed' = crossed
  BY WalletTypes, Zenon DEF Wal!Connect, Wal!RefreshBalance, Wal!SetKey
<1>2. /\ UNCHANGED <<store, linked, account, holdings, wallet_shown, wallet_reloads, backwards, robbed>>
      /\ prompt' = prompt \/ prompt' = NoWallet
  BY DEF Wal!Connect, Wal!RefreshBalance
<1>3. PICK a \in ReadState : a = Wal!Asked(w, FALSE) /\ a.step = "asked" /\ a.of = w
  <2>1. PICK hydrates \in BOOLEAN : hydrates = FALSE
    OBVIOUS
  <2>2. PICK a \in ReadState : a = Wal!Asked(w, hydrates) /\ a.step = "asked" /\ a.of = w
    BY AskedIs
  <2>3. QED
    BY <2>1, <2>2
<1>4. /\ reads[r] = Wal!NoRead /\ reads' = [reads EXCEPT ![r] = a]
      /\ overlapped' = (overlapped \/ Wal!OnTheirWay # {})
  BY <1>1, <1>3, Zenon DEF Wal!Ask
<1>5. reads' \in [WalletRead -> ReadState] /\ reads'[r] = a /\ \A q \in WalletRead \ {r} : reads'[q] = reads[q]
  BY <1>4, WalletTypes
<1>6. crossed' \in BOOLEAN /\ overlapped' \in BOOLEAN /\ (crossed => crossed') /\ (overlapped => overlapped')
  <2>1. crossed \in BOOLEAN /\ overlapped \in BOOLEAN
    BY WalletTypes
  <2>2. overlapped' \in BOOLEAN /\ (overlapped => overlapped')
    BY <1>4, <2>1, Zenon
  <2>3. crossed' = crossed \/ crossed' = (crossed \/ (w # publicKey /\ Wal!OnTheirWay # {}))
    BY <1>1, Zenon
  <2>4. crossed' \in BOOLEAN /\ (crossed => crossed')
    BY <2>1, <2>3, Zenon
  <2>5. QED
    BY <2>2, <2>4
<1>7. Wal!TypeOK'
  <2>1. {crossed', overlapped', backwards', robbed'} \subseteq BOOLEAN
    BY <1>2, <1>6, WalletTypes
  <2>2. {publicKey', prompt', wallet_shown'.of} \subseteq Wallet \union {NoWallet}
    BY <1>1, <1>2, WalletTypes
  <2>3. QED
    BY <1>2, <1>5, <2>1, <2>2 DEF WalletInv, Wal!TypeOK, ReadState
<1>8. ReadsSound' /\ ShownSound'
  BY <1>2, <1>3, <1>5 DEF WalletInv, ReadsSound, ShownSound, Reading
<1>9. OfKey'
  <2>1. CASE w = publicKey
    <3>1. w # NoWallet
      BY DEF Wal!SessionAssumption
    <3>2. QED
      BY <1>1, <1>2, <1>3, <1>5, <1>6, <2>1, <3>1 DEF WalletInv, OfKey, Reading
  <2>2. CASE w # publicKey
    <3>1. w = prompt /\ w # NoWallet /\ prompt' = NoWallet
      BY <1>1, <2>2 DEF Wal!SessionAssumption, Wal!Connect, Wal!RefreshBalance, Wal!Ask
    <3>2. ~crossed' => ~crossed /\ \A q \in WalletRead : ~Reading(q)
      BY <1>1, <2>2, WayEmpty
    <3>3. ~crossed' => wallet_shown.of \in {linked, NoWallet}
      BY <3>1, <3>2 DEF WalletInv, OfKey
    <3>4. QED
      BY <1>1, <1>2, <1>3, <1>5, <3>1, <3>2, <3>3 DEF OfKey, Reading
  <2>3. QED
    BY <2>1, <2>2
<1>10. Alone'
  <2>1. ~overlapped' => ~overlapped /\ \A q \in WalletRead : ~Reading(q)
    BY <1>4, WayEmpty
  <2>2. QED
    BY <1>2, <1>3, <1>5, <2>1 DEF Alone, Reading
<1>11. QED
  BY <1>2, <1>6, <1>7, <1>8, <1>9, <1>10 DEF WalletInv, Wal!BalanceNotBackwards, Wal!KeptUnlessCrossed

LEMMA FetchKeepsWallet ==
  ASSUME Wal!SessionAssumption, WalletInv, NEW r \in WalletRead, Wal!FetchBalanceFromAPI(r)
  PROVE  WalletInv'
<1>1. /\ linked \in Wallet /\ Wal!Ask(r, linked)
      /\ UNCHANGED <<store, linked, account, holdings, publicKey, wallet_shown, prompt, wallet_reloads, crossed,
                     backwards, robbed>>
  BY WalletTypes DEF Wal!FetchBalanceFromAPI
<1>2. PICK w \in Wallet, hydrates \in BOOLEAN : w = linked /\ hydrates = FALSE
  BY <1>1
<1>3. PICK a \in ReadState : a = Wal!Asked(w, hydrates) /\ a.step = "asked" /\ a.of = w /\ a.hydrates = hydrates
  BY AskedIs
<1>4. a = Wal!Asked(linked, FALSE)
  BY <1>2, <1>3, Zenon
<1>5. /\ reads[r] = Wal!NoRead /\ reads' = [reads EXCEPT ![r] = a]
      /\ overlapped' = (overlapped \/ Wal!OnTheirWay # {})
  BY <1>1, <1>4, Zenon DEF Wal!Ask
<1>6. reads' \in [WalletRead -> ReadState] /\ reads'[r] = a /\ \A q \in WalletRead \ {r} : reads'[q] = reads[q]
  BY <1>5, WalletTypes
<1>7. overlapped' \in BOOLEAN /\ (overlapped => overlapped')
  <2>1. overlapped \in BOOLEAN
    BY WalletTypes
  <2>2. QED
    BY <1>5, <2>1, Zenon
<1>8. Wal!TypeOK'
  <2>1. {crossed', overlapped', backwards', robbed'} \subseteq BOOLEAN
    BY <1>1, <1>7, WalletTypes
  <2>2. QED
    BY <1>1, <1>6, <2>1 DEF WalletInv, Wal!TypeOK, ReadState
<1>9. ReadsSound' /\ ShownSound' /\ OfKey'
  BY <1>1, <1>2, <1>3, <1>6 DEF WalletInv, ReadsSound, ShownSound, OfKey, Reading
<1>10. Alone'
  <2>1. ~overlapped' => ~overlapped /\ \A q \in WalletRead : ~Reading(q)
    BY <1>5, WayEmpty
  <2>2. QED
    BY <1>1, <1>3, <1>6, <2>1 DEF Alone, Reading
<1>11. QED
  BY <1>1, <1>7, <1>8, <1>9, <1>10 DEF WalletInv, Wal!BalanceNotBackwards, Wal!KeptUnlessCrossed

LEMMA ReloadKeepsWallet ==
  ASSUME Wal!SessionAssumption, WalletInv, NEW r \in WalletRead, Wal!Reload(r)
  PROVE  WalletInv'
<1>1. /\ wallet_shown' = Wal!Nothing /\ prompt' = NoWallet /\ UNCHANGED <<store, linked, account, holdings, publicKey>>
      /\ crossed' = FALSE /\ overlapped' = FALSE /\ backwards' = FALSE /\ robbed' = FALSE
      /\ wallet_reloads < WalletReloads /\ wallet_reloads' = wallet_reloads + 1
  BY DEF Wal!Reload
<1>2. PICK a \in ReadState :
        \/ publicKey # NoWallet /\ a = Wal!Asked(publicKey, TRUE) /\ a.step = "asked" /\ a.of = publicKey
        \/ publicKey = NoWallet /\ a = Wal!NoRead
  <2>1. CASE publicKey = NoWallet
    BY <2>1, NoReadIs
  <2>2. CASE publicKey # NoWallet
    <3>1. PICK w \in Wallet, hydrates \in BOOLEAN : w = publicKey /\ hydrates = TRUE
      BY <2>2, WalletTypes
    <3>2. PICK a \in ReadState : a = Wal!Asked(w, hydrates) /\ a.step = "asked" /\ a.of = w
      BY AskedIs
    <3>3. a = Wal!Asked(publicKey, TRUE) /\ a.of = publicKey
      BY <3>1, <3>2, Zenon
    <3>4. QED
      BY <2>2, <3>2, <3>3, Zenon
  <2>3. QED
    BY <2>1, <2>2
<1>3. /\ reads' \in [WalletRead -> ReadState] /\ \A q \in WalletRead : reads'[q] = IF q = r THEN a ELSE Wal!NoRead
  <2>1. reads' = [q \in WalletRead |-> IF q = r /\ publicKey # NoWallet THEN Wal!Asked(publicKey, TRUE) ELSE Wal!NoRead]
    BY DEF Wal!Reload
  <2>2. CASE publicKey = NoWallet
    <3>1. a = Wal!NoRead
      BY <1>2, <2>2, Zenon
    <3>2. \A q \in WalletRead : reads'[q] = Wal!NoRead
      BY <2>1, <2>2
    <3>3. reads' = [q \in WalletRead |-> Wal!NoRead]
      BY <2>1, <2>2
    <3>4. QED
      BY <3>1, <3>2, <3>3, NoReadIs
  <2>3. CASE publicKey # NoWallet
    <3>1. a = Wal!Asked(publicKey, TRUE)
      BY <1>2, <2>3, Zenon
    <3>2. reads' = [q \in WalletRead |-> IF q = r THEN a ELSE Wal!NoRead]
      BY <2>1, <2>3, <3>1
    <3>3. QED
      BY <3>2, NoReadIs
  <2>4. QED
    BY <2>2, <2>3
<1>4. Wal!TypeOK'
  <2>1. {crossed', overlapped', backwards', robbed'} \subseteq BOOLEAN
    BY <1>1
  <2>2. {publicKey', prompt', wallet_shown'.of} \subseteq Wallet \union {NoWallet} /\ wallet_shown'.balance \in 0..WalletChanges
    BY <1>1, WalletTypes, NoReadIs DEF Wal!SessionAssumption
  <2>3. wallet_reloads' \in 0..WalletReloads
    BY <1>1, WalletTypes DEF Wal!SessionAssumption
  <2>4. QED
    BY <1>1, <1>3, <2>1, <2>2, <2>3 DEF WalletInv, Wal!TypeOK, ReadState
<1>5. NoWallet \notin Wallet
  BY DEF Wal!SessionAssumption
<1>6. \A q \in WalletRead : Reading(q)' => q = r /\ publicKey # NoWallet /\ reads'[q].of = publicKey /\ reads'[q].step = "asked"
  BY <1>2, <1>3, NoReadIs DEF Reading
<1>7. ReadsSound' /\ ShownSound'
  <2>1. \A q \in WalletRead : ~Reading(q)' => reads'[q] = Wal!NoRead
    BY <1>2, <1>3 DEF Reading
  <2>2. QED
    BY <1>1, <1>5, <1>6, <2>1, WalletTypes, NoReadIs DEF ReadsSound, ShownSound, Reading
<1>8. OfKey' /\ Alone'
  BY <1>1, <1>6, NoReadIs DEF OfKey, Alone, Reading
<1>9. QED
  BY <1>1, <1>4, <1>7, <1>8 DEF WalletInv, Wal!BalanceNotBackwards, Wal!KeptUnlessCrossed

LEMMA ArriveKeepsWallet ==
  ASSUME Wal!SessionAssumption, WalletInv, NEW r \in WalletRead, Wal!Arrive(r)
  PROVE  WalletInv'
<1>1. /\ reads[r].step = "answered" /\ reads' = [reads EXCEPT ![r] = Wal!NoRead]
      /\ wallet_shown' = [of |-> reads[r].of, balance |-> reads[r].balance]
      /\ backwards' = (backwards \/ (wallet_shown.of = reads[r].of /\ reads[r].balance < wallet_shown.balance))
      /\ UNCHANGED <<store, linked, account, holdings, publicKey, prompt, wallet_reloads, crossed, overlapped, robbed>>
  BY DEF Wal!Arrive
<1>2. wallet_shown'.of = reads[r].of /\ wallet_shown'.balance = reads[r].balance
  BY <1>1
<1>3. reads' \in [WalletRead -> ReadState] /\ reads'[r] = Wal!NoRead /\ \A q \in WalletRead \ {r} : reads'[q] = reads[q]
  BY <1>1, WalletTypes, NoReadIs
<1>4. reads[r].of \in Wallet /\ reads[r].balance \in 0..WalletChanges /\ Reading(r)
  BY <1>1, WalletTypes DEF WalletInv, ReadsSound, Reading, ReadState
<1>5. Wal!TypeOK'
  <2>1. {crossed', overlapped', backwards', robbed'} \subseteq BOOLEAN
    BY <1>1, WalletTypes
  <2>2. {publicKey', prompt', wallet_shown'.of} \subseteq Wallet \union {NoWallet} /\ wallet_shown'.balance \in 0..WalletChanges
    BY <1>1, <1>2, <1>4, WalletTypes
  <2>3. QED
    BY <1>1, <1>3, <2>1, <2>2 DEF WalletInv, Wal!TypeOK, ReadState
<1>6. ~Reading(r)' /\ \A q \in WalletRead \ {r} : Reading(q)' <=> Reading(q)
  BY <1>3, NoReadIs DEF Reading
<1>7. ReadsSound' /\ ShownSound'
  <2>1. ReadsSound'
    BY <1>1, <1>3, NoReadIs DEF WalletInv, ReadsSound, Reading
  <2>2. ShownSound'
    BY <1>1, <1>2 DEF WalletInv, ReadsSound, ShownSound
  <2>3. QED
    BY <2>1, <2>2
<1>8. OfKey'
  <2>1. CASE ~crossed
    <3>1. /\ \A q \in WalletRead : Reading(q) => reads[q].of \in {publicKey, linked}
          /\ \A q \in WalletRead : Reading(q) /\ reads[q].hydrates => reads[q].of = publicKey
      BY <2>1, Zenon DEF WalletInv, OfKey
    <3>2. reads[r].of \in {publicKey, linked} /\ (prompt # NoWallet => publicKey = NoWallet)
      BY <1>4, <2>1, <3>1 DEF WalletInv, OfKey
    <3>3. \A q \in WalletRead : Reading(q)' => Reading(q) /\ reads'[q] = reads[q]
      BY <1>3, <1>6
    <3>4. QED
      BY <1>1, <1>2, <3>1, <3>2, <3>3 DEF OfKey
  <2>2. CASE crossed
    BY <1>1, <2>2 DEF OfKey
  <2>3. QED
    BY <2>1, <2>2
<1>9. Alone'
  <2>1. ~overlapped => \A q \in WalletRead : ~Reading(q)'
    BY <1>4, <1>6 DEF WalletInv, Alone
  <2>2. QED
    BY <1>1, <2>1 DEF Alone, Reading
<1>10. Wal!BalanceNotBackwards'
  <2>1. ~overlapped => ~(wallet_shown.of = reads[r].of /\ reads[r].balance < wallet_shown.balance)
    <3>1. reads[r].balance \in Nat /\ wallet_shown.balance \in Nat
      BY <1>4, WalletTypes DEF Wal!SessionAssumption
    <3>2. ~overlapped /\ wallet_shown.of = reads[r].of => wallet_shown.balance <= reads[r].balance
      BY <1>1 DEF WalletInv, Alone
    <3>3. QED
      BY <3>1, <3>2
  <2>2. QED
    BY <1>1, <2>1 DEF WalletInv, Wal!BalanceNotBackwards
<1>11. QED
  BY <1>1, <1>5, <1>7, <1>8, <1>9, <1>10 DEF WalletInv, Wal!KeptUnlessCrossed

LEMMA FailKeepsWallet ==
  ASSUME Wal!SessionAssumption, WalletInv, NEW r \in WalletRead, Wal!Fail(r)
  PROVE  WalletInv'
<1>1. /\ reads[r] # Wal!NoRead /\ reads' = [reads EXCEPT ![r] = Wal!NoRead]
      /\ UNCHANGED <<store, linked, account, holdings, prompt, wallet_reloads, overlapped, backwards>>
  BY DEF Wal!Fail
<1>2. reads' \in [WalletRead -> ReadState] /\ reads'[r] = Wal!NoRead /\ \A q \in WalletRead \ {r} : reads'[q] = reads[q]
  BY <1>1, WalletTypes, NoReadIs
<1>3. Reading(r) /\ reads[r].of \in Wallet /\ Wal!OnTheirWay # {}
  BY <1>1, WayEmpty DEF WalletInv, ReadsSound
<1>4. ~Reading(r)' /\ \A q \in WalletRead \ {r} : Reading(q)' <=> Reading(q)
  BY <1>2, NoReadIs DEF Reading
<1>5. wallet_shown' = wallet_shown \/ wallet_shown' = Wal!Nothing
  BY DEF Wal!Fail
<1>6. \/ UNCHANGED <<publicKey, wallet_shown, crossed, robbed>>
      \/ publicKey' = NoWallet /\ crossed' = TRUE /\ robbed' = robbed
  <2>1. CASE reads[r].hydrates
    <3>1. publicKey' = NoWallet /\ crossed' = (crossed \/ NoWallet # publicKey)
          /\ robbed' = (robbed \/ (~crossed /\ publicKey \notin {NoWallet, reads[r].of}))
      BY <1>3, <2>1 DEF Wal!Fail, Wal!SetKey
    <3>3. ~crossed => publicKey = reads[r].of
      <4>1. ASSUME ~crossed PROVE reads[r].of = publicKey
        <5>1. \A q \in WalletRead : Reading(q) /\ reads[q].hydrates => reads[q].of = publicKey
          BY <4>1, Zenon DEF WalletInv, OfKey
        <5>2. QED
          BY <1>3, <2>1, <5>1, Zenon
      <4>2. QED
        BY <4>1, Zenon
    <3>2. crossed \/ NoWallet # publicKey
      BY <1>3, <3>3 DEF Wal!SessionAssumption
    <3>4. robbed' = robbed
      BY <3>1, <3>3, WalletTypes
    <3>5. QED
      BY <3>1, <3>2, <3>4
  <2>2. CASE ~reads[r].hydrates
    BY <2>2 DEF Wal!Fail
  <2>3. QED
    BY <2>1, <2>2
<1>7. Wal!TypeOK'
  <2>1. {crossed', overlapped', backwards', robbed'} \subseteq BOOLEAN
    BY <1>1, <1>6, WalletTypes
  <2>2. {publicKey', prompt', wallet_shown'.of} \subseteq Wallet \union {NoWallet} /\ wallet_shown'.balance \in 0..WalletChanges
    BY <1>1, <1>5, <1>6, WalletTypes, NoReadIs DEF Wal!SessionAssumption
  <2>3. wallet_reloads' \in 0..WalletReloads
    BY <1>1, WalletTypes DEF Wal!SessionAssumption
  <2>4. QED
    BY <1>1, <1>2, <2>1, <2>2, <2>3 DEF WalletInv, Wal!TypeOK, ReadState
<1>8. NoWallet \notin Wallet
  BY DEF Wal!SessionAssumption
<1>9. ReadsSound' /\ ShownSound'
  <2>1. ReadsSound'
    BY <1>1, <1>2, NoReadIs DEF WalletInv, ReadsSound, Reading
  <2>2. ShownSound'
    BY <1>1, <1>5, <1>8, NoReadIs DEF WalletInv, ShownSound
  <2>3. QED
    BY <2>1, <2>2
<1>10. OfKey'
  BY <1>1, <1>2, <1>4, <1>6 DEF WalletInv, OfKey
<1>11. Alone'
  <2>1. \A q \in WalletRead : reads[q].step = "answered" => reads[q].of # NoWallet
    BY <1>8 DEF WalletInv, ReadsSound, Reading
  <2>2. \A q \in WalletRead : reads'[q].step = "answered" => q # r
    BY <1>2, NoReadIs
  <2>3. QED
    BY <1>1, <1>2, <1>4, <1>5, <2>1, <2>2, NoReadIs DEF WalletInv, Alone
<1>12. QED
  BY <1>1, <1>6, <1>7, <1>9, <1>10, <1>11 DEF WalletInv, Wal!BalanceNotBackwards, Wal!KeptUnlessCrossed

LEMMA WalletStep ==
  ASSUME Wal!SessionAssumption, WalletInv, [Wal!Next]_walletVars
  PROVE  WalletInv'
BY ChangeKeepsWallet, AnswerKeepsWallet, KeyChanges, AskKeepsWallet, ReloadKeepsWallet,
   ArriveKeepsWallet, FailKeepsWallet, FetchKeepsWallet DEF Wal!Next

LEMMA WalletHolds ==
  ASSUME WalletInv
  PROVE  Wal!BalanceIsOfWallet /\ Wal!BalanceNotBackwards /\ Wal!KeptUnlessCrossed
BY DEF WalletInv, OfKey, Wal!BalanceIsOfWallet

-----------------------------------------------------------------------------
(* The history and the poller *)

LEMMA FeeSizes ==
  /\ \A S : Fee!IsFiniteSet(S) <=> IsFiniteSet(S)
  /\ \A S : Fee!Cardinality(S) = Cardinality(S)
BY Zenon DEF Fee!IsFiniteSet, Fee!Cardinality, IsFiniteSet, Cardinality

ViewState == [items : Seq(1..FeedItems), page : 1..FeedLimit, loading : BOOLEAN, error : BOOLEAN,
              hasMore : BOOLEAN]

\* The first of the transactions on a page that ends with the nth.
LowOf(n) == IF n > FeedPage THEN n - FeedPage + 1 ELSE 1

\* The transactions shown are those from lo to hi, the last page those from lo on.
Extent(lo, hi) ==
  /\ Fee!Shown = lo..hi /\ hi <= feed_made /\ lo <= hi
  /\ view.hasMore => lo > 1 /\ view.page < FeedLimit /\ cursors[view.page + 1] = lo
  /\ ~view.hasMore => lo = 1 \/ view.page = FeedLimit
  /\ view.page > 1 => /\ cursors[view.page] \in lo + 1..hi
                      /\ lo = LowOf(cursors[view.page] - 1)

Fetching ==
  /\ view.loading <=> inFlight # 0
  /\ inFlight \in {0, view.page, view.page + 1} /\ cursors[1] = 0
  /\ inFlight = view.page + 1 => view.hasMore /\ Fee!Shown # {}
  /\ inFlight = view.page /\ view.page > 1 => repeated

ListShown ==
  /\ Fee!Shown = {} => view.page = 1 /\ (~view.hasMore \/ view.loading \/ view.error)
  /\ Fee!Shown # {} => \E lo, hi \in 1..FeedItems : Extent(lo, hi)
  /\ Fee!IsInjective(view.items) \/ repeated

FeedInv == Fee!TypeOK /\ view \in ViewState /\ Fetching /\ ListShown /\ Fee!StatusIsVerdict

LEMMA MaxOfUpTo ==
  ASSUME NEW m \in Nat, NEW n \in Nat, m <= n
  PROVE  Fee!Max(m..n) = n /\ Fee!Min(m..n) = m
<1>1. n \in m..n /\ \A y \in m..n : n >= y
  OBVIOUS
<1>2. m \in m..n /\ \A y \in m..n : m <= y
  OBVIOUS
<1>3. \A x \in m..n : (\A y \in m..n : x >= y) => x = n
  OBVIOUS
<1>4. \A x \in m..n : (\A y \in m..n : x <= y) => x = m
  OBVIOUS
<1>5. Fee!Max(m..n) = n
  BY <1>1, <1>3 DEF Fee!Max
<1>6. Fee!Min(m..n) = m
  BY <1>2, <1>4 DEF Fee!Min
<1>7. QED
  BY <1>5, <1>6

\* What the server answers: from m to what is before the cursor.
LEMMA PageIs ==
  ASSUME Fee!FeedsAssumption, NEW oldest \in Nat, NEW n \in Nat, Fee!Before(oldest) = 1..n,
         NEW m \in Nat, m = LowOf(n)
  PROVE  Fee!PageAt(oldest) = m..n
<1>1. FeedPage \in Nat /\ FeedPage >= 1
  BY DEF Fee!FeedsAssumption
<1>2. (1..n) \union {0} = 0..n
  OBVIOUS
<1>3. Fee!Max(0..n) = n
  BY MaxOfUpTo
<1>4. Fee!PageAt(oldest) = {i \in 1..n : i > n - FeedPage}
  BY <1>2, <1>3, Zenon DEF Fee!PageAt
<1>5. {i \in 1..n : i > n - FeedPage} = m..n
  BY <1>1 DEF LowOf
<1>6. QED
  BY <1>4, <1>5, Zenon

NewestFirst(m, n) == [k \in 1..Fee!Cardinality(m..n) |-> Fee!Max(m..n) - k + 1]

LEMMA NewestFirstIs ==
  ASSUME NEW m \in Nat, m >= 1, NEW n \in 0..FeedItems, m <= n + 1, FeedItems \in Nat
  PROVE  /\ NewestFirst(m, n) \in Seq(1..FeedItems) /\ Fee!Range(NewestFirst(m, n)) = m..n
         /\ Fee!IsInjective(NewestFirst(m, n))
<1> DEFINE f == [k \in 1..(n - m + 1) |-> n - k + 1]
<1>1. m \in Nat /\ n \in Nat /\ n - m + 1 \in Nat
  OBVIOUS
<1>2. NewestFirst(m, n) = f
  <2>1. CASE m <= n
    <3>1. Fee!Cardinality(m..n) = n - m + 1
      BY <1>1, <2>1, FS_Interval, FeeSizes
    <3>2. Fee!Max(m..n) = n
      BY <1>1, <2>1, MaxOfUpTo
    <3>3. QED
      BY <3>1, <3>2 DEF NewestFirst
  <2>2. CASE m = n + 1
    <3>1. m..n = {} /\ Fee!Cardinality(m..n) = 0
      BY <1>1, <2>2, FS_EmptySet, FeeSizes
    <3>2. QED
      BY <1>1, <2>2, <3>1 DEF NewestFirst
  <2>3. QED
    BY <1>1, <2>1, <2>2
<1>3. \A k \in 1..(n - m + 1) : n - k + 1 \in m..n /\ m..n \subseteq 1..FeedItems
  BY <1>1
<1>4. f \in Seq(1..FeedItems)
  BY <1>1, <1>3
<1>5. Fee!Range(f) = m..n
  <2>1. \A k \in DOMAIN f : f[k] \in m..n
    BY <1>3
  <2>2. ASSUME NEW i \in m..n PROVE \E k \in DOMAIN f : f[k] = i
    <3>1. n - i + 1 \in 1..(n - m + 1) /\ n - (n - i + 1) + 1 = i
      BY <1>1
    <3>2. QED
      BY <3>1
  <2>3. QED
    BY <2>1, <2>2 DEF Fee!Range
<1>6. Fee!IsInjective(f)
  BY <1>1 DEF Fee!IsInjective
<1>7. QED
  BY <1>2, <1>4, <1>5, <1>6

LEMMA LowIs ==
  ASSUME Fee!FeedsAssumption, NEW n \in Nat
  PROVE  LowOf(n) \in Nat /\ LowOf(n) >= 1 /\ LowOf(n) <= n + 1 /\ (n >= 1 => LowOf(n) <= n)
BY DEF Fee!FeedsAssumption, LowOf

LEMMA Appended ==
  ASSUME NEW S, NEW s \in Seq(S), NEW t \in Seq(S)
  PROVE  /\ s \o t \in Seq(S) /\ Fee!Range(s \o t) = Fee!Range(s) \union Fee!Range(t)
         /\ Fee!IsInjective(s) /\ Fee!IsInjective(t) /\ Fee!Range(s) \cap Fee!Range(t) = {} => Fee!IsInjective(s \o t)
<1>1. PICK m \in Nat, n \in Nat : m = Len(s) /\ n = Len(t)
  OBVIOUS
<1>2. PICK c : c = s \o t
  OBVIOUS
<1>3. DOMAIN s = 1..m /\ DOMAIN t = 1..n /\ DOMAIN c = 1..(m + n)
  BY <1>2, <1>1
<1>4. \A i \in 1..(m + n) : c[i] = IF i <= m THEN s[i] ELSE t[i - m]
  BY <1>2, <1>1
<1>5. c \in Seq(S)
  BY <1>2
<1>6. Fee!Range(c) = Fee!Range(s) \union Fee!Range(t)
  <2>1. \A i \in 1..m : i \in 1..(m + n) /\ c[i] = s[i]
    BY <1>4
  <2>2. \A j \in 1..n : m + j \in 1..(m + n) /\ c[m + j] = t[j]
    BY <1>4
  <2>3. \A i \in 1..(m + n) :
          (i \in 1..m /\ c[i] = s[i]) \/ (i - m \in 1..n /\ c[i] = t[i - m])
    BY <1>4
  <2>4. /\ Fee!Range(s) = {s[i] : i \in 1..m} /\ Fee!Range(t) = {t[i] : i \in 1..n}
        /\ Fee!Range(c) = {c[i] : i \in 1..(m + n)}
    BY <1>3, Zenon DEF Fee!Range
  <2>5. QED
    BY <2>1, <2>2, <2>3, <2>4
<1>7. ASSUME Fee!IsInjective(s), Fee!IsInjective(t), Fee!Range(s) \cap Fee!Range(t) = {}
      PROVE  Fee!IsInjective(c)
  <2>1. \A i \in 1..m, j \in 1..n : s[i] # t[j]
    BY <1>3, <1>7 DEF Fee!Range
  <2>2. ASSUME NEW i \in 1..(m + n), NEW j \in 1..(m + n), c[i] = c[j]
        PROVE  i = j
    <3>1. CASE i <= m /\ j <= m
      BY <1>3, <1>4, <1>7, <2>2, <3>1 DEF Fee!IsInjective
    <3>2. CASE i > m /\ j > m
      <4>1. i - m \in 1..n /\ j - m \in 1..n /\ t[i - m] = t[j - m]
        BY <1>4, <2>2, <3>2
      <4>2. i - m = j - m
        BY <1>3, <1>7, <4>1 DEF Fee!IsInjective
      <4>3. QED
        BY <4>2
    <3>3. CASE i <= m /\ j > m
      <4>1. i \in 1..m /\ j - m \in 1..n /\ s[i] = t[j - m]
        BY <1>4, <2>2, <3>3
      <4>2. QED
        BY <2>1, <4>1
    <3>4. CASE i > m /\ j <= m
      <4>1. j \in 1..m /\ i - m \in 1..n /\ s[j] = t[i - m]
        BY <1>4, <2>2, <3>4
      <4>2. QED
        BY <2>1, <4>1
    <3>5. QED
      BY <3>1, <3>2, <3>3, <3>4
  <2>3. QED
    BY <1>3, <2>2 DEF Fee!IsInjective
<1>8. QED
  BY <1>2, <1>5, <1>6, <1>7

LEMMA FeedTypes ==
  ASSUME Fee!FeedsAssumption, FeedInv
  PROVE  /\ FeedItems \in Nat /\ FeedPage \in Nat /\ FeedPage >= 1 /\ FeedLimit \in Nat /\ FeedLimit >= 1
         /\ view \in ViewState /\ view.items \in Seq(1..FeedItems) /\ view.page \in 1..FeedLimit
         /\ view.loading \in BOOLEAN /\ view.error \in BOOLEAN /\ view.hasMore \in BOOLEAN
         /\ feed_made \in 0..FeedItems /\ inFlight \in 0..FeedLimit + 1
         /\ cursors \in [1..FeedLimit + 1 -> 0..FeedItems] /\ repeated \in BOOLEAN
BY DEF Fee!FeedsAssumption, FeedInv, Fee!TypeOK, ViewState

\* A page that comes is the first, the last that came, or the one after it.
LEMMA PageComes ==
  ASSUME Fee!FeedsAssumption, FeedInv, inFlight # 0
  PROVE  /\ inFlight \in 1..FeedLimit
         /\ \/ inFlight = 1 /\ cursors[inFlight] = 0
            \/ /\ inFlight > 1 /\ inFlight = view.page /\ repeated
               /\ \E lo, hi \in 1..FeedItems : Extent(lo, hi)
            \/ /\ inFlight > 1 /\ inFlight = view.page + 1 /\ view.hasMore
               /\ \E lo, hi \in 1..FeedItems : Extent(lo, hi)
<1>1. CASE inFlight = view.page /\ view.page = 1
  BY <1>1, FeedTypes DEF FeedInv, Fetching
<1>2. CASE inFlight = view.page /\ view.page # 1
  BY <1>2, FeedTypes, SMTT(60) DEF FeedInv, Fetching, ListShown
<1>3. CASE inFlight = view.page + 1
  <2>1. view.hasMore /\ \E lo, hi \in 1..FeedItems : Extent(lo, hi)
    BY <1>3 DEF FeedInv, Fetching, ListShown
  <2>2. view.page < FeedLimit
    BY <2>1 DEF Extent
  <2>3. QED
    BY <1>3, <2>1, <2>2, FeedTypes, SMTT(60)
<1>4. QED
  BY <1>1, <1>2, <1>3, FeedTypes DEF FeedInv, Fetching

\* What a page that comes does to the list.
LEMMA SuccessDoes ==
  ASSUME Fee!FeedsAssumption, FeedInv, Fee!Success
  PROVE  \E n \in 0..FeedItems, m \in Nat :
           /\ n = (IF cursors[inFlight] = 0 THEN feed_made ELSE cursors[inFlight] - 1) /\ m = LowOf(n)
           /\ cursors' = IF m = 1 THEN cursors ELSE [cursors EXCEPT ![inFlight + 1] = m]
           /\ view' = [items |-> IF inFlight = 1 THEN NewestFirst(m, n) ELSE view.items \o NewestFirst(m, n),
                       page |-> inFlight, loading |-> FALSE, error |-> FALSE,
                       hasMore |-> m # 1 /\ inFlight < FeedLimit]
<1>1. inFlight \in 1..FeedLimit
  BY PageComes DEF Fee!Success
<1>2. /\ cursors \in [1..FeedLimit + 1 -> 0..FeedItems] /\ feed_made \in 0..FeedItems
      /\ FeedItems \in Nat /\ FeedLimit \in Nat
  BY FeedTypes, Zenon
<1>3. PICK c \in 0..FeedItems : c = cursors[inFlight]
  BY <1>1, <1>2
<1>4. PICK n \in 0..FeedItems : n = IF c = 0 THEN feed_made ELSE c - 1
  BY <1>2, <1>3
<1>5. Fee!Before(c) = 1..n
  BY <1>4 DEF Fee!Before
<1>6. PICK m \in Nat : m = LowOf(n) /\ m >= 1 /\ m <= n + 1 /\ (n >= 1 => m <= n)
  <2>1. n \in Nat
    BY FeedTypes
  <2>2. QED
    BY <2>1, LowIs
<1>7. Fee!PageAt(c) = m..n
  BY <1>3, <1>5, <1>6, FeedTypes, PageIs, SMTT(60)
<1>8. (IF Fee!Before(c) \ Fee!PageAt(c) # {} THEN Fee!Min(Fee!PageAt(c)) ELSE 0) = IF m = 1 THEN 0 ELSE m
  <2>1. CASE m = 1
    BY <1>5, <1>7, <2>1
  <2>2. CASE m # 1
    <3>1. 1 \in Fee!Before(c) \ Fee!PageAt(c)
      BY <1>5, <1>6, <1>7, <2>2
    <3>2. m <= n
      BY <1>6, <2>2
    <3>3. Fee!Min(m..n) = m
      BY <3>2, MaxOfUpTo
    <3>4. QED
      BY <1>7, <2>2, <3>1, <3>3
  <2>3. QED
    BY <2>1, <2>2
<1>9. [k \in 1..Fee!Cardinality(Fee!PageAt(c)) |-> Fee!Max(Fee!PageAt(c)) - k + 1] = NewestFirst(m, n)
  BY <1>7, Zenon DEF NewestFirst
<1> DEFINE last == IF Fee!Before(c) \ Fee!PageAt(c) # {} THEN Fee!Min(Fee!PageAt(c)) ELSE 0
           items == [k \in 1..Fee!Cardinality(Fee!PageAt(c)) |-> Fee!Max(Fee!PageAt(c)) - k + 1]
<1>10. /\ cursors' = IF last = 0 THEN cursors ELSE [cursors EXCEPT ![inFlight + 1] = last]
      /\ view' = [items |-> IF inFlight = 1 THEN items ELSE view.items \o items,
                  page |-> inFlight, loading |-> FALSE, error |-> FALSE,
                  hasMore |-> last # 0 /\ inFlight < FeedLimit]
  BY <1>3, Zenon DEF Fee!Success
<1>11. last = (IF m = 1 THEN 0 ELSE m) /\ items = NewestFirst(m, n)
  BY <1>8, <1>9
<1> HIDE DEF last, items
<1>12. (last = 0 <=> m = 1) /\ (m # 1 => last = m)
  BY <1>6, <1>11
<1>13. cursors' = IF m = 1 THEN cursors ELSE [cursors EXCEPT ![inFlight + 1] = m]
  BY <1>10, <1>12
<1>14. (last # 0 /\ inFlight < FeedLimit) = (m # 1 /\ inFlight < FeedLimit)
  BY <1>12
<1>15. view' = [items |-> IF inFlight = 1 THEN NewestFirst(m, n) ELSE view.items \o NewestFirst(m, n),
                page |-> inFlight, loading |-> FALSE, error |-> FALSE,
                hasMore |-> m # 1 /\ inFlight < FeedLimit]
  BY <1>10, <1>11, <1>14, Zenon
<1>16. QED
  BY <1>3, <1>4, <1>6, <1>13, <1>15, Zenon

LEMMA SuccessKeepsFeeds ==
  ASSUME Fee!FeedsAssumption, FeedInv, Fee!Success
  PROVE  FeedInv'
<1>1. PICK n \in 0..FeedItems, m \in Nat :
           /\ n = (IF cursors[inFlight] = 0 THEN feed_made ELSE cursors[inFlight] - 1) /\ m = LowOf(n)
           /\ cursors' = IF m = 1 THEN cursors ELSE [cursors EXCEPT ![inFlight + 1] = m]
           /\ view' = [items |-> IF inFlight = 1 THEN NewestFirst(m, n) ELSE view.items \o NewestFirst(m, n),
                       page |-> inFlight, loading |-> FALSE, error |-> FALSE,
                       hasMore |-> m # 1 /\ inFlight < FeedLimit]
  BY SuccessDoes, Zenon
<1>2. /\ inFlight # 0 /\ inFlight' = 0
      /\ UNCHANGED <<feed_made, repeated, verdict, poll, status, abort, unsure, overlap, feed_faults>>
  BY DEF Fee!Success, Fee!pollVars
<1>3. PICK p \in 1..FeedLimit : p = inFlight
  BY <1>2, PageComes
<1>4. m >= 1 /\ m <= n + 1 /\ (n >= 1 => m <= n)
  <2>1. n \in Nat
    BY FeedTypes
  <2>2. QED
    BY <1>1, <2>1, LowIs
<1>5. PICK new \in Seq(1..FeedItems) : new = NewestFirst(m, n) /\ Fee!Range(new) = m..n /\ Fee!IsInjective(new)
  BY <1>4, FeedTypes, NewestFirstIs
<1>6. PICK list \in Seq(1..FeedItems) : list = IF p = 1 THEN new ELSE view.items \o new
  BY <1>5, FeedTypes, Appended
<1>7. PICK more \in BOOLEAN : more = (m # 1 /\ p < FeedLimit)
  OBVIOUS
<1>8. view' = [items |-> list, page |-> p, loading |-> FALSE, error |-> FALSE, hasMore |-> more]
  BY <1>1, <1>3, <1>5, <1>6, <1>7, Zenon
<1>9. /\ view' \in ViewState /\ view'.items = list /\ view'.page = p /\ view'.loading = FALSE
      /\ view'.error = FALSE /\ view'.hasMore = more
  BY <1>8 DEF ViewState
<1>10. /\ cursors' \in [1..FeedLimit + 1 -> 0..FeedItems] /\ (m # 1 => cursors'[p + 1] = m)
       /\ \A q \in 1..FeedLimit + 1 : q # p + 1 => cursors'[q] = cursors[q]
  <2>1. CASE m = 1
    BY <1>1, <2>1, FeedTypes
  <2>2. CASE m # 1
    <3>1. m \in 0..FeedItems /\ p + 1 \in 1..FeedLimit + 1
      BY <1>4, <2>2, FeedTypes
    <3>2. cursors' = [cursors EXCEPT ![p + 1] = m]
      BY <1>1, <1>3, <2>2
    <3>3. QED
      BY <3>1, <3>2, FeedTypes
  <2>3. QED
    BY <2>1, <2>2
<1>16. p # 1 => /\ Fee!Range(list) = Fee!Shown \union (m..n)
                /\ Fee!IsInjective(view.items) /\ Fee!Shown \cap (m..n) = {} => Fee!IsInjective(list)
  <2>1. PICK old \in Seq(1..FeedItems) : old = view.items
    BY FeedTypes
  <2>2. /\ Fee!Range(old \o new) = Fee!Range(old) \union Fee!Range(new)
        /\ Fee!IsInjective(old) /\ Fee!IsInjective(new) /\ Fee!Range(old) \cap Fee!Range(new) = {} => Fee!IsInjective(old \o new)
    BY Appended
  <2>3. p # 1 => list = old \o new
    BY <1>6, <2>1
  <2>4. Fee!Range(old) = Fee!Shown
    BY <2>1 DEF Fee!Shown
  <2>5. QED
    BY <1>5, <2>1, <2>2, <2>3, <2>4, Zenon
<1>17. ASSUME NEW a \in 1..FeedItems, NEW b \in 1..FeedItems,
              Fee!Shown' = a..b, b <= feed_made', a <= b,
              m # 1 => a = m /\ a > 1, m = 1 => a = 1,
              p > 1 => cursors'[p] \in a + 1..b /\ a = LowOf(cursors'[p] - 1)
       PROVE  Extent(a, b)'
  <2>1. more => a > 1 /\ p < FeedLimit /\ cursors'[p + 1] = a
    BY <1>7, <1>10, <1>17
  <2>2. ~more => a = 1 \/ p = FeedLimit
    <3>1. ~more => m = 1 \/ ~(p < FeedLimit)
      BY <1>7, Zenon
    <3>2. ~(p < FeedLimit) => p = FeedLimit
      BY FeedTypes
    <3>3. QED
      BY <1>17, <3>1, <3>2, Zenon
  <2>3. QED
    BY <1>9, <1>17, <2>1, <2>2 DEF Extent
<1>11. Fee!TypeOK'
  <2>1. inFlight' \in 0..FeedLimit + 1 /\ view'.page \in 1..FeedLimit
    BY <1>2, <1>9, FeedTypes
  <2>2. view'.items \in Seq(1..FeedItems) /\ {view'.loading, view'.error, view'.hasMore} \subseteq BOOLEAN
    BY <1>9
  <2>3. QED
    BY <1>2, <1>10, <2>1, <2>2 DEF FeedInv, Fee!TypeOK
<1>12. Fetching'
  <2>1. cursors'[1] = 0
    BY <1>10, FeedTypes DEF FeedInv, Fetching
  <2>2. inFlight' # view'.page /\ inFlight' # view'.page + 1
    BY <1>2, <1>9, FeedTypes
  <2>3. QED
    BY <1>2, <1>9, <2>1, <2>2 DEF Fetching
<1>13. Fee!StatusIsVerdict'
  BY <1>2 DEF FeedInv, Fee!StatusIsVerdict
<1>14. ListShown'
  <2>1. Fee!Shown' = Fee!Range(list)
    BY <1>9 DEF Fee!Shown
  <2>2. CASE p = 1
    <3>1. list = new /\ n = feed_made /\ feed_made' = feed_made
      BY <1>1, <1>2, <1>3, <1>6, <2>2, PageComes
    <3>2. Fee!Shown' = m..n /\ Fee!IsInjective(view'.items)
      BY <1>5, <1>9, <2>1, <3>1
    <3>3. CASE n = 0
      <4>1. m = 1 /\ Fee!Shown' = {}
        BY <1>4, <3>2, <3>3
      <4>2. QED
        BY <1>7, <1>9, <2>2, <3>2, <4>1 DEF ListShown
    <3>4. CASE n # 0
      <4>1. m \in 1..FeedItems /\ n \in 1..FeedItems /\ m <= n
        BY <1>4, <3>4, FeedTypes
      <4>2. Extent(m, n)'
        BY <1>4, <1>17, <2>2, <3>1, <3>2, <4>1
      <4>3. m \in Fee!Shown'
        BY <3>2, <4>1
      <4>4. QED
        BY <3>2, <4>1, <4>2, <4>3 DEF ListShown
    <3>5. QED
      BY <3>3, <3>4
  <2>3. CASE p # 1 /\ p = view.page
    <3>1. PICK lo \in 1..FeedItems, hi \in 1..FeedItems : Extent(lo, hi)
      BY <1>2, <1>3, <2>3, PageComes
    <3>2. cursors[p] \in lo + 1..hi /\ lo = LowOf(cursors[p] - 1) /\ Fee!Shown = lo..hi /\ hi <= feed_made /\ lo <= hi
      BY <2>3, <3>1, FeedTypes, SMTT(60) DEF Extent
    <3>3. n = cursors[p] - 1 /\ m = lo
      BY <1>1, <1>3, <3>2
    <3>4. Fee!Range(list) = (lo..hi) \union (m..n)
      BY <1>16, <2>3, <3>2
    <3>5. Fee!Shown' = lo..hi
      BY <2>1, <3>2, <3>3, <3>4
    <3>6. cursors'[p] = cursors[p] /\ p <= FeedLimit
      BY <1>10, FeedTypes
    <3>7. Extent(lo, hi)'
      BY <1>2, <1>4, <1>17, <3>2, <3>3, <3>5, <3>6
    <3>8. lo \in Fee!Shown'
      BY <3>2, <3>5
    <3>9. repeated'
      BY <1>2, <1>3, <2>3 DEF FeedInv, Fetching
    <3>10. QED
      BY <3>7, <3>8, <3>9 DEF ListShown
  <2>4. CASE p # 1 /\ p # view.page
    <3>1. PICK lo \in 1..FeedItems, hi \in 1..FeedItems : Extent(lo, hi) /\ p = view.page + 1 /\ view.hasMore
      BY <1>2, <1>3, <2>4, PageComes
    <3>2. cursors[p] = lo /\ lo > 1 /\ Fee!Shown = lo..hi /\ hi <= feed_made /\ lo <= hi
      BY <3>1 DEF Extent
    <3>3. n = lo - 1 /\ m <= lo - 1
      BY <1>1, <1>3, <1>4, <3>2
    <3>4. Fee!Range(list) = (lo..hi) \union (m..n)
      BY <1>16, <2>4, <3>2
    <3>5. Fee!Shown' = m..hi
      BY <2>1, <3>2, <3>3, <3>4
    <3>6. cursors'[p] = lo /\ p <= FeedLimit /\ m = LowOf(lo - 1)
      BY <1>1, <1>10, <3>2, <3>3, FeedTypes, SMTT(60)
    <3>7. m \in 1..FeedItems /\ lo \in m + 1..hi
      BY <1>4, <3>2, <3>3, FeedTypes, SMTT(60)
    <3>8. Extent(m, hi)'
      BY <1>2, <1>4, <1>17, <3>2, <3>5, <3>6, <3>7
    <3>9. m \in Fee!Shown'
      BY <3>5, <3>7
    <3>10. Fee!Shown \cap (m..n) = {}
      BY <3>2, <3>3
    <3>11. Fee!IsInjective(list) \/ repeated
      BY <1>16, <2>4, <3>10 DEF FeedInv, ListShown
    <3>12. QED
      BY <1>2, <1>9, <3>7, <3>8, <3>9, <3>11 DEF ListShown
  <2>5. QED
    BY <2>2, <2>3, <2>4
<1>15. QED
  BY <1>9, <1>11, <1>12, <1>13, <1>14 DEF FeedInv

LEMMA FeedInit ==
  ASSUME Fee!FeedsAssumption, Fee!Init
  PROVE  FeedInv
<1>1. PICK v \in ViewState : v = view /\ v.items = <<>> /\ v.page = 1 /\ v.loading = TRUE /\ v.error = FALSE /\ v.hasMore = TRUE
  <2>1. <<>> \in Seq(1..FeedItems) /\ 1 \in 1..FeedLimit
    BY DEF Fee!FeedsAssumption
  <2>2. PICK empty \in Seq(1..FeedItems), one \in 1..FeedLimit : empty = <<>> /\ one = 1
    BY <2>1, Zenon
  <2>3. [items |-> empty, page |-> one, loading |-> TRUE, error |-> FALSE, hasMore |-> TRUE] \in ViewState
    BY DEF ViewState
  <2>4. PICK v \in ViewState : v = [items |-> empty, page |-> one, loading |-> TRUE, error |-> FALSE, hasMore |-> TRUE]
    BY <2>3
  <2>5. v.items = empty /\ v.page = one /\ v.loading = TRUE /\ v.error = FALSE /\ v.hasMore = TRUE
    BY <2>4
  <2>6. v = view
    BY <2>2, <2>4, Zenon DEF Fee!Init
  <2>7. QED
    BY <2>2, <2>5, <2>6, Zenon
<1>2. /\ feed_made \in 0..FeedItems /\ inFlight = 1 /\ repeated = FALSE
      /\ abort = FALSE /\ unsure = FALSE /\ overlap = FALSE /\ feed_faults = 0
  BY DEF Fee!Init
<1>3. status.shown = "none" /\ status.of = {}
  BY DEF Fee!Init
<1>4. cursors \in [1..FeedLimit + 1 -> 0..FeedItems] /\ cursors[1] = 0
  BY DEF Fee!Init, Fee!FeedsAssumption
<1>5. verdict \in [FeedPoll -> {"none", "confirmed", "failed"}] /\ poll \in [FeedPoll -> {"none", "running", "done"}]
  BY DEF Fee!Init
<1>6. Fee!TypeOK
  <2>1. inFlight \in 0..FeedLimit + 1 /\ feed_faults \in 0..FeedFaults
    BY <1>2 DEF Fee!FeedsAssumption
  <2>2. {repeated, abort, unsure, overlap} \subseteq BOOLEAN /\ {view.loading, view.error, view.hasMore} \subseteq BOOLEAN
    BY <1>1, <1>2
  <2>3. view.items \in Seq(1..FeedItems) /\ view.page \in 1..FeedLimit
    BY <1>1 DEF ViewState
  <2>4. QED
    BY <1>2, <1>3, <1>4, <1>5, <2>1, <2>2, <2>3 DEF Fee!TypeOK
<1>7. Fee!Shown = {} /\ Fee!IsInjective(view.items)
  <2>1. DOMAIN view.items = {}
    BY <1>1
  <2>2. QED
    BY <2>1 DEF Fee!Shown, Fee!Range, Fee!IsInjective
<1>8. Fetching /\ ListShown
  BY <1>1, <1>2, <1>4, <1>7 DEF Fetching, ListShown
<1>9. Fee!StatusIsVerdict
  BY <1>3 DEF Fee!StatusIsVerdict
<1>10. QED
  BY <1>1, <1>6, <1>8, <1>9 DEF FeedInv

\* The list itself stays: a page is asked for, or does not come.
LEMMA AskKeepsFeeds ==
  ASSUME Fee!FeedsAssumption, FeedInv, Fee!loadMore \/ Fee!retry \/ Fee!Failure
  PROVE  FeedInv'
<1>1. UNCHANGED <<feed_made, cursors, verdict, poll, status, abort, unsure, overlap>>
  BY DEF Fee!loadMore, Fee!retry, Fee!load, Fee!Failure, Fee!pollVars
<1>2. PICK loads \in BOOLEAN, fails \in BOOLEAN :
        /\ view' = [view EXCEPT !.loading = loads, !.error = fails]
        /\ loads \/ fails
        /\ \/ loads /\ inFlight' = view.page + 1 /\ view.hasMore /\ ~view.loading /\ ~view.error /\ repeated' = repeated
           \/ loads /\ inFlight' = view.page /\ (view.page > 1 => repeated')
           \/ ~loads /\ inFlight' = 0 /\ repeated' = repeated
        /\ repeated' \in BOOLEAN /\ (repeated => repeated')
  <2>1. CASE Fee!loadMore
    <3>1. repeated' = repeated
      BY <2>1 DEF Fee!loadMore
    <3>2. repeated' \in BOOLEAN /\ (repeated => repeated')
      BY <3>1, FeedTypes
    <3>3. QED
      BY <2>1, <3>1, <3>2, Zenon DEF Fee!loadMore, Fee!load
  <2>2. CASE Fee!retry
    <3>1. repeated' = (repeated \/ view.page > 1)
      BY <2>2, Zenon DEF Fee!retry
    <3>2. repeated' \in BOOLEAN /\ (repeated => repeated') /\ (view.page > 1 => repeated')
      BY <3>1, Zenon
    <3>3. QED
      BY <2>2, <3>2, Zenon DEF Fee!retry, Fee!load
  <2>3. CASE Fee!Failure
    <3>1. repeated' = repeated
      BY <2>3 DEF Fee!Failure
    <3>2. repeated' \in BOOLEAN /\ (repeated => repeated')
      BY <3>1, FeedTypes
    <3>3. QED
      BY <2>3, <3>1, <3>2, Zenon DEF Fee!Failure
  <2>4. QED
    BY <2>1, <2>2, <2>3, Zenon
<1>3. PICK v \in ViewState : v = view
  BY DEF FeedInv
<1>4. PICK w \in ViewState : w = [v EXCEPT !.loading = loads, !.error = fails]
  <2>1. [v EXCEPT !.loading = loads, !.error = fails] \in ViewState
    BY DEF ViewState
  <2>2. QED
    BY <2>1
<1>5. w.items = v.items /\ w.page = v.page /\ w.hasMore = v.hasMore /\ w.loading = loads /\ w.error = fails
  BY <1>4 DEF ViewState
<1>6. view' = w
  BY <1>2, <1>3, <1>4, Zenon
<1>7. /\ view'.items = view.items /\ view'.page = view.page /\ view'.hasMore = view.hasMore
      /\ view'.loading = loads /\ view'.error = fails
  BY <1>3, <1>5, <1>6, Zenon
<1>8. Fee!Shown' = Fee!Shown
  BY <1>7 DEF Fee!Shown
<1>9. repeated' \in BOOLEAN /\ (repeated => repeated')
  BY <1>2, Zenon
<1>10. inFlight' \in 0..FeedLimit + 1 /\ (inFlight' # 0 <=> loads) /\ inFlight' \in {0, view.page, view.page + 1}
  BY <1>2, FeedTypes
<1>11. feed_faults' \in 0..FeedFaults
  BY DEF Fee!loadMore, Fee!retry, Fee!load, Fee!Failure, Fee!Fault, FeedInv, Fee!TypeOK, Fee!FeedsAssumption
<1>12. Fee!TypeOK'
  <2>1. {repeated', abort', unsure', overlap'} \subseteq BOOLEAN /\ {view'.loading, view'.error, view'.hasMore} \subseteq BOOLEAN
    BY <1>1, <1>7, <1>9, FeedTypes DEF FeedInv, Fee!TypeOK
  <2>2. view'.items \in Seq(1..FeedItems) /\ view'.page \in 1..FeedLimit
    BY <1>7, FeedTypes
  <2>3. QED
    BY <1>1, <1>10, <1>11, <2>1, <2>2 DEF FeedInv, Fee!TypeOK
<1>13. Fetching'
  <2>1. cursors'[1] = 0 /\ (view'.loading <=> inFlight' # 0) /\ inFlight' \in {0, view'.page, view'.page + 1}
    BY <1>1, <1>7, <1>10 DEF FeedInv, Fetching
  <2>2. inFlight' = view'.page + 1 => view'.hasMore /\ Fee!Shown' # {}
    <3>1. inFlight' = view.page + 1 => view.hasMore /\ ~view.loading /\ ~view.error
      BY <1>2, FeedTypes
    <3>2. QED
      BY <1>7, <1>8, <3>1 DEF FeedInv, ListShown
  <2>3. inFlight' = view'.page /\ view'.page > 1 => repeated'
    BY <1>2, <1>7, FeedTypes
  <2>4. QED
    BY <2>1, <2>2, <2>3 DEF Fetching
<1>14. \A lo, hi \in 1..FeedItems : Extent(lo, hi) => Extent(lo, hi)'
  BY <1>1, <1>7, <1>8 DEF Extent
<1>15. ListShown'
  <2>1. Fee!Shown' = {} => view'.page = 1 /\ (~view'.hasMore \/ view'.loading \/ view'.error)
    BY <1>2, <1>7, <1>8 DEF FeedInv, ListShown
  <2>2. Fee!Shown' # {} => \E lo, hi \in 1..FeedItems : Extent(lo, hi)'
    BY <1>8, <1>14 DEF FeedInv, ListShown
  <2>3. Fee!IsInjective(view'.items) \/ repeated'
    BY <1>7, <1>9 DEF FeedInv, ListShown
  <2>4. QED
    BY <2>1, <2>2, <2>3 DEF ListShown
<1>16. Fee!StatusIsVerdict'
  BY <1>1 DEF FeedInv, Fee!StatusIsVerdict
<1>17. QED
  BY <1>6, <1>12, <1>13, <1>15, <1>16 DEF FeedInv

LEMMA AddKeepsFeeds ==
  ASSUME Fee!FeedsAssumption, FeedInv, Fee!Add
  PROVE  FeedInv'
<1>1. feed_made < FeedItems /\ feed_made' = feed_made + 1 /\ UNCHANGED <<view, inFlight, cursors, repeated, verdict, poll, status, abort, unsure, overlap, feed_faults>>
  BY DEF Fee!Add, Fee!scrollVars, Fee!pollVars
<1>2. feed_made' \in 0..FeedItems /\ \A n \in 1..FeedItems : n <= feed_made => n <= feed_made'
  BY <1>1, FeedTypes
<1>3. Fee!TypeOK'
  BY <1>1, <1>2 DEF FeedInv, Fee!TypeOK
<1>4. Fee!Shown' = Fee!Shown
  BY <1>1 DEF Fee!Shown
<1>5. \A lo, hi \in 1..FeedItems : Extent(lo, hi) => Extent(lo, hi)'
  BY <1>1, <1>2, <1>4 DEF Extent
<1>6. ListShown'
  BY <1>1, <1>4, <1>5 DEF FeedInv, ListShown
<1>7. QED
  BY <1>1, <1>3, <1>4, <1>6 DEF FeedInv, Fetching, Fee!StatusIsVerdict

LEMMA PollKeepsFeeds ==
  ASSUME Fee!FeedsAssumption, FeedInv, Fee!PollerNext
  PROVE  FeedInv'
<1>1. UNCHANGED <<feed_made, view, inFlight, cursors, repeated>>
  BY DEF Fee!PollerNext, Fee!start, Fee!reset, Fee!Close, Fee!PollOnce, Fee!TimesOut, Fee!PollFails, Fee!scrollVars
<1>2. Fetching' /\ ListShown' /\ view' \in ViewState
  <2>1. Fee!Shown' = Fee!Shown
    BY <1>1 DEF Fee!Shown
  <2>2. \A lo, hi \in 1..FeedItems : Extent(lo, hi) => Extent(lo, hi)'
    BY <1>1, <2>1 DEF Extent
  <2>3. QED
    BY <1>1, <2>1, <2>2 DEF FeedInv, Fetching, ListShown
<1>3. abort' \in BOOLEAN /\ unsure' \in BOOLEAN /\ overlap' \in BOOLEAN
  BY DEF Fee!PollerNext, Fee!start, Fee!reset, Fee!Close, Fee!PollOnce, Fee!TimesOut, Fee!PollFails, Fee!pollVars, FeedInv, Fee!TypeOK
<1>4. feed_faults' \in 0..FeedFaults
  BY SMTT(60) DEF Fee!PollerNext, Fee!start, Fee!reset, Fee!Close, Fee!PollOnce, Fee!TimesOut, Fee!PollFails, Fee!Fault, FeedInv, Fee!TypeOK, Fee!FeedsAssumption
<1>5. verdict' \in [FeedPoll -> {"none", "confirmed", "failed"}] /\ poll' \in [FeedPoll -> {"none", "running", "done"}]
  BY DEF Fee!PollerNext, Fee!start, Fee!reset, Fee!Close, Fee!PollOnce, Fee!TimesOut, Fee!PollFails, Fee!pollVars, FeedInv, Fee!TypeOK
<1>6. \A q \in FeedPoll : (verdict[q] # "none" => verdict'[q] = verdict[q]) /\ (poll[q] # "none" => poll'[q] # "none")
  BY DEF Fee!PollerNext, Fee!start, Fee!reset, Fee!Close, Fee!PollOnce, Fee!TimesOut, Fee!PollFails, Fee!pollVars, FeedInv, Fee!TypeOK
<1>7. (unsure => unsure') /\ (overlap => overlap')
  <2>1. unsure' = unsure \/ unsure' = TRUE
    BY Zenon DEF Fee!PollerNext, Fee!start, Fee!reset, Fee!Close, Fee!PollOnce, Fee!TimesOut, Fee!PollFails, Fee!pollVars
  <2>2. overlap' = overlap \/ overlap' = (overlap \/ Fee!Running # {})
    <3>1. ASSUME NEW p \in FeedPoll, Fee!start(p) PROVE overlap' = (overlap \/ Fee!Running # {})
      BY <3>1, Zenon DEF Fee!start
    <3>2. Fee!PollerNext => overlap' = overlap \/ \E p \in FeedPoll : Fee!start(p)
      BY Zenon DEF Fee!PollerNext, Fee!reset, Fee!Close, Fee!PollOnce, Fee!TimesOut, Fee!PollFails, Fee!pollVars
    <3>3. QED
      BY <3>1, <3>2, Zenon
  <2>3. unsure => unsure'
    <3>1. CASE unsure' = unsure
      BY <3>1
    <3>2. CASE unsure' = TRUE
      BY <3>2
    <3>3. QED
      BY <2>1, <3>1, <3>2
  <2>4. overlap => overlap'
    <3>1. CASE overlap' = overlap
      BY <3>1
    <3>2. CASE overlap' = (overlap \/ Fee!Running # {})
      BY <3>2, Zenon
    <3>3. QED
      BY <2>2, <3>1, <3>2, Zenon
  <2>5. QED
    BY <2>3, <2>4
<1>8. \/ status' = status
      \/ status'.shown \in {"none", "pending", "confirming", "timeout"} /\ status'.of = {}
      \/ \E p \in FeedPoll, s \in {"pending", "confirming", "confirmed", "failed", "timeout"} :
           /\ status' = [shown |-> s, of |-> {p}] /\ poll'[p] # "none"
           /\ s = "confirmed" => verdict'[p] = "confirmed"
           /\ s = "failed" => verdict'[p] = "failed" \/ unsure'
  <2>1. CASE Fee!reset
    BY <2>1 DEF Fee!reset
  <2>2. ASSUME NEW p \in FeedPoll, Fee!start(p) PROVE status' = [shown |-> "pending", of |-> {p}] /\ poll'[p] # "none"
    BY <2>2 DEF Fee!start, FeedInv, Fee!TypeOK
  <2>3. ASSUME NEW p \in FeedPoll, Fee!Close(p) PROVE status' = status
    BY <2>3 DEF Fee!Close, Fee!pollVars
  <2>4. ASSUME NEW p \in FeedPoll, Fee!PollOnce(p)
        PROVE  \/ status' = status
               \/ /\ poll'[p] # "none"
                  /\ \E s \in {"confirming", "confirmed", "failed"} :
                       status' = [shown |-> s, of |-> {p}] /\ (s # "confirming" => verdict'[p] = s)
    <3>1. poll'[p] # "none" /\ verdict' = verdict
      BY <2>4 DEF Fee!PollOnce, FeedInv, Fee!TypeOK
    <3>2. PICK s \in {"confirming", "confirmed", "failed"} : Fee!Show(p, s) /\ (s # "confirming" => verdict[p] = s)
      BY <2>4 DEF Fee!PollOnce, FeedInv, Fee!TypeOK
    <3>3. QED
      BY <3>1, <3>2 DEF Fee!Show
  <2>5. ASSUME NEW p \in FeedPoll, Fee!TimesOut(p)
        PROVE  status' = status \/ (status' = [shown |-> "timeout", of |-> {p}] /\ poll'[p] # "none")
    BY <2>5 DEF Fee!TimesOut, Fee!Show, FeedInv, Fee!TypeOK
  <2>6. ASSUME NEW p \in FeedPoll, Fee!PollFails(p)
        PROVE  status' = status \/ (status' = [shown |-> "failed", of |-> {p}] /\ poll'[p] # "none" /\ unsure')
    BY <2>6 DEF Fee!PollFails, Fee!Show, FeedInv, Fee!TypeOK
  <2>7. QED
    BY <2>1, <2>2, <2>3, <2>4, <2>5, <2>6 DEF Fee!PollerNext
<1>9. Fee!StatusIsVerdict' /\ status'.of \subseteq FeedPoll
      /\ status'.shown \in {"none", "pending", "confirming", "confirmed", "failed", "timeout"}
  <2>1. CASE status' = status
    BY <1>5, <1>6, <1>7, <2>1 DEF FeedInv, Fee!TypeOK, Fee!StatusIsVerdict
  <2>2. CASE status'.shown \in {"none", "pending", "confirming", "timeout"} /\ status'.of = {}
    BY <2>2 DEF Fee!StatusIsVerdict
  <2>3. CASE \E p \in FeedPoll, s \in {"pending", "confirming", "confirmed", "failed", "timeout"} :
           /\ status' = [shown |-> s, of |-> {p}] /\ poll'[p] # "none"
           /\ s = "confirmed" => verdict'[p] = "confirmed"
           /\ s = "failed" => verdict'[p] = "failed" \/ unsure'
    <3>1. PICK p \in FeedPoll, s \in {"pending", "confirming", "confirmed", "failed", "timeout"} :
           /\ status' = [shown |-> s, of |-> {p}] /\ poll'[p] # "none"
           /\ s = "confirmed" => verdict'[p] = "confirmed"
           /\ s = "failed" => verdict'[p] = "failed" \/ unsure'
      BY <2>3
    <3>2. status'.shown = s /\ status'.of = {p}
      BY <3>1
    <3>3. QED
      BY <3>1, <3>2 DEF Fee!StatusIsVerdict
  <2>4. QED
    BY <1>8, <2>1, <2>2, <2>3
<1>10. Fee!TypeOK'
  <2>1. {repeated', abort', unsure', overlap'} \subseteq BOOLEAN
    BY <1>1, <1>3, FeedTypes
  <2>2. QED
    BY <1>1, <1>4, <1>5, <1>9, <2>1 DEF FeedInv, Fee!TypeOK
<1>11. QED
  BY <1>2, <1>9, <1>10 DEF FeedInv

LEMMA FeedStep ==
  ASSUME Fee!FeedsAssumption, FeedInv, [Fee!Next]_feedVars
  PROVE  FeedInv'
<1>1. CASE UNCHANGED feedVars
  <2>1. UNCHANGED <<feed_made, view, inFlight, cursors, repeated, verdict, poll, status, abort, unsure, overlap, feed_faults>>
    BY <1>1 DEF feedVars, scrollVars, pollVars
  <2>2. Fee!Shown' = Fee!Shown
    BY <2>1 DEF Fee!Shown
  <2>3. \A lo, hi \in 1..FeedItems : Extent(lo, hi) => Extent(lo, hi)'
    BY <2>1, <2>2 DEF Extent
  <2>4. QED
    BY <2>1, <2>2, <2>3 DEF FeedInv, Fee!TypeOK, Fetching, ListShown, Fee!StatusIsVerdict
<1>2. QED
  BY <1>1, SuccessKeepsFeeds, AskKeepsFeeds, AddKeepsFeeds, PollKeepsFeeds DEF Fee!Next, Fee!HistoryNext

LEMMA FeedsHold ==
  ASSUME Fee!FeedsAssumption, FeedInv
  PROVE  Fee!HistoryWithoutGaps /\ Fee!StatusIsVerdict
<1>1. CASE Fee!Shown = {}
  BY <1>1 DEF FeedInv, ListShown, Fee!HistoryWithoutGaps
<1>2. CASE Fee!Shown # {}
  <2>1. PICK lo \in 1..FeedItems, hi \in 1..FeedItems : Extent(lo, hi)
    BY <1>2 DEF FeedInv, ListShown
  <2>2. lo \in Nat /\ hi \in Nat /\ lo <= hi /\ Fee!Shown = lo..hi
    BY <2>1, FeedTypes DEF Extent
  <2>3. Fee!Max(Fee!Shown) = hi /\ Fee!Min(Fee!Shown) = lo
    BY <2>2, MaxOfUpTo
  <2>4. ~view.hasMore => lo = 1 \/ view.page = FeedLimit
    BY <2>1 DEF Extent
  <2>5. QED
    BY <2>2, <2>3, <2>4 DEF FeedInv, ListShown, Fee!HistoryWithoutGaps
<1>3. QED
  BY <1>1, <1>2 DEF FeedInv

-----------------------------------------------------------------------------
(* Transfers from the browser *)

SentState == [seq : 0..TransferTries, signed : BOOLEAN, is : {"none", "pool", "paid", "refused"}]
FormState == [step : {"edit", "verify", "load", "sign", "submit", "sent", "record"}, tx : 0..TransferTries]

\* Transactions are built in the order of their numbers, and take no larger sequence number.
SentSound ==
  \A n \in Trf!Try : /\ transfer_sent[n].seq <= n
                     /\ transfer_sent[n].seq = 0 => transfer_sent[n] = Trf!NotSent /\ \A m \in Trf!Try : m > n => transfer_sent[m].seq = 0
SequenceTaken == transfer_sequence = 0 \/ \E m \in Trf!Try : transfer_sent[m].seq > 0 /\ transfer_sequence <= m

\* A tab that has built a transaction has it to itself.
Busy(t) == form[t].step \in {"sign", "submit", "sent", "record"}
FormsSound ==
  /\ \A t \in TransferTab : Busy(t) => /\ form[t].tx \in Trf!Try /\ transfer_sent[form[t].tx].seq > 0
                                       /\ form[t].step \in {"sign", "submit"} <=> transfer_sent[form[t].tx].is = "none"
                                       /\ form[t].step = "record" => transfer_sent[form[t].tx].is = "paid"
  /\ \A t, u \in TransferTab : Busy(t) /\ Busy(u) /\ form[t].tx = form[u].tx => t = u

\* One that is not decided is waited for, or its answer was lost.
PoolWatched == \A n \in Trf!Try : transfer_sent[n].is = "pool" => n \in Trf!UnderWay \union transfer_lost

TransferInv ==
  Trf!TypeOK /\ SentSound /\ SequenceTaken /\ FormsSound /\ PoolWatched /\ Trf!PaymentsTold /\ Trf!PaymentsRecorded

LEMMA TransferTypes ==
  ASSUME Trf!TransferAssumption, TransferInv
  PROVE  /\ transfer_sent \in [Trf!Try -> SentState] /\ form \in [TransferTab -> FormState] /\ transfer_sequence \in 0..TransferTries
         /\ holds \in 0..TransferHoldings /\ transfer_balance \in 0..TransferHoldings /\ sender \in BOOLEAN /\ trusts \in BOOLEAN
         /\ told \subseteq Trf!Try /\ recorded \subseteq Trf!Try /\ transfer_lost \subseteq Trf!Try /\ transfer_missed \subseteq Trf!Try
         /\ transfer_mishaps \in 0..TransferMishaps /\ TransferTries \in Nat /\ TransferMishaps \in Nat /\ TransferHoldings \in Nat
         /\ Trf!Try \subseteq Nat /\ \A n \in Trf!Try : n >= 1 /\ n <= TransferTries
BY DEF Trf!TransferAssumption, TransferInv, Trf!TypeOK, SentState, FormState, Trf!Try

LEMMA TransferTyped ==
  ASSUME transfer_sent \in [Trf!Try -> SentState], form \in [TransferTab -> FormState], transfer_sequence \in 0..TransferTries,
         holds \in 0..TransferHoldings, transfer_balance \in 0..TransferHoldings, sender \in BOOLEAN, trusts \in BOOLEAN,
         told \subseteq Trf!Try, recorded \subseteq Trf!Try, transfer_lost \subseteq Trf!Try, transfer_missed \subseteq Trf!Try,
         transfer_mishaps \in 0..TransferMishaps
  PROVE  Trf!TypeOK
<1>1. {holds, transfer_balance} \subseteq 0..TransferHoldings /\ {sender, trusts} \subseteq BOOLEAN
  OBVIOUS
<1>2. {told, recorded, transfer_lost, transfer_missed} \subseteq SUBSET Trf!Try
  OBVIOUS
<1>3. QED
  BY <1>1, <1>2 DEF Trf!TypeOK, SentState, FormState

LEMMA UnderWayIs == \A n : n \in Trf!UnderWay <=> \E t \in TransferTab : form[t].step \in {"sent", "record"} /\ form[t].tx = n
BY DEF Trf!UnderWay

LEMMA TransferInit ==
  ASSUME Trf!TransferAssumption, Trf!Init
  PROVE  TransferInv
<1>1. /\ transfer_sequence = 0 /\ holds = TransferHoldings /\ transfer_balance = TransferHoldings /\ sender = TRUE /\ trusts = TRUE
      /\ told = {} /\ recorded = {} /\ transfer_lost = {} /\ transfer_missed = {} /\ transfer_mishaps = 0
  BY DEF Trf!Init
<1>2. 0 \in 0..TransferTries /\ 0 \in 0..TransferMishaps /\ TransferHoldings \in 0..TransferHoldings /\ \A n \in Trf!Try : n \in Nat /\ 0 <= n
  BY DEF Trf!TransferAssumption, Trf!Try
<1>3. PICK none \in SentState : none = Trf!NotSent /\ none.seq = 0 /\ none.is = "none"
  <2>1. Trf!NotSent \in SentState
    BY <1>2 DEF Trf!NotSent, SentState
  <2>2. QED
    BY <2>1 DEF Trf!NotSent
<1>4. PICK edit \in FormState : edit = [step |-> "edit", tx |-> 0] /\ edit.step = "edit"
  <2>1. [step |-> "edit", tx |-> 0] \in FormState
    BY <1>2 DEF FormState
  <2>2. QED
    BY <2>1
<1>5. transfer_sent = [n \in Trf!Try |-> none] /\ form = [t \in TransferTab |-> edit]
  BY <1>3, <1>4, Zenon DEF Trf!Init
<1>6. /\ transfer_sent \in [Trf!Try -> SentState] /\ form \in [TransferTab -> FormState]
      /\ \A n \in Trf!Try : transfer_sent[n] = Trf!NotSent /\ transfer_sent[n].seq = 0 /\ transfer_sent[n].is = "none"
      /\ \A t \in TransferTab : form[t].step = "edit"
  BY <1>3, <1>4, <1>5
<1>7. Trf!TypeOK
  <2>1. /\ transfer_sequence \in 0..TransferTries /\ holds \in 0..TransferHoldings /\ transfer_balance \in 0..TransferHoldings /\ transfer_mishaps \in 0..TransferMishaps
        /\ sender \in BOOLEAN /\ trusts \in BOOLEAN
        /\ told \subseteq Trf!Try /\ recorded \subseteq Trf!Try /\ transfer_lost \subseteq Trf!Try /\ transfer_missed \subseteq Trf!Try
    BY <1>1, <1>2
  <2>2. QED
    BY <1>6, <2>1, TransferTyped
<1>8. SentSound /\ SequenceTaken /\ FormsSound /\ PoolWatched
  BY <1>1, <1>2, <1>6 DEF SentSound, SequenceTaken, FormsSound, Busy, PoolWatched
<1>9. Trf!PaymentsTold /\ Trf!PaymentsRecorded
  BY <1>1, <1>6 DEF Trf!PaymentsTold, Trf!PaymentsRecorded, Trf!Paid
<1>10. QED
  BY <1>7, <1>8, <1>9 DEF TransferInv

LEMMA WorldKeepsTransfers ==
  ASSUME Trf!TransferAssumption, TransferInv, Trf!Switch \/ Trf!Untrust \/ Trf!ShowBalance \/ UNCHANGED transferVars
  PROVE  TransferInv'
<1>1. UNCHANGED <<transfer_sequence, holds, transfer_sent, form, told, recorded, transfer_lost, transfer_missed, transfer_mishaps>>
  BY DEF Trf!Switch, Trf!Untrust, Trf!ShowBalance, transferVars
<1>2. transfer_balance' \in 0..TransferHoldings /\ sender' \in BOOLEAN /\ trusts' \in BOOLEAN
  BY TransferTypes DEF Trf!Switch, Trf!Untrust, Trf!ShowBalance, transferVars
<1>3. Trf!TypeOK'
  <2>1. {holds', transfer_balance'} \subseteq 0..TransferHoldings /\ {sender', trusts'} \subseteq BOOLEAN
    BY <1>1, <1>2, TransferTypes
  <2>2. QED
    BY <1>1, <2>1 DEF TransferInv, Trf!TypeOK
<1>4. Trf!UnderWay' = Trf!UnderWay /\ Trf!Paid' = Trf!Paid
  BY <1>1 DEF Trf!UnderWay, Trf!Paid
<1>5. QED
  BY <1>1, <1>3, <1>4 DEF TransferInv, SentSound, SequenceTaken, FormsSound, Busy, PoolWatched, Trf!PaymentsTold, Trf!PaymentsRecorded

\* The network decides a transaction in its pool.
LEMMA DecidedKeepsTransfers ==
  ASSUME Trf!TransferAssumption, TransferInv, NEW n \in Trf!Try, Trf!Apply(n) \/ Trf!Refuse(n)
  PROVE  TransferInv'
<1>1. transfer_sent[n].is = "pool" /\ UNCHANGED <<transfer_balance, sender, trusts, form, told, recorded, transfer_lost, transfer_missed, transfer_mishaps>>
  BY DEF Trf!Apply, Trf!Refuse
<1>2. PICK v \in {"paid", "refused"} : transfer_sent' = [transfer_sent EXCEPT ![n].is = v]
  BY DEF Trf!Apply, Trf!Refuse
<1>3. PICK s \in SentState : s = transfer_sent[n]
  BY TransferTypes
<1>4. PICK x \in SentState : x = [s EXCEPT !.is = v]
  <2>1. [s EXCEPT !.is = v] \in SentState
    BY DEF SentState
  <2>2. QED
    BY <2>1
<1>5. x.seq = s.seq /\ x.is = v
  BY <1>4 DEF SentState
<1>6. transfer_sent' = [transfer_sent EXCEPT ![n] = x]
  BY <1>2, <1>3, <1>4, TransferTypes
<1>7. transfer_sent' \in [Trf!Try -> SentState] /\ transfer_sent'[n] = x /\ \A m \in Trf!Try \ {n} : transfer_sent'[m] = transfer_sent[m]
  BY <1>6, TransferTypes
<1>8. s.seq \in 1..TransferTries /\ s.seq <= n
  <2>1. s.seq # 0
    BY <1>1, <1>3 DEF TransferInv, SentSound, Trf!NotSent
  <2>2. s.seq \in 0..TransferTries
    BY DEF SentState
  <2>3. s.seq <= n
    BY <1>3 DEF TransferInv, SentSound
  <2>4. QED
    BY <2>1, <2>2, <2>3, TransferTypes
<1>9. /\ transfer_sequence' = transfer_sequence \/ transfer_sequence' = s.seq
      /\ transfer_sequence' \in 0..TransferTries
  BY <1>3, <1>8, TransferTypes DEF Trf!Apply, Trf!Refuse, Trf!Valid
<1>10. holds' \in 0..TransferHoldings
  BY TransferTypes DEF Trf!Apply, Trf!Refuse
<1>11. Trf!TypeOK'
  <2>1. {holds', transfer_balance'} \subseteq 0..TransferHoldings
    BY <1>1, <1>10, TransferTypes
  <2>2. QED
    BY <1>1, <1>7, <1>9, <2>1 DEF TransferInv, Trf!TypeOK, SentState
<1>12. \A m \in Trf!Try : transfer_sent'[m].seq = transfer_sent[m].seq
  BY <1>3, <1>5, <1>7
<1>13. SentSound'
  <2>1. \A m \in Trf!Try : transfer_sent[m].seq = 0 => transfer_sent'[m] = transfer_sent[m]
    BY <1>3, <1>7, <1>8
  <2>2. QED
    BY <1>12, <2>1 DEF TransferInv, SentSound
<1>14. SequenceTaken'
  <2>1. CASE transfer_sequence' = s.seq
    <3>1. transfer_sent'[n].seq > 0 /\ transfer_sequence' <= n
      BY <1>3, <1>8, <1>12, <2>1, TransferTypes
    <3>2. QED
      BY <3>1 DEF SequenceTaken
  <2>2. CASE transfer_sequence' = transfer_sequence
    BY <1>12, <2>2 DEF TransferInv, SequenceTaken
  <2>3. QED
    BY <1>9, <2>1, <2>2
<1>15. FormsSound'
  <2>1. \A m \in Trf!Try : (transfer_sent'[m].is = "none" <=> transfer_sent[m].is = "none") /\ (transfer_sent[m].is = "paid" => transfer_sent'[m].is = "paid")
    BY <1>1, <1>5, <1>7
  <2>2. QED
    BY <1>1, <1>12, <2>1 DEF TransferInv, FormsSound, Busy
<1>16. Trf!UnderWay' = Trf!UnderWay
  BY <1>1 DEF Trf!UnderWay
<1>17. PoolWatched'
  BY <1>1, <1>5, <1>7, <1>16 DEF TransferInv, PoolWatched
<1>18. Trf!Paid \subseteq Trf!Paid' /\ Trf!Paid' \subseteq Trf!Paid \union {n} /\ n \in Trf!UnderWay \union transfer_lost
  BY <1>1, <1>7 DEF Trf!Paid, TransferInv, PoolWatched
<1>19. Trf!PaymentsTold' /\ Trf!PaymentsRecorded'
  BY <1>1, <1>16, <1>18 DEF TransferInv, Trf!PaymentsTold, Trf!PaymentsRecorded
<1>20. QED
  BY <1>11, <1>13, <1>14, <1>15, <1>17, <1>19 DEF TransferInv

\* The next number goes into a transaction, which takes the next sequence number.
LEMMA LoadKeepsTransfers ==
  ASSUME Trf!TransferAssumption, TransferInv, NEW t \in TransferTab, Trf!LoadAccount(t)
  PROVE  TransferInv'
<1>1. form[t].step = "load" /\ UNCHANGED <<transfer_sequence, holds, transfer_balance, sender, trusts, told, recorded, transfer_lost, transfer_missed, transfer_mishaps>>
  BY DEF Trf!LoadAccount, Trf!At
<1>2. PICK n \in Trf!Try : /\ transfer_sent[n] = Trf!NotSent /\ \A m \in 1..n - 1 : transfer_sent[m] # Trf!NotSent
                           /\ transfer_sent' = [transfer_sent EXCEPT ![n].seq = transfer_sequence + 1]
                           /\ form' = [form EXCEPT ![t] = [step |-> "sign", tx |-> n]]
  BY DEF Trf!LoadAccount
<1>3. n \in 1..TransferTries /\ \A m \in Trf!Try : m < n => m \in 1..n - 1
  BY DEF Trf!Try
<1>4. transfer_sequence + 1 <= n
  <2>1. transfer_sent[n].seq = 0
    BY <1>2 DEF Trf!NotSent
  <2>2. ASSUME NEW m \in Trf!Try, transfer_sent[m].seq > 0, transfer_sequence <= m PROVE transfer_sequence + 1 <= n
    <3>1. ~(m > n) /\ m # n
      BY <2>1, <2>2 DEF TransferInv, SentSound
    <3>2. QED
      BY <1>3, <2>2, <3>1, TransferTypes
  <2>3. QED
    BY <1>3, <2>2, TransferTypes DEF TransferInv, SequenceTaken
<1>5. PICK seq \in 1..TransferTries : seq = transfer_sequence + 1 /\ seq <= n
  BY <1>3, <1>4, TransferTypes
<1>6. PICK s \in SentState : s = transfer_sent[n] /\ s.is = "none" /\ s.seq = 0
  BY <1>2, TransferTypes DEF Trf!NotSent
<1>7. PICK x \in SentState : x = [s EXCEPT !.seq = seq]
  <2>1. [s EXCEPT !.seq = seq] \in SentState
    BY DEF SentState
  <2>2. QED
    BY <2>1
<1>8. x.seq = seq /\ x.is = "none"
  BY <1>6, <1>7 DEF SentState
<1>9. transfer_sent' = [transfer_sent EXCEPT ![n] = x]
  BY <1>2, <1>5, <1>6, <1>7, TransferTypes
<1>10. transfer_sent' \in [Trf!Try -> SentState] /\ transfer_sent'[n] = x /\ \A m \in Trf!Try \ {n} : transfer_sent'[m] = transfer_sent[m]
  BY <1>9, TransferTypes
<1>11. PICK y \in FormState : y = [step |-> "sign", tx |-> n] /\ y.step = "sign" /\ y.tx = n
  <2>1. n \in 0..TransferTries
    BY <1>3
  <2>2. [step |-> "sign", tx |-> n] \in FormState
    BY <2>1 DEF FormState
  <2>3. QED
    BY <2>2
<1>12. form' = [form EXCEPT ![t] = y]
  BY <1>2, <1>11, Zenon
<1>13. form' \in [TransferTab -> FormState] /\ form'[t] = y /\ \A u \in TransferTab \ {t} : form'[u] = form[u]
  BY <1>12, TransferTypes
<1>14. Trf!TypeOK'
  BY <1>1, <1>10, <1>13 DEF TransferInv, Trf!TypeOK, SentState, FormState
<1>15. \A m \in Trf!Try : transfer_sent'[m].is = transfer_sent[m].is /\ (transfer_sent[m].seq > 0 => transfer_sent'[m].seq = transfer_sent[m].seq)
  BY <1>6, <1>8, <1>10
<1>16. SentSound'
  <2>1. ASSUME NEW m \in Trf!Try, m # n
        PROVE  /\ transfer_sent'[m].seq <= m
               /\ transfer_sent'[m].seq = 0 => transfer_sent'[m] = Trf!NotSent /\ \A k \in Trf!Try : k > m => transfer_sent'[k].seq = 0
    <3>1. transfer_sent'[m] = transfer_sent[m]
      BY <1>10, <2>1
    <3>2. transfer_sent[m].seq <= m /\ (transfer_sent[m].seq = 0 => transfer_sent[m] = Trf!NotSent /\ \A k \in Trf!Try : k > m => transfer_sent[k].seq = 0)
      BY DEF TransferInv, SentSound
    <3>3. transfer_sent[m].seq = 0 => m > n
      BY <1>2, <1>3, <2>1, <3>2, TransferTypes
    <3>4. transfer_sent[m].seq = 0 => \A k \in Trf!Try : k > m => k # n /\ transfer_sent'[k] = transfer_sent[k]
      BY <1>10, <3>3, TransferTypes
    <3>5. QED
      BY <3>1, <3>2, <3>4
  <2>2. transfer_sent'[n].seq <= n /\ transfer_sent'[n].seq # 0
    BY <1>5, <1>8, <1>10
  <2>3. QED
    BY <2>1, <2>2 DEF SentSound
<1>17. SequenceTaken'
  BY <1>1, <1>15 DEF TransferInv, SequenceTaken
<1>18. FormsSound'
  <2>1. \A u \in TransferTab : Busy(u) => form[u].tx \in Trf!Try /\ form[u].tx # n
    BY <1>6 DEF TransferInv, FormsSound
  <2>2. \A u \in TransferTab \ {t} : Busy(u)' <=> Busy(u)
    BY <1>13 DEF Busy
  <2>3. \A u, w \in TransferTab : Busy(u)' /\ Busy(w)' /\ form'[u].tx = form'[w].tx => u = w
    BY <1>11, <1>13, <2>1, <2>2 DEF TransferInv, FormsSound
  <2>4. ASSUME NEW u \in TransferTab, Busy(u)'
        PROVE  /\ form'[u].tx \in Trf!Try /\ transfer_sent'[form'[u].tx].seq > 0
               /\ form'[u].step \in {"sign", "submit"} <=> transfer_sent'[form'[u].tx].is = "none"
               /\ form'[u].step = "record" => transfer_sent'[form'[u].tx].is = "paid"
    <3>1. CASE u = t
      BY <1>5, <1>8, <1>10, <1>11, <1>13, <3>1
    <3>2. CASE u # t
      BY <1>13, <1>15, <2>2, <2>4, <3>2 DEF TransferInv, FormsSound
    <3>3. QED
      BY <3>1, <3>2
  <2>5. QED
    BY <2>3, <2>4 DEF FormsSound
<1>19. \A m : m \in Trf!UnderWay' <=> m \in Trf!UnderWay
  <2>1. \A m : m \in Trf!UnderWay' <=> \E u \in TransferTab : form'[u].step \in {"sent", "record"} /\ form'[u].tx = m
    BY DEF Trf!UnderWay
  <2>2. form'[t].step \notin {"sent", "record"} /\ form[t].step \notin {"sent", "record"}
    BY <1>1, <1>11, <1>13
  <2>3. QED
    BY <1>13, <2>1, <2>2, UnderWayIs
<1>20. PoolWatched'
  BY <1>1, <1>15, <1>19 DEF TransferInv, PoolWatched
<1>21. Trf!Paid' = Trf!Paid
  BY <1>15 DEF Trf!Paid
<1>22. Trf!PaymentsTold' /\ Trf!PaymentsRecorded'
  BY <1>1, <1>19, <1>21 DEF TransferInv, Trf!PaymentsTold, Trf!PaymentsRecorded
<1>23. QED
  BY <1>14, <1>16, <1>17, <1>18, <1>20, <1>22 DEF TransferInv

\* The transaction of a tab is signed, or goes into the network's pool.
LEMMA SentKeepsTransfers ==
  ASSUME Trf!TransferAssumption, TransferInv, NEW t \in TransferTab, Trf!Sign(t) \/ Trf!Submit(t)
  PROVE  TransferInv'
<1>1. UNCHANGED <<transfer_sequence, holds, transfer_balance, sender, trusts, told, recorded, transfer_lost, transfer_missed, transfer_mishaps>>
  BY DEF Trf!Sign, Trf!Submit
<1>2. form[t].step \in {"sign", "submit"} /\ Busy(t)
  BY DEF Trf!Sign, Trf!Submit, Trf!At, Busy
<1>3. PICK n \in Trf!Try : n = form[t].tx /\ transfer_sent[n].is = "none" /\ transfer_sent[n].seq > 0
  BY <1>2 DEF TransferInv, FormsSound
<1>4. PICK s \in SentState : s = transfer_sent[n]
  BY TransferTypes
<1>5. PICK x \in SentState, step \in {"submit", "sent"} :
        /\ transfer_sent' = [transfer_sent EXCEPT ![n] = x] /\ form' = [form EXCEPT ![t].step = step]
        /\ x.seq = s.seq /\ x.is = (IF step = "submit" THEN "none" ELSE "pool")
  <2>1. CASE Trf!Sign(t)
    <3>1. PICK b \in BOOLEAN : b = sender
      BY TransferTypes
    <3>2. PICK x \in SentState : x = [s EXCEPT !.signed = b]
      <4>1. [s EXCEPT !.signed = b] \in SentState
        BY DEF SentState
      <4>2. QED
        BY <4>1
    <3>3. x.seq = s.seq /\ x.is = "none"
      BY <1>3, <1>4, <3>2 DEF SentState
    <3>4. transfer_sent' = [transfer_sent EXCEPT ![n].signed = b]
      BY <1>3, <2>1, <3>1, Zenon DEF Trf!Sign
    <3>5. transfer_sent' = [transfer_sent EXCEPT ![n] = x]
      BY <1>4, <3>2, <3>4, TransferTypes
    <3>6. form' = [form EXCEPT ![t].step = "submit"]
      BY <2>1 DEF Trf!Sign, Trf!Go
    <3>7. QED
      BY <3>3, <3>5, <3>6
  <2>2. CASE Trf!Submit(t)
    <3>1. PICK x \in SentState : x = [s EXCEPT !.is = "pool"]
      <4>1. [s EXCEPT !.is = "pool"] \in SentState
        BY DEF SentState
      <4>2. QED
        BY <4>1
    <3>2. x.seq = s.seq /\ x.is = "pool"
      BY <3>1 DEF SentState
    <3>3. transfer_sent' = [transfer_sent EXCEPT ![n].is = "pool"]
      BY <1>3, <2>2, Zenon DEF Trf!Submit
    <3>4. transfer_sent' = [transfer_sent EXCEPT ![n] = x]
      BY <1>4, <3>1, <3>3, TransferTypes
    <3>5. form' = [form EXCEPT ![t].step = "sent"]
      BY <2>2 DEF Trf!Submit, Trf!Go
    <3>6. QED
      BY <3>2, <3>4, <3>5
  <2>3. QED
    BY <2>1, <2>2
<1>6. transfer_sent' \in [Trf!Try -> SentState] /\ transfer_sent'[n] = x /\ \A m \in Trf!Try \ {n} : transfer_sent'[m] = transfer_sent[m]
  BY <1>5, TransferTypes
<1>7. PICK f \in FormState : f = form[t]
  BY TransferTypes
<1>8. PICK y \in FormState : y = [f EXCEPT !.step = step]
  <2>1. [f EXCEPT !.step = step] \in FormState
    BY DEF FormState
  <2>2. QED
    BY <2>1
<1>9. y.step = step /\ y.tx = n
  BY <1>3, <1>7, <1>8 DEF FormState
<1>10. form' = [form EXCEPT ![t] = y]
  BY <1>5, <1>7, <1>8, TransferTypes
<1>11. form' \in [TransferTab -> FormState] /\ form'[t] = y /\ \A u \in TransferTab \ {t} : form'[u] = form[u]
  BY <1>10, TransferTypes
<1>12. Trf!TypeOK'
  BY <1>1, <1>6, <1>11 DEF TransferInv, Trf!TypeOK, SentState, FormState
<1>13. \A m \in Trf!Try : transfer_sent'[m].seq = transfer_sent[m].seq /\ (transfer_sent'[m].is = "paid" <=> transfer_sent[m].is = "paid")
  BY <1>3, <1>4, <1>5, <1>6
<1>14. SentSound' /\ SequenceTaken'
  <2>1. \A m \in Trf!Try : transfer_sent[m].seq = 0 => transfer_sent'[m] = transfer_sent[m]
    BY <1>3, <1>6
  <2>2. QED
    BY <1>1, <1>13, <2>1 DEF TransferInv, SentSound, SequenceTaken
<1>15. FormsSound'
  <2>1. \A u \in TransferTab : Busy(u)' <=> Busy(u)
    BY <1>2, <1>9, <1>11 DEF Busy
  <2>2. \A u \in TransferTab : form'[u].tx = form[u].tx
    BY <1>3, <1>9, <1>11
  <2>3. \A u, w \in TransferTab : Busy(u)' /\ Busy(w)' /\ form'[u].tx = form'[w].tx => u = w
    BY <2>1, <2>2 DEF TransferInv, FormsSound
  <2>4. ASSUME NEW u \in TransferTab, Busy(u)'
        PROVE  /\ form'[u].tx \in Trf!Try /\ transfer_sent'[form'[u].tx].seq > 0
               /\ form'[u].step \in {"sign", "submit"} <=> transfer_sent'[form'[u].tx].is = "none"
               /\ form'[u].step = "record" => transfer_sent'[form'[u].tx].is = "paid"
    <3>1. CASE u = t
      BY <1>3, <1>4, <1>5, <1>6, <1>9, <1>11, <3>1
    <3>2. CASE u # t
      <4>1. Busy(u) /\ form'[u] = form[u] /\ form[u].tx \in Trf!Try /\ form[u].tx # n
        BY <1>2, <1>3, <1>11, <2>1, <2>4, <3>2 DEF TransferInv, FormsSound
      <4>2. transfer_sent'[form[u].tx] = transfer_sent[form[u].tx]
        BY <1>6, <4>1
      <4>3. QED
        BY <4>1, <4>2 DEF TransferInv, FormsSound
    <3>3. QED
      BY <3>1, <3>2
  <2>5. QED
    BY <2>3, <2>4 DEF FormsSound
<1>16. \A m : m \in Trf!UnderWay' <=> m \in Trf!UnderWay \/ (m = n /\ step = "sent")
  <2>1. \A m : m \in Trf!UnderWay' <=> \E u \in TransferTab : form'[u].step \in {"sent", "record"} /\ form'[u].tx = m
    BY DEF Trf!UnderWay
  <2>2. form[t].step \notin {"sent", "record"} /\ (form'[t].step \in {"sent", "record"} <=> step = "sent") /\ form'[t].tx = n
    BY <1>2, <1>9, <1>11
  <2>3. QED
    BY <1>11, <2>1, <2>2, UnderWayIs
<1>17. PoolWatched'
  BY <1>1, <1>5, <1>6, <1>16 DEF TransferInv, PoolWatched
<1>18. Trf!Paid' = Trf!Paid
  BY <1>13 DEF Trf!Paid
<1>19. Trf!PaymentsTold' /\ Trf!PaymentsRecorded'
  BY <1>1, <1>16, <1>18 DEF TransferInv, Trf!PaymentsTold, Trf!PaymentsRecorded
<1>20. QED
  BY <1>12, <1>14, <1>15, <1>17, <1>19 DEF TransferInv

\* The form goes on, or back to the start; the transactions stay as they are.
LEMMA FormKeepsTransfers ==
  ASSUME Trf!TransferAssumption, TransferInv, NEW t \in TransferTab, NEW works \in BOOLEAN,
         \/ Trf!Confirm(t) \/ Trf!VerifyTrustline(t) \/ Trf!Rejected(t) \/ Trf!Answered(t) \/ Trf!AnswerLost(t) \/ Trf!Record(t, works)
  PROVE  TransferInv'
<1>1. UNCHANGED <<transfer_sequence, holds, transfer_balance, sender, trusts, transfer_sent>>
  BY DEF Trf!Confirm, Trf!VerifyTrustline, Trf!Rejected, Trf!Answered, Trf!AnswerLost, Trf!Record
<1>2. PICK f \in FormState : f = form[t]
  BY TransferTypes
<1>3. PICK n : n = form[t].tx
  OBVIOUS
<1>4. Busy(t) => n \in Trf!Try
  BY <1>3 DEF TransferInv, FormsSound
<1>5. PICK y \in FormState :
        /\ form' = [form EXCEPT ![t] = y]
        /\ \/ y.step \in {"edit", "verify", "load"}
           \/ y.step = "record" /\ y.tx = n /\ f.step = "sent" /\ transfer_sent[n].is = "paid"
  <2>1. ASSUME NEW step \in {"verify", "load", "record"}, Trf!Go(t, step)
        PROVE  \E y \in FormState : form' = [form EXCEPT ![t] = y] /\ y.step = step /\ y.tx = n
    <3>1. PICK y \in FormState : y = [f EXCEPT !.step = step]
      <4>1. [f EXCEPT !.step = step] \in FormState
        BY DEF FormState
      <4>2. QED
        BY <4>1
    <3>2. y.step = step /\ y.tx = n
      BY <1>2, <1>3, <3>1 DEF FormState
    <3>3. form' = [form EXCEPT ![t] = y]
      BY <1>2, <2>1, <3>1, TransferTypes DEF Trf!Go
    <3>4. QED
      BY <3>2, <3>3
  <2>2. ASSUME Trf!Edit(t)
        PROVE  \E y \in FormState : form' = [form EXCEPT ![t] = y] /\ y.step = "edit"
    <3>1. [step |-> "edit", tx |-> 0] \in FormState
      BY TransferTypes DEF FormState
    <3>2. PICK y \in FormState : y = [step |-> "edit", tx |-> 0]
      BY <3>1
    <3>3. y.step = "edit" /\ form' = [form EXCEPT ![t] = y]
      BY <2>2, <3>2 DEF Trf!Edit
    <3>4. QED
      BY <3>3
  <2>3. \/ Trf!Edit(t) \/ Trf!Go(t, "verify") \/ Trf!Go(t, "load")
        \/ Trf!Go(t, "record") /\ f.step = "sent" /\ transfer_sent[n].is = "paid"
    BY <1>2, <1>3 DEF Trf!Confirm, Trf!VerifyTrustline, Trf!Rejected, Trf!Answered, Trf!AnswerLost, Trf!Record, Trf!At
  <2>4. QED
    BY <2>1, <2>2, <2>3
<1>6. form' \in [TransferTab -> FormState] /\ form'[t] = y /\ \A u \in TransferTab \ {t} : form'[u] = form[u]
  BY <1>5, TransferTypes
<1>7. \* What is lost, told and recorded of it.
      /\ \/ transfer_lost' = transfer_lost
         \/ transfer_lost' = transfer_lost \union {n} /\ f.step = "sent"
      /\ \/ UNCHANGED <<told, recorded, transfer_missed>>
         \/ /\ told' = told \union {n} /\ f.step = "record"
            /\ \/ recorded' = recorded \union {n} /\ transfer_missed' = transfer_missed
               \/ transfer_missed' = transfer_missed \union {n} /\ recorded' = recorded
  BY <1>2, <1>3 DEF Trf!Confirm, Trf!VerifyTrustline, Trf!Rejected, Trf!Answered, Trf!AnswerLost, Trf!Record, Trf!At
<1>8. transfer_mishaps' \in 0..TransferMishaps
  BY TransferTypes DEF Trf!Confirm, Trf!VerifyTrustline, Trf!Rejected, Trf!Answered, Trf!AnswerLost, Trf!Record, Trf!Mishap
<1>9. f.step \in {"sign", "submit", "sent", "record"} <=> Busy(t)
  BY <1>2 DEF Busy
<1>10. Trf!TypeOK'
  <2>1. told' \subseteq Trf!Try /\ recorded' \subseteq Trf!Try /\ transfer_lost' \subseteq Trf!Try /\ transfer_missed' \subseteq Trf!Try
    BY <1>4, <1>7, <1>9, TransferTypes
  <2>2. {told', recorded', transfer_lost', transfer_missed'} \subseteq SUBSET Trf!Try
    BY <2>1
  <2>3. QED
    BY <1>1, <1>6, <1>8, <2>2 DEF TransferInv, Trf!TypeOK, FormState
<1>11. SentSound' /\ SequenceTaken'
  BY <1>1 DEF TransferInv, SentSound, SequenceTaken
<1>12. Busy(t)' => y.step = "record" /\ y.tx = n /\ Busy(t) /\ transfer_sent[n].is = "paid"
  BY <1>5, <1>6, <1>9 DEF Busy
<1>13. FormsSound'
  <2>1. \A u \in TransferTab : Busy(u)' => Busy(u) /\ form'[u].tx = form[u].tx
    BY <1>3, <1>6, <1>12 DEF Busy
  <2>2. \A u, w \in TransferTab : Busy(u)' /\ Busy(w)' /\ form'[u].tx = form'[w].tx => u = w
    BY <2>1 DEF TransferInv, FormsSound
  <2>3. ASSUME NEW u \in TransferTab, Busy(u)'
        PROVE  /\ form'[u].tx \in Trf!Try /\ transfer_sent'[form'[u].tx].seq > 0
               /\ form'[u].step \in {"sign", "submit"} <=> transfer_sent'[form'[u].tx].is = "none"
               /\ form'[u].step = "record" => transfer_sent'[form'[u].tx].is = "paid"
    <3>1. Busy(u) /\ form'[u].tx = form[u].tx /\ transfer_sent' = transfer_sent
      BY <1>1, <2>1, <2>3
    <3>2. CASE u = t
      BY <1>3, <1>6, <1>12, <2>3, <3>1, <3>2 DEF TransferInv, FormsSound
    <3>3. CASE u # t
      BY <1>6, <3>1, <3>3 DEF TransferInv, FormsSound
    <3>4. QED
      BY <3>2, <3>3
  <2>4. QED
    BY <2>2, <2>3 DEF FormsSound
<1>14. \A m : m \in Trf!UnderWay => m \in Trf!UnderWay' \/ (m = n /\ f.step \in {"sent", "record"} /\ y.step \in {"edit", "verify", "load"})
  <2>1. \A m : m \in Trf!UnderWay' <=> \E u \in TransferTab : form'[u].step \in {"sent", "record"} /\ form'[u].tx = m
    BY DEF Trf!UnderWay
  <2>2. f.step \in {"sent", "record"} => y.step \in {"edit", "verify", "load"} \/ (y.step = "record" /\ form'[t].tx = n)
    BY <1>5, <1>6
  <2>3. \A u \in TransferTab : form[u].step \in {"sent", "record"} =>
          \/ form'[u].step \in {"sent", "record"} /\ form'[u].tx = form[u].tx
          \/ u = t /\ f.step \in {"sent", "record"} /\ y.step \in {"edit", "verify", "load"}
    BY <1>2, <1>3, <1>6, <2>2
  <2>4. QED
    BY <1>3, <2>1, <2>3, UnderWayIs
<1>15. \* A tab that stops waiting was refused, or has an answer lost, or tells.
       f.step \in {"sent", "record"} /\ y.step \in {"edit", "verify", "load"} =>
         \/ n \in transfer_lost' \/ transfer_sent[n].is = "refused" \/ (n \in told' /\ transfer_sent[n].is = "paid")
  <2>1. CASE Trf!Confirm(t) \/ Trf!VerifyTrustline(t) \/ Trf!Rejected(t)
    BY <1>2, <2>1 DEF Trf!Confirm, Trf!VerifyTrustline, Trf!Rejected, Trf!At
  <2>2. CASE Trf!Answered(t)
    <3>1. f.step = "sent" /\ ((transfer_sent[n].is = "paid" /\ Trf!Go(t, "record")) \/ transfer_sent[n].is = "refused")
      BY <1>2, <1>3, <2>2 DEF Trf!Answered, Trf!At
    <3>2. CASE Trf!Go(t, "record")
      <4>1. form'[t].step = "record"
        BY <3>2, TransferTypes DEF Trf!Go, FormState
      <4>2. QED
        BY <1>6, <4>1
    <3>3. QED
      BY <3>1, <3>2
  <2>3. CASE Trf!AnswerLost(t)
    BY <1>2, <1>3, <2>3 DEF Trf!AnswerLost, Trf!At
  <2>4. CASE Trf!Record(t, works)
    <3>1. f.step = "record" /\ told' = told \union {n}
      BY <1>2, <1>3, <2>4 DEF Trf!Record, Trf!At
    <3>2. transfer_sent[n].is = "paid"
      BY <1>2, <1>3, <1>9, <3>1 DEF TransferInv, FormsSound
    <3>3. QED
      BY <3>1, <3>2
  <2>5. QED
    BY <2>1, <2>2, <2>3, <2>4
<1>16. transfer_lost \subseteq transfer_lost' /\ told \subseteq told'
  BY <1>7
<1>17. PoolWatched'
  BY <1>1, <1>14, <1>15, <1>16 DEF TransferInv, PoolWatched
<1>18. Trf!Paid' = Trf!Paid
  BY <1>1 DEF Trf!Paid
<1>19. f.step = "record" => n \in Trf!Paid
  BY <1>2, <1>3, <1>4, <1>9 DEF TransferInv, FormsSound, Trf!Paid
<1>20. Trf!PaymentsTold'
  <2>1. \A m \in Trf!Paid : transfer_sent[m].is = "paid"
    BY DEF Trf!Paid
  <2>2. \A m \in Trf!Paid : m \in told' \union Trf!UnderWay' \union transfer_lost'
    BY <1>14, <1>15, <1>16, <2>1 DEF TransferInv, Trf!PaymentsTold
  <2>3. told' \subseteq Trf!Paid
    BY <1>7, <1>19 DEF TransferInv, Trf!PaymentsTold
  <2>4. QED
    BY <1>18, <2>2, <2>3 DEF Trf!PaymentsTold
<1>21. Trf!PaymentsRecorded'
  BY <1>7, <1>18, <1>19 DEF TransferInv, Trf!PaymentsRecorded
<1>22. QED
  BY <1>10, <1>11, <1>13, <1>17, <1>20, <1>21 DEF TransferInv

LEMMA TransferStep ==
  ASSUME Trf!TransferAssumption, TransferInv, [Trf!Next]_transferVars
  PROVE  TransferInv'
<1>1. TRUE \in BOOLEAN
  OBVIOUS
<1>2. QED
  BY <1>1, WorldKeepsTransfers, DecidedKeepsTransfers, LoadKeepsTransfers, SentKeepsTransfers, FormKeepsTransfers DEF Trf!Next

LEMMA TransfersHold ==
  ASSUME TransferInv
  PROVE  Trf!PaymentsTold /\ Trf!PaymentsRecorded
BY DEF TransferInv

-----------------------------------------------------------------------------
(* The composition *)

\* A step of the composition is a step or a stutter of each component: all but
\* the chosen one stand still.
LEMMA StepOfEach ==
  ASSUME [Next]_vars
  PROVE  /\ component' = component
         /\ [Events!Next]_eventsVars /\ [Issuance!Next]_issuanceVars
         /\ [Webhooks!Next]_webhooksVars /\ [Claims!Next]_claimsVars
         /\ [Batch!Next]_batchVars /\ [Inbound!Next]_inboundVars /\ [List!Next]_listVars
         /\ [Api!Next]_apiVars /\ [Wal!Next]_walletVars /\ [Fee!Next]_feedVars
         /\ [Trf!Next]_transferVars
<1>1. CASE InEvents /\ Events!Next
  BY <1>1 DEF InEvents, clientVars
<1>2. CASE InIssuance /\ Issuance!Next
  BY <1>2 DEF InIssuance, clientVars
<1>3. CASE InWebhooks /\ Webhooks!Next
  BY <1>3 DEF InWebhooks, clientVars
<1>4. CASE InClaims /\ Claims!Next
  BY <1>4 DEF InClaims, clientVars
<1>5. CASE InBatch /\ Batch!Next
  BY <1>5 DEF InBatch, clientVars
<1>6. CASE InInbound /\ Inbound!Next
  BY <1>6 DEF InInbound, clientVars
<1>7. CASE InList /\ List!Next
  BY <1>7 DEF InList, clientVars
<1>8. CASE InApi /\ Api!Next
  BY <1>8 DEF InApi, jobVars
<1>9. CASE InWallet /\ Wal!Next
  BY <1>9 DEF InWallet, jobVars
<1>10. CASE InHistory /\ Fee!HistoryNext
  BY <1>10 DEF InHistory, jobVars, Fee!Next
<1>11. CASE InPoller /\ Fee!PollerNext
  BY <1>11 DEF InPoller, jobVars, Fee!Next
<1>12. CASE InTransfer /\ Trf!Next
  BY <1>12 DEF InTransfer, jobVars
<1>13. CASE UNCHANGED vars
  BY <1>13 DEF vars, jobVars, clientVars
<1>14. QED
  BY <1>1, <1>2, <1>3, <1>4, <1>5, <1>6, <1>7,
     <1>8, <1>9, <1>10, <1>11, <1>12, <1>13 DEF Next

\* The inductive invariant of the composition: that of every component.
JobInv ==
  /\ component \in Components
  /\ EventsInv
  /\ IssuanceInv
  /\ WebhooksInv
  /\ ClaimsInv
  /\ BatchInv
  /\ InboundInv
  /\ ListInv
  /\ CallsInv
  /\ WalletInv
  /\ FeedInv
  /\ TransferInv

LEMMA JobInit ==
  ASSUME Init
  PROVE  JobInv
<1>1. /\ component \in Components
      /\ Events!Init /\ Issuance!Init /\ Webhooks!Init /\ Claims!Init
      /\ Batch!Init /\ Inbound!Init /\ List!Init
      /\ Api!Init /\ Wal!Init /\ Fee!Init /\ Trf!Init
  BY DEF Init
<1>2. EventsInv /\ IssuanceInv /\ WebhooksInv /\ ClaimsInv
  BY <1>1, JobAssumptions, EventsInit, IssuanceInit, WebhooksInit, ClaimsInit
     DEF JobAssumptions
<1>3. BatchInv /\ InboundInv /\ ListInv
  BY <1>1, JobAssumptions, BatchInit, InboundInit, ListInit DEF JobAssumptions
<1>4. CallsInv /\ WalletInv /\ FeedInv /\ TransferInv
  BY <1>1, JobAssumptions, CallsInit, WalletInit, FeedInit, TransferInit DEF JobAssumptions
<1>5. QED
  BY <1>1, <1>2, <1>3, <1>4 DEF JobInv

LEMMA JobStep ==
  ASSUME JobInv, [Next]_vars
  PROVE  JobInv'
<1>1. EventsInv' /\ IssuanceInv' /\ WebhooksInv' /\ ClaimsInv'
  BY StepOfEach, JobAssumptions, EventsStep, IssuanceStep, WebhooksStep, ClaimsStep
     DEF JobAssumptions, JobInv
<1>2. BatchInv' /\ InboundInv' /\ ListInv'
  BY StepOfEach, JobAssumptions, BatchStep, InboundStep, ListStep DEF JobAssumptions, JobInv
<1>3. CallsInv' /\ WalletInv' /\ FeedInv' /\ TransferInv'
  BY StepOfEach, JobAssumptions, CallsStep, WalletStep, FeedStep, TransferStep
     DEF JobAssumptions, JobInv
<1>4. component' \in Components
  BY StepOfEach DEF JobInv, Components
<1>5. QED
  BY <1>1, <1>2, <1>3, <1>4 DEF JobInv

LEMMA JobInvariant == Spec => []JobInv
BY JobInit, JobStep, PTL DEF Spec

-----------------------------------------------------------------------------
\* Every stored value of the eleven components keeps the type its code stores.
THEOREM JobsTypeCorrect == Spec => []TypeOK
<1>1. JobInv => TypeOK
  <2>1. SUFFICES ASSUME JobInv PROVE TypeOK
    OBVIOUS
  <2>2. Events!TypeOK /\ Issuance!TypeOK /\ Webhooks!TypeOK /\ Claims!TypeOK
    BY <2>1, JobAssumptions, EventsHold, IssuanceHolds, WebhooksHold, ClaimsHold
       DEF JobAssumptions, JobInv
  <2>3. Batch!TypeOK /\ Inbound!TypeOK /\ List!TypeOK
    BY <2>1, ListHolds DEF JobInv, BatchInv, InboundInv
  <2>4. Api!TypeOK /\ Wal!TypeOK /\ Fee!TypeOK /\ Trf!TypeOK
    BY <2>1 DEF JobInv, CallsInv, CallTypes, WalletInv, FeedInv, TransferInv
  <2>5. QED
    BY <2>1, <2>2, <2>3, <2>4 DEF JobInv, TypeOK
<1>2. QED
  BY <1>1, JobInvariant, PTL

\* contractEventService, handleEvent, backfill and retryUnprocessed: while events
\* come one at a time, what is stored is, in order and each once, what the table
\* accepts, however often the stream breaks or the process dies, but for what a
\* connection that does not resume at the cursor passed over.
THEOREM EventsAlwaysOnceInOrder == Spec => []OrderlyExactlyOnce
<1>1. JobInv => OrderlyExactlyOnce
  BY EventsHold DEF JobInv, OrderlyExactlyOnce
<1>2. QED
  BY <1>1, JobInvariant, PTL

\* rewardIssuanceService, create and the worker: a queued job has its row,
\* "failed" means nothing is tried any more, but for a last attempt between its two
\* writes or one whose server died there, and a failure is kept in the queue or the
\* table.
THEOREM IssuancesAlwaysAccounted == Spec => []IssuancesAccounted
<1>1. JobInv => IssuancesAccounted
  BY JobAssumptions, IssuanceHolds DEF JobAssumptions, JobInv, IssuancesAccounted
<1>2. QED
  BY <1>1, JobInvariant, PTL

\* webhookService, dispatch and retryFailed: a delivery is accepted once unless
\* something was lost or two servers overlapped, it is POSTed a bounded number of
\* times, and a pending one is under way.
THEOREM DeliveriesAlwaysBounded == Spec => []DeliveriesBounded
<1>1. JobInv => DeliveriesBounded
  BY JobAssumptions, WebhooksHold DEF JobAssumptions, JobInv, DeliveriesBounded
<1>2. QED
  BY <1>1, JobInvariant, PTL

\* dropService, claim, and referralService, the bonus: what goes beyond once is
\* what raced past the check together, and only the qualified are paid.
THEOREM AlwaysGivenOnce == Spec => []GivenOnce
<1>1. JobInv => GivenOnce
  BY JobAssumptions, ClaimsHold DEF JobAssumptions, JobInv, GivenOnce
<1>2. QED
  BY <1>1, JobInvariant, PTL

\* The queues of batches, inbound actions and distribution lists: an item is
\* applied at most once per run, an award is made once per death of the worker
\* and a payment once and once per lost answer, and summaries are true.
THEOREM RunsAlwaysAccounted == Spec => []RunsAccounted
<1>1. JobInv => RunsAccounted
  <2>1. SUFFICES ASSUME JobInv PROVE RunsAccounted
    OBVIOUS
  <2>2. Batch!AppliedOncePerRun /\ Inbound!AwardsPerPost
    BY <2>1, JobAssumptions, BatchHolds, InboundHolds DEF JobAssumptions, JobInv
  <2>3. Batch!SummaryComplete /\ List!PaidPerRun
    BY <2>1, ListHolds DEF JobInv, BatchInv
  <2>4. QED
    BY <2>2, <2>3 DEF RunsAccounted
<1>2. QED
  BY <1>1, JobInvariant, PTL

\* apiClient, WalletContext, walletStore, useInfiniteScroll, txPoller and
\* TransferForm: calls that wait for a token are let go and a write is handled
\* again only for a lost answer, the balance shown is of the connected wallet or of
\* the user's linked one, unless the wallet changed under way, the history has no gaps, a transaction's status is its verdict, and a payment the
\* ledger applied is told and recorded unless its answer or record was lost.
THEOREM ClientsAlwaysHold == Spec => []ClientHolds
<1>1. JobInv => ClientHolds
  <2>1. SUFFICES ASSUME JobInv PROVE ClientHolds
    OBVIOUS
  <2>2. /\ Api!WaitersAreReleased /\ Api!SendsBounded /\ Api!WrittenOncePerLoss
        /\ Wal!BalanceIsOfWallet /\ Wal!BalanceNotBackwards /\ Wal!KeptUnlessCrossed
    BY <2>1, JobAssumptions, CallsHold, WalletHolds DEF JobAssumptions, JobInv
  <2>3. /\ Fee!HistoryWithoutGaps /\ Fee!StatusIsVerdict
        /\ Trf!PaymentsTold /\ Trf!PaymentsRecorded
    BY <2>1, JobAssumptions, FeedsHold, TransfersHold DEF JobAssumptions, JobInv
  <2>4. QED
    BY <2>2, <2>3 DEF ClientHolds
<1>2. QED
  BY <1>1, JobInvariant, PTL

==============================================================================
