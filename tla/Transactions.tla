---------------------------- MODULE Transactions ----------------------------
(* The table of transactions: recording, refunds and reconciliation of one   *)
(* merchant's, and a client that reads it page by page with a cursor.        *)
(*                                                                           *)
(* A refund checks the original transaction, looks for the refund on the     *)
(* network and then works in one database transaction, whose statements see  *)
(* what is committed and whose lock others wait for. PostgreSQL stores       *)
(* microseconds; the date in a cursor has milliseconds.                      *)
EXTENDS Integers, Sequences, FiniteSets

CONSTANTS Hash,      \* transaction hashes
          Refund,    \* requests for a refund
          Tick,      \* microseconds the date in a cursor is rounded down to
          MaxTime,   \* bound on the clock
          Limit,     \* rows on a page
          NoHash

TransactionsAssumption ==
  /\ IsFiniteSet(Hash) /\ IsFiniteSet(Refund) /\ NoHash \notin Hash
  /\ Tick \in Nat \ {0} /\ MaxTime \in Nat /\ Limit \in Nat \ {0}

VARIABLES transactions, \* the rows, in the order of their ids
          \* refunds and reconciliations
          refund,       \* what each refund is doing, and its hashes
          locked,       \* rows locked by a refund
          reported,     \* history: how often a row was counted as reconciled
          posted,       \* history: the status recordTransaction was given for a row
          \* pages
          clock,
          open,         \* ids of rows that are inserted and not yet committed
          reader,       \* the cursor, and whether the client wants another page
          shown, again, \* history: ids shown to the client, and those shown once more
          ends,         \* history: ids of the last rows of the pages
          began         \* history: the ids there were when it began

refundVars == <<refund, locked, reported, posted>>
pageVars == <<clock, open, reader, shown, again, ends, began>>
transactionVars == <<transactions, refundVars, pageVars>>

\* What a client may record; "pending" stands for failed as well, and a transfer for the
\* other types that are no refund.
Status == {"pending", "completed", "refunded", "reconciled"}
Idle == [step |-> "none", tx |-> NoHash, by |-> NoHash]

Init ==
  /\ transactions = <<>>
  /\ refund = [r \in Refund |-> Idle] /\ locked = {}
  /\ reported = [h \in Hash |-> 0] /\ posted = [h \in Hash |-> "none"]
  /\ clock = 0 /\ open = {}
  /\ \E direction \in {"asc", "desc"} :
       reader = [state |-> "none", direction |-> direction, at |-> 0, id |-> 0]
  /\ shown = {} /\ again = {} /\ ends = {} /\ began = {}

Ids == DOMAIN transactions
IdOf(h) == {i \in Ids : transactions[i].hash = h}
Row(h) == transactions[CHOOSE i \in IdOf(h) : TRUE]
Recorded(h) == IdOf(h) # {}

NewRow(h, type, status, reference, at) ==
  [hash |-> h, type |-> type, status |-> status, reference |-> reference,
   reconciled |-> FALSE, at |-> at]

SetStatus(rows, h, status) ==
  [i \in DOMAIN rows |-> IF rows[i].hash = h THEN [rows[i] EXCEPT !.status = status] ELSE rows[i]]

At(r, step) == refund[r].step = step
End(r) == refund' = [refund EXCEPT ![r] = [step |-> "end", tx |-> NoHash, by |-> NoHash]]

\* Hashes that no row has or refers to and no refund is about are alike, as are requests
\* that have not begun: one stands for them.
Fresh == {h \in Hash : /\ ~Recorded(h) /\ \A i \in Ids : transactions[i].reference # h
                       /\ \A r \in Refund : refund[r].by # h}
Alike(h, those) == h \in those => h = CHOOSE g \in those : TRUE

\* recordTransaction of a transaction the network knows, with the status the client
\* gives; the hash is unique. A refund needs a reference, which nothing checks, and the
\* transaction it refers to keeps its status.
Record(h, type, status, reference) ==
  /\ ~Recorded(h)
  /\ Alike(h, Fresh) /\ Alike(reference, Fresh \ {h})
  /\ type = "refund" <=> reference # NoHash
  /\ transactions' = Append(transactions, NewRow(h, type, status, reference, clock))
  /\ posted' = [posted EXCEPT ![h] = status]
  /\ UNCHANGED <<refund, locked, reported>>

-----------------------------------------------------------------------------
(* refundTransaction and processRefund.                                     *)

\* The original is the merchant's and completed or reconciled, and the network
\* knows the refund, which is another transaction.
CheckOriginal(r, h, by) ==
  /\ refund[r] = Idle /\ h # by
  /\ Alike(by, Fresh) /\ Alike(r, {q \in Refund : refund[q] = Idle})
  /\ Recorded(h) /\ Row(h).status \in {"completed", "reconciled"}
  /\ refund' = [refund EXCEPT ![r] = [step |-> "check", tx |-> h, by |-> by]]
  /\ UNCHANGED <<transactions, locked, reported, posted>>

\* BEGIN, and no row has the refund's hash yet.
CheckDuplicate(r) ==
  /\ At(r, "check")
  /\ IF Recorded(refund[r].by) THEN End(r)
     ELSE refund' = [refund EXCEPT ![r].step = "lock"]
  /\ UNCHANGED <<transactions, locked, reported, posted>>

\* SELECT ... FOR UPDATE over a LEFT JOIN: PostgreSQL refuses it, and the refund is
\* rolled back ...
LockRefused(r) ==
  /\ At(r, "lock") /\ End(r)
  /\ UNCHANGED <<transactions, locked, reported, posted>>

\* ... where the statement is accepted, it waits for the lock and reads what is
\* committed then.
LockOriginal(r) ==
  /\ At(r, "lock") /\ refund[r].tx \notin locked
  /\ IF Row(refund[r].tx).type = "refund" \/ Row(refund[r].tx).status = "refunded"
     THEN End(r) /\ UNCHANGED locked
     ELSE /\ refund' = [refund EXCEPT ![r].step = "insert"]
          /\ locked' = locked \union {refund[r].tx}
  /\ UNCHANGED <<transactions, reported, posted>>

\* Variant: no unique hash refuses a refund that came first.
CommitRefund_Duplicate(r) ==
  /\ At(r, "insert")
  /\ transactions' = Append(SetStatus(transactions, refund[r].tx, "refunded"),
                            NewRow(refund[r].by, "refund", "completed", refund[r].tx, clock))
  /\ locked' = locked \ {refund[r].tx}
  /\ End(r)
  /\ UNCHANGED <<reported, posted>>

\* INSERT, UPDATE, COMMIT; the unique hash refuses a refund that came first.
CommitRefund(r) ==
  /\ At(r, "insert")
  /\ LET h == refund[r].tx
         by == refund[r].by
     IN  /\ transactions' =
              IF Recorded(by) THEN transactions
              ELSE Append(SetStatus(transactions, h, "refunded"),
                          NewRow(by, "refund", "completed", h, clock))
         /\ locked' = locked \ {h}
  /\ End(r)
  /\ UNCHANGED <<reported, posted>>

\* The connection dies after the lock: everything is rolled back.
RollBack(r) ==
  /\ At(r, "insert")
  /\ locked' = locked \ {refund[r].tx}
  /\ End(r)
  /\ UNCHANGED <<transactions, reported, posted>>

-----------------------------------------------------------------------------
(* reconcileTransactions.                                                   *)

Unreconciled(rows) == {i \in DOMAIN rows : ~rows[i].reconciled}

Reconciled(row) ==
  [hash |-> row.hash, type |-> row.type,
   status |-> IF row.status = "completed" THEN "reconciled" ELSE row.status,
   reference |-> row.reference, reconciled |-> TRUE, at |-> row.at]

\* One UPDATE, which waits for rows that are locked, takes them as they are then and
\* returns them to be summed up.
Reconcile ==
  /\ locked = {} /\ Unreconciled(transactions) # {}
  /\ transactions' = [i \in Ids |->
       IF transactions[i].reconciled THEN transactions[i] ELSE Reconciled(transactions[i])]
  /\ reported' = [h \in Hash |->
       reported[h] + Cardinality(IdOf(h) \intersect Unreconciled(transactions))]
  /\ UNCHANGED <<refund, locked, posted>>

RefundNext ==
  \/ Reconcile
  \/ \E h \in Hash, status \in Status :
       \/ Record(h, "transfer", status, NoHash)
       \/ \E reference \in Hash : Record(h, "refund", status, reference)
  \/ \E r \in Refund :
       \/ \E h, by \in Hash : CheckOriginal(r, h, by)
       \/ CheckDuplicate(r) \/ LockRefused(r) \/ LockOriginal(r) \/ CommitRefund(r) \/ RollBack(r)

-----------------------------------------------------------------------------
(* getUserTransactionsCursor, newest or oldest first.                       *)

Wait ==
  /\ clock < MaxTime /\ clock' = clock + 1
  /\ UNCHANGED <<transactions, open, reader, shown, again, ends, began>>

\* An INSERT as a reader sees it: the row has the next id and the date at which its
\* transaction began ...
Insert(h, at) ==
  /\ ~Recorded(h) /\ at \in 0..clock
  /\ Alike(h, Fresh)
  /\ transactions' = Append(transactions, NewRow(h, "transfer", "completed", NoHash, at))
  /\ open' = open \union {Len(transactions) + 1}
  /\ UNCHANGED <<clock, reader, shown, again, ends, began>>

\* ... and is there once that is committed, later perhaps than rows that follow it.
Commit(i) ==
  /\ i \in open /\ open' = open \ {i}
  /\ UNCHANGED <<transactions, clock, reader, shown, again, ends, began>>

Rounded(t) == t - (t % Tick)

\* A row dated t with id i is before one dated u with id j in the direction of the listing.
Before(t, i, u, j) ==
  IF reader.direction = "asc" THEN t < u \/ (t = u /\ i < j) ELSE u < t \/ (t = u /\ j < i)

Ahead(i, j) == Before(transactions[i].at, i, transactions[j].at, j)

\* Row i comes after the cursor, if there is one.
After(i) == reader.id = 0 \/ Before(reader.at, reader.id, transactions[i].at, i)

Visible == Ids \ open
Listed == {i \in Visible : After(i)}

\* The rows of a page: the first of those after the cursor.
Page == {i \in Listed : Cardinality({j \in Listed : Ahead(j, i)}) < Limit}

\* The last row of a page that others follow is where the next one starts.
ReadPage ==
  /\ reader.state \in {"none", "more"}
  /\ began' = IF reader.state = "none" THEN Visible ELSE began
  /\ shown' = shown \union Page /\ again' = again \union (shown \intersect Page)
  /\ \/ /\ Cardinality(Listed) <= Limit
        /\ reader' = [reader EXCEPT !.state = "done"] /\ UNCHANGED ends
     \/ \E last \in Page :
          /\ Cardinality(Listed) > Limit /\ \A i \in Page : ~Ahead(last, i)
          /\ reader' = [state |-> "more", direction |-> reader.direction,
                        at |-> Rounded(transactions[last].at), id |-> last]
          /\ ends' = ends \union {last}
  /\ UNCHANGED <<transactions, clock, open>>

PageNext ==
  \/ Wait \/ ReadPage
  \/ \E h \in Hash, at \in 0..clock : Insert(h, at)
  \/ \E i \in open : Commit(i)

Next ==
  \/ RefundNext /\ UNCHANGED pageVars
  \/ PageNext /\ UNCHANGED refundVars

-----------------------------------------------------------------------------
StoredRow == [hash : Hash, type : {"transfer", "refund"}, status : Status,
              reference : Hash \union {NoHash}, reconciled : BOOLEAN, at : Nat]
RefundState == [step : {"none", "check", "lock", "insert", "end"},
                tx : Hash \union {NoHash}, by : Hash \union {NoHash}]

TypeOK ==
  /\ transactions \in Seq(StoredRow)
  /\ \A i, j \in Ids : transactions[i].hash = transactions[j].hash => i = j
  /\ refund \in [Refund -> RefundState]
  /\ locked \subseteq Hash /\ reported \in [Hash -> Nat] /\ posted \in [Hash -> Status \union {"none"}]
  /\ clock \in 0..MaxTime /\ open \subseteq Ids
  /\ reader \in [state : {"none", "more", "done"}, direction : {"asc", "desc"}, at : Nat, id : Nat]
  /\ shown \subseteq Ids /\ again \subseteq shown /\ ends \subseteq shown /\ began \subseteq Ids

\* The refunds that processRefund made of a transaction, not those that were recorded as such.
Refunds(h) ==
  {i \in Ids : /\ transactions[i].type = "refund" /\ transactions[i].reference = h
               /\ posted[transactions[i].hash] = "none"}

\* processRefund refunds a transaction once, exactly if its status says so that was not
\* recorded as refunded, and what it refunds is no refund itself.
RefundedOnce ==
  \A i \in Ids : LET h == transactions[i].hash IN
    /\ Cardinality(Refunds(h)) = IF transactions[i].status = "refunded" /\ posted[h] # "refunded" THEN 1 ELSE 0
    /\ transactions[i].type = "refund" => Refunds(h) = {}

\* A row enters one reconciliation's sum, if it is marked as reconciled.
ReconciledOnce ==
  \A i \in Ids : reported[transactions[i].hash] = IF transactions[i].reconciled THEN 1 ELSE 0

\* A row that dates from the millisecond in which a page ended.
WithAnEnd(i) == \E e \in ends : Rounded(transactions[i].at) = Rounded(transactions[e].at)

\* A client that has read all pages has seen the rows there were when it began, and each
\* once: but for rows of the millisecond in which a page ended, of which a descending
\* listing may leave out some and an ascending one may repeat some.
PagesComplete ==
  /\ \A i \in again : reader.direction = "asc" /\ WithAnEnd(i)
  /\ reader.state = "done" => \A i \in began \ shown : reader.direction = "desc" /\ WithAnEnd(i)
=============================================================================
