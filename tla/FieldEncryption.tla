-------------------------- MODULE FieldEncryption --------------------------
(* The encrypted columns users.email and webhooks.secret: the servers that   *)
(* write and read them, the script that encrypts the rows there are or moves *)
(* them to a new key, batch by batch, and the operator who takes the servers *)
(* from the old key over both keys to the new one.                           *)
(*                                                                           *)
(* A value is what key it is encrypted with. Whether it is encrypted is      *)
(* guessed from its form: a plaintext of at least 40 base64 characters, as   *)
(* the secrets of webhooks were, is taken for encrypted.                     *)
EXTENDS Integers, FiniteSets, FiniteSetsExt

CONSTANTS Server,
          Rows,        \* bound on the ids of rows
          BatchSize,
          Lookalike,   \* ids whose plaintext looks encrypted
          MaxFailures  \* bound on updates that fail, and on runs cut short

FieldEncryptionAssumption ==
  /\ IsFiniteSet(Server) /\ Rows \in Nat /\ BatchSize \in Nat \ {0}
  /\ Lookalike \subseteq 1..Rows /\ MaxFailures \in Nat

VARIABLES row,       \* the value of each row: "none", "plain", "old" or "new"
          inserted,  \* the largest id
          keys,      \* of each server: the old key, both, or the new key
          script,
          verified,  \* the operator has seen a dry run with nothing left to update
          failures

encryptionVars == <<row, inserted, keys, script, verified, failures>>

Row == 1..Rows
Values == {"none", "plain", "old", "new"}
Primary(s) == IF keys[s] = "old" THEN "old" ELSE "new"
AllDual == \A s \in Server : keys[s] = "dual"

NoScript == [step |-> "none", rotation |-> FALSE, dry |-> FALSE, dual |-> FALSE, cursor |-> 0,
             batch |-> {}, read |-> [r \in Row |-> "none"], updated |-> 0, failed |-> 0]

\* Rows from before encryption, and rows encrypted since.
Init ==
  /\ \E n \in 0..Rows : inserted = n /\ row \in {f \in [Row -> {"none", "plain", "old"}] :
       \A r \in Row : f[r] = "none" <=> r > n}
  /\ keys = [s \in Server |-> "old"]
  /\ script = NoScript /\ verified = FALSE /\ failures = 0

Failure == failures < MaxFailures /\ failures' = failures + 1

-----------------------------------------------------------------------------
(* The servers.                                                             *)

\* createWebhook, or a registration: encrypt() with the server's primary key.
Insert(s) ==
  /\ inserted < Rows
  /\ inserted' = inserted + 1
  /\ row' = [row EXCEPT ![inserted + 1] = Primary(s)]
  /\ UNCHANGED <<keys, script, verified, failures>>

\* deleteWebhook.
Delete(r) ==
  /\ row[r] # "none" /\ row' = [row EXCEPT ![r] = "none"]
  /\ UNCHANGED <<inserted, keys, script, verified, failures>>

\* decryptWithKeyInfo: the primary key is tried, then the previous one.
Decryptable(config, r) ==
  CASE row[r] = "none" -> TRUE
    [] row[r] = "plain" -> r \notin Lookalike
    [] row[r] = "old" -> config \in {"old", "dual"}
    [] row[r] = "new" -> config \in {"dual", "new"}

\* A server is restarted with the new key and the old one as the previous key ...
ActivateDual(s) ==
  /\ keys[s] = "old" /\ keys' = [keys EXCEPT ![s] = "dual"]
  /\ UNCHANGED <<row, inserted, script, verified, failures>>

\* ... and, when a dry run has shown that nothing is left, without it.
Retire(s) ==
  /\ keys[s] = "dual" /\ verified
  /\ keys' = [keys EXCEPT ![s] = "new"]
  /\ UNCHANGED <<row, inserted, script, verified, failures>>

-----------------------------------------------------------------------------
(* encrypt-existing-rows.js.                                                *)

Target == IF script.rotation THEN "new" ELSE "old"

\* Before the rotation the script encrypts with the only key there is.
Start(rotation, dry) ==
  /\ script.step \in {"none", "done"}
  /\ ~rotation => \A s \in Server : keys[s] = "old"
  /\ script' = [NoScript EXCEPT !.step = "read", !.rotation = rotation, !.dry = dry, !.dual = AllDual]
  /\ UNCHANGED <<row, inserted, keys, verified, failures>>

After(cursor) == {r \in Row : row[r] # "none" /\ r > cursor}
FirstOf(set) == {r \in set : Cardinality({q \in set : q < r}) < BatchSize}

\* Variant: the cursor is one past the last row of the batch.
NextBatch_Skips ==
  LET batch == FirstOf(After(script.cursor))
  IN  [script EXCEPT !.step = "write", !.batch = batch, !.read = row, !.cursor = Max(batch) + 1]

NextBatch ==
  LET batch == FirstOf(After(script.cursor))
  IN  [script EXCEPT !.step = "write", !.batch = batch, !.read = row, !.cursor = Max(batch)]

\* The next rows by id; when there are none the run is over.
ReadBatch ==
  /\ script.step = "read"
  /\ LET over == After(script.cursor) = {}
         clean == script.rotation /\ script.dual /\ script.updated = 0 /\ script.failed = 0
     IN  /\ script' = IF over THEN [script EXCEPT !.step = "done"] ELSE NextBatch
         /\ verified' = (verified \/ (over /\ script.dry /\ clean))
  /\ UNCHANGED <<row, inserted, keys, failures>>

\* computeAction on the value that was read: plaintext is encrypted, and in a rotation
\* what decrypts with the old key is. All else is taken for done.
ToUpdate(r) ==
  \/ script.read[r] = "plain" /\ r \notin Lookalike
  \/ script.rotation /\ script.read[r] = "old"

Without(r) ==
  [script EXCEPT !.batch = @ \ {r}, !.step = IF script.batch = {r} THEN "read" ELSE @]

Skip(r) ==
  /\ r \in script.batch /\ ~ToUpdate(r)
  /\ script' = Without(r)
  /\ UNCHANGED <<row, inserted, keys, verified, failures>>

\* The UPDATE, by id: it finds no row that was deleted meanwhile.
Update(r) ==
  /\ r \in script.batch /\ ToUpdate(r)
  /\ script' = [Without(r) EXCEPT !.updated = @ + 1]
  /\ row' = IF script.dry \/ row[r] = "none" THEN row ELSE [row EXCEPT ![r] = Target]
  /\ UNCHANGED <<inserted, keys, verified, failures>>

UpdateFails(r) ==
  /\ r \in script.batch /\ ToUpdate(r) /\ ~script.dry /\ Failure
  /\ script' = [Without(r) EXCEPT !.failed = @ + 1]
  /\ UNCHANGED <<row, inserted, keys, verified>>

\* The run is cut short between two statements.
Interrupt ==
  /\ script.step \in {"read", "write"} /\ Failure
  /\ script' = NoScript
  /\ UNCHANGED <<row, inserted, keys, verified>>

Next ==
  \/ \E s \in Server : Insert(s) \/ ActivateDual(s) \/ Retire(s)
  \/ \E rotation, dry \in BOOLEAN : Start(rotation, dry)
  \/ ReadBatch \/ Interrupt
  \/ \E r \in Row : Delete(r) \/ Skip(r) \/ Update(r) \/ UpdateFails(r)

-----------------------------------------------------------------------------
TypeOK ==
  /\ row \in [Row -> Values] /\ inserted \in 0..Rows
  /\ keys \in [Server -> {"old", "dual", "new"}]
  /\ script.step \in {"none", "read", "write", "done"}
  /\ script.batch \subseteq Row /\ script.read \in [Row -> Values]
  /\ verified \in BOOLEAN /\ failures \in 0..MaxFailures

\* No server meets a value it cannot decrypt, whatever failed or was cut short: except
\* one that still has only the old key, and plaintexts that look encrypted.
EveryServerReads ==
  \A s \in Server, r \in Row :
    \/ Decryptable(keys[s], r)
    \/ keys[s] = "old" /\ row[r] = "new"
    \/ row[r] = "plain" /\ r \in Lookalike

\* A rotation that ends without a failure, begun when all servers had the new key,
\* leaves nothing under the old key and no plaintext it could tell.
CleanRunMigrates ==
  script.step = "done" /\ script.rotation /\ script.dual /\ ~script.dry /\ script.failed = 0
    => \A r \in Row : row[r] \in {"none", "new"} \/ (row[r] = "plain" /\ r \in Lookalike)
=============================================================================
