------------------------------ MODULE Backups ------------------------------
(* Base backups of the database and the plan to restore one                   *)
(* (services/backupService.js, jobs/backupJob.js, scripts/restore-pitr.js):   *)
(* servers that run a backup cycle each, on one directory.                    *)
(*                                                                            *)
(* A backup is known by the time its cycle began, to the millisecond: two     *)
(* servers whose timers fire together write one file. The write-ahead log is  *)
(* archived by the database for ever, so that a backup can be rolled forward  *)
(* to any time from the one at which pg_basebackup ended.                     *)
EXTENDS Integers, FiniteSets, FiniteSetsExt

CONSTANTS Server,        \* servers that run the job
          retentionDays, \* time until a backup expires
          MaxTime,       \* bound on time
          MaxMishaps     \* bound on dumps that fail and processes that die

BackupsAssumption ==
  /\ IsFiniteSet(Server) /\ retentionDays \in Nat \ {0}
  /\ MaxTime \in Nat \ {0} /\ MaxMishaps \in Nat

VARIABLES temps,     \* id -> what its .tmp file holds
          files,     \* id -> what its backup holds, and when pg_basebackup ended
          manifests, \* ids with a manifest
          cycle,     \* the step of each server's cycle, its time, and what it still removes
          time,
          mishaps,
          died,      \* history: ids at which a cycle died or failed between two files
          shared,    \* history: ids that two servers wrote
          completed  \* history: a cycle wrote its manifest

backupVars == <<temps, files, manifests, cycle, time, mishaps, died, shared, completed>>

Id == 1..MaxTime
NoFile == [holds |-> "none", ended |-> 0]
Idle == [step |-> "none", now |-> 0, expired |-> {}]

Init ==
  /\ temps = [i \in Id |-> "none"] /\ files = [i \in Id |-> NoFile]
  /\ manifests = {} /\ cycle = [s \in Server |-> Idle]
  /\ time = 1 /\ mishaps = 0 /\ died = {} /\ shared = {} /\ completed = FALSE

At(s, step) == cycle[s].step = step
Now(s) == cycle[s].now
Goes(s, step, expired) ==
  cycle' = [cycle EXCEPT ![s] = [step |-> step, now |-> Now(s), expired |-> expired]]
Go(s, step) == Goes(s, step, cycle[s].expired)
End(s) == Goes(s, "none", {})

Tick ==
  /\ time < MaxTime /\ time' = time + 1
  /\ UNCHANGED <<temps, files, manifests, cycle, mishaps, died, shared, completed>>

-----------------------------------------------------------------------------
(* createEncryptedBackup.                                                   *)

\* The timer comes round again a day later. openssl truncates the .tmp file; a
\* second one writes into the same file.
StartCycle(s) ==
  /\ At(s, "none") /\ Now(s) < time
  /\ cycle' = [cycle EXCEPT ![s] = [step |-> "dump", now |-> time, expired |-> {}]]
  /\ temps' = [temps EXCEPT ![time] = IF @ = "none" THEN "whole" ELSE "mixed"]
  /\ shared' = IF \E r \in Server \ {s} : Now(r) = time THEN shared \union {time}
               ELSE shared
  /\ UNCHANGED <<files, manifests, time, mishaps, died, completed>>

\* pg_basebackup or openssl ends with an error: the .tmp file is removed.
DumpFails(s) ==
  /\ At(s, "dump")
  /\ mishaps < MaxMishaps /\ mishaps' = mishaps + 1
  /\ temps' = [temps EXCEPT ![Now(s)] = "none"]
  /\ End(s)
  /\ UNCHANGED <<files, manifests, time, died, shared, completed>>

\* The .tmp file gets its name, if nobody has taken it away.
Rename(s) ==
  /\ At(s, "dump")
  /\ IF temps[Now(s)] = "none"
     THEN End(s) /\ UNCHANGED <<temps, files>>
     ELSE /\ files' = [files EXCEPT ![Now(s)] = [holds |-> temps[Now(s)], ended |-> time]]
          /\ temps' = [temps EXCEPT ![Now(s)] = "none"]
          /\ Go(s, "manifest")
  /\ UNCHANGED <<manifests, time, mishaps, died, shared, completed>>

WriteManifest(s) ==
  /\ At(s, "manifest")
  /\ manifests' = manifests \union {Now(s)} /\ completed' = TRUE
  /\ Go(s, "list")
  /\ UNCHANGED <<temps, files, time, mishaps, died, shared>>

-----------------------------------------------------------------------------
(* pruneExpiredBackups: the manifests are read once (one that another server  *)
(* removes meanwhile fails the cycle, see Die); then, one after the other, the *)
(* file and the manifest of what had expired when the cycle began.            *)

ExpiredAt(now) == {m \in manifests : m + retentionDays <= now}

ListBackups(s) ==
  /\ At(s, "list")
  /\ LET expired == ExpiredAt(Now(s))
     IN IF expired = {} THEN End(s)
        ELSE Goes(s, "file", expired)
  /\ UNCHANGED <<temps, files, manifests, time, mishaps, died, shared, completed>>

\* Newest first.
RemoveFile(s) ==
  /\ At(s, "file")
  /\ files' = [files EXCEPT ![Max(cycle[s].expired)] = NoFile]
  /\ Go(s, "row")
  /\ UNCHANGED <<temps, manifests, time, mishaps, died, shared, completed>>

RemoveManifest(s) ==
  LET removed == Max(cycle[s].expired)
      rest == cycle[s].expired \ {removed}
  IN
  /\ At(s, "row")
  /\ manifests' = manifests \ {removed}
  /\ IF rest = {} THEN End(s)
     ELSE Goes(s, "file", rest)
  /\ UNCHANGED <<temps, files, time, mishaps, died, shared, completed>>

\* The process stops, or a call on the file system fails, at any step.
Die(s) ==
  /\ ~At(s, "none")
  /\ mishaps < MaxMishaps /\ mishaps' = mishaps + 1
  /\ died' = IF At(s, "manifest") THEN died \union {Now(s)}
             ELSE IF At(s, "row") THEN died \union {Max(cycle[s].expired)} ELSE died
  /\ End(s)
  /\ UNCHANGED <<temps, files, manifests, time, shared, completed>>

Next ==
  \/ Tick
  \/ \E s \in Server :
       \/ StartCycle(s) \/ DumpFails(s) \/ Rename(s) \/ WriteManifest(s)
       \/ ListBackups(s) \/ RemoveFile(s) \/ RemoveManifest(s) \/ Die(s)

-----------------------------------------------------------------------------
(* buildRecoveryPlan, and what restore-pitr.js can do with it.              *)

\* The newest backup that began at or before the target.
selectBackupForTimestamp(target) == Max({m \in manifests : m <= target})

\* What the restore needs: a file that can be decrypted, and a target after its end.
Restores(m, target) == files[m].holds = "whole" /\ files[m].ended <= target

-----------------------------------------------------------------------------
TypeOK ==
  /\ temps \in [Id -> {"none", "whole", "mixed"}]
  /\ files \in [Id -> [holds : {"none", "whole", "mixed"}, ended : 0..MaxTime]]
  /\ manifests \subseteq Id /\ time \in Id /\ mishaps \in 0..MaxMishaps /\ died \subseteq Id /\ shared \subseteq Id
  /\ cycle \in [Server -> [step : {"none", "dump", "manifest", "list", "file", "row"},
                           now : 0..MaxTime, expired : SUBSET Id]]
  /\ completed \in BOOLEAN

Pruning == {Max(cycle[s].expired) : s \in {r \in Server : At(r, "row")}}
Written == {Now(s) : s \in {r \in Server : At(r, "manifest")}}

\* A manifest and its file are there together, except between two calls of the file
\* system or where a process died between them; two servers that wrote one id apart.
FileAndManifest ==
  \A i \in Id : (i \in manifests) # (files[i] # NoFile) => i \in Pruning \union Written \union died \union shared

\* Once a cycle has got through there is always a backup to restore, whatever expires,
\* fails or dies.
BackupKept == completed => \E m \in manifests : files[m].holds = "whole" \/ m \in shared

\* If any backup can be restored to a time, the planned one can: unless the time is
\* within the planned backup's own run, or its file is going or was written by two.
PlanRestores ==
  \A t \in 1..time :
    (\E m \in manifests : Restores(m, t)) =>
      LET planned == selectBackupForTimestamp(t)
      IN \/ Restores(planned, t)
         \/ files[planned].holds = "whole" /\ planned <= t /\ t < files[planned].ended
         \/ planned \in Pruning \union died \union shared
=============================================================================
