------------------------------ MODULE Accounts ------------------------------
(* The account of one wallet: registration, the profile, deletion, and the   *)
(* login with a signed challenge, which creates the account or takes it up   *)
(* again. Every request is a chain of separate statements; the challenge is  *)
(* read from Redis and deleted by two.                                       *)
(*                                                                           *)
(* What a request is answered (401, 404, 409) is where it ends. A signature  *)
(* that does not fit the challenge ends a login like a stale challenge.      *)
EXTENDS Integers, FiniteSets

CONSTANTS Visit,      \* requests that may run at the same time
          MaxNonces,  \* bound on challenges
          MaxChanges  \* bound on registrations, updates and deletions

AccountsAssumption == IsFiniteSet(Visit) /\ MaxNonces \in Nat /\ MaxChanges \in Nat

VARIABLES user,      \* the row in users: its status, and whether it has personal data
          nonce,     \* the challenge in Redis: its number, or 0
          nonces,    \* challenges so far
          visit,     \* what each request is doing, and the challenge it has read
          logins,    \* history: logins per challenge
          together,  \* history: how many requests held a challenge undeleted at the same time
          changes

accountVars == <<user, nonce, nonces, visit, logins, together, changes>>

Nonce == 1..MaxNonces
Quiet == [step |-> "none", nonce |-> 0]
NoUser == [status |-> "none", personal |-> FALSE]

Init ==
  /\ user = NoUser
  /\ nonce = 0 /\ nonces = 0
  /\ visit = [v \in Visit |-> Quiet]
  /\ logins = [n \in Nonce |-> 0] /\ together = [n \in Nonce |-> 0]
  /\ changes = 0

At(v, step) == visit[v].step = step
GoTo(v, step) == visit' = [visit EXCEPT ![v].step = step]
End(v) == visit' = [visit EXCEPT ![v] = Quiet]

\* One more request other than a login begins.
Begin(v, step) ==
  /\ visit[v] = Quiet /\ changes < MaxChanges
  /\ changes' = changes + 1
  /\ GoTo(v, step)
  /\ UNCHANGED <<user, nonce, nonces, logins, together>>

-----------------------------------------------------------------------------
(* The login.                                                               *)

\* POST /auth/challenge replaces the challenge of the wallet.
CreateChallenge ==
  /\ nonces < MaxNonces
  /\ nonces' = nonces + 1 /\ nonce' = nonces + 1
  /\ UNCHANGED <<user, visit, logins, together, changes>>

\* Redis forgets it after five minutes.
ExpireChallenge ==
  /\ nonce # 0 /\ nonce' = 0
  /\ UNCHANGED <<user, nonces, visit, logins, together, changes>>

Reading(n) == Cardinality({v \in Visit : At(v, "take") /\ visit[v].nonce = n})

\* POST /auth/verify reads the challenge ...
ReadChallenge(v) ==
  /\ visit[v] = Quiet /\ nonce # 0
  /\ visit' = [visit EXCEPT ![v] = [step |-> "take", nonce |-> nonce]]
  /\ LET readers == Reading(nonce) + 1
     IN together' = [together EXCEPT ![nonce] = IF readers > @ THEN readers ELSE @]
  /\ UNCHANGED <<user, nonce, nonces, logins, changes>>

\* ... and deletes whatever challenge there is by then. A login whose challenge is
\* too old or not the one that was signed ends here.
TakeChallenge(v) ==
  /\ At(v, "take")
  /\ nonce' = 0
  /\ \/ GoTo(v, "find") \/ End(v)
  /\ UNCHANGED <<user, nonces, logins, together, changes>>

\* findOrCreateUserByWallet: the SELECT; a user that is found is logged in.
FindUser(v) ==
  /\ At(v, "find")
  /\ IF user.status = "active"
     THEN End(v) /\ logins' = [logins EXCEPT ![visit[v].nonce] = @ + 1]
     ELSE GoTo(v, "create") /\ UNCHANGED logins
  /\ UNCHANGED <<user, nonce, nonces, together, changes>>

\* The INSERT; a row that is there is no longer deleted, and otherwise unchanged.
CreateUser(v) ==
  /\ At(v, "create")
  /\ user' = IF user.status = "none" THEN [status |-> "active", personal |-> TRUE]
             ELSE [user EXCEPT !.status = "active"]
  /\ End(v) /\ logins' = [logins EXCEPT ![visit[v].nonce] = @ + 1]
  /\ UNCHANGED <<nonce, nonces, together, changes>>

-----------------------------------------------------------------------------
(* Registration, profile and deletion.                                      *)

\* POST /users: deleted or not, a wallet that is known is a duplicate.
Register(v) == user.status = "none" /\ Begin(v, "register")

\* The INSERT, which the unique wallet address refuses to the slower of two.
InsertUser(v) ==
  /\ At(v, "register")
  /\ user' = IF user.status = "none" THEN [status |-> "active", personal |-> FALSE] ELSE user
  /\ End(v)
  /\ UNCHANGED <<nonce, nonces, logins, together, changes>>

\* PUT or PATCH /users/:id: the user exists ...
CheckUpdate(v) == user.status = "active" /\ Begin(v, "update")

\* ... and the fields are set unless it has been deleted since.
UpdateUser(v) ==
  /\ At(v, "update")
  /\ user' = IF user.status = "active" THEN [user EXCEPT !.personal = TRUE] ELSE user
  /\ End(v)
  /\ UNCHANGED <<nonce, nonces, logins, together, changes>>

\* DELETE /users/:id: the user exists ...
CheckDelete(v) == user.status = "active" /\ Begin(v, "delete")

\* ... and its row is anonymised, by one of the requests that saw it.
SoftDelete(v) ==
  /\ At(v, "delete")
  /\ user' = IF user.status = "active"
     THEN [status |-> "deleted", personal |-> FALSE]
     ELSE user
  /\ End(v)
  /\ UNCHANGED <<nonce, nonces, logins, together, changes>>

Next ==
  \/ CreateChallenge \/ ExpireChallenge
  \/ \E v \in Visit :
       \/ ReadChallenge(v) \/ TakeChallenge(v) \/ FindUser(v) \/ CreateUser(v)
       \/ Register(v) \/ InsertUser(v)
       \/ CheckUpdate(v) \/ UpdateUser(v) \/ CheckDelete(v) \/ SoftDelete(v)

-----------------------------------------------------------------------------
TypeOK ==
  /\ user \in [status : {"none", "active", "deleted"}, personal : BOOLEAN]
  /\ nonce \in 0..nonces /\ nonces \in 0..MaxNonces
  /\ visit \in [Visit -> [step : {"none", "take", "find", "create", "register", "update", "delete"},
                          nonce : 0..MaxNonces]]
  /\ logins \in [Nonce -> Nat] /\ together \in [Nonce -> Nat]
  /\ changes \in 0..MaxChanges

\* A challenge logs in once, or as often as requests had read it before the
\* first of them deleted it; one that has been used is not used again.
ChallengeUsedUp == \A n \in Nonce : logins[n] <= together[n]

\* A deleted account has no personal data, whatever update was under way.
DeletedIsAnonymous == user.status = "deleted" => ~user.personal
=============================================================================
