------------------------------ MODULE Sessions ------------------------------
(* Refresh tokens and password resets of one user. A refresh reads the rows  *)
(* of the user's tokens, marks the one the presented token matches as        *)
(* revoked and inserts its successor; logins, logouts and password resets    *)
(* insert and revoke rows between these statements.                          *)
(*                                                                           *)
(* bcrypt reads 72 bytes of a token. They hold the JWT header and the start  *)
(* of the wallet address, the same for all tokens of the user, so that a     *)
(* token always matches the first row of the query: the newest.              *)
(*                                                                           *)
(* The callers are those of tokenService's interface, which give it a user   *)
(* with a wallet address. Tokens do not expire here.                         *)
EXTENDS Integers, Sequences, FiniteSets

CONSTANTS Call,      \* requests that may run at the same time
          MaxTokens, \* bound on refresh tokens
          MaxResets  \* bound on reset tokens

SessionsAssumption == IsFiniteSet(Call) /\ MaxTokens \in Nat /\ MaxResets \in Nat

VARIABLES refresh_tokens, \* rows: family and whether revoked, oldest first
          is_deleted,
          reset_tokens,   \* password_reset_tokens: which are used
          request,        \* the step of each request, and what it has read
          logins,         \* history: logins stored since all tokens were revoked
          raced,          \* history: successors inserted since then by refreshes whose
                          \* row another request had revoked as well
          missed,         \* history: a rotation accepted a token that had been revoked
          resets          \* history: per reset token, the most requests that held it
                          \* validated at once, and how often it set the password

sessionVars == <<refresh_tokens, is_deleted, reset_tokens, request, logins, raced, missed, resets>>

Free == [step |-> "none", row |-> 0, raced |-> FALSE, logout |-> FALSE]

Init ==
  /\ refresh_tokens = <<>> /\ is_deleted = FALSE
  /\ reset_tokens = <<>>
  /\ request = [c \in Call |-> Free]
  /\ logins = 0 /\ raced = 0 /\ missed = FALSE
  /\ resets = [n \in 1..MaxResets |-> [held |-> 0, set |-> 0]]

At(c, step) == request[c].step = step
GoTo(c, step) == request' = [request EXCEPT ![c].step = step]
End(c) == request' = [request EXCEPT ![c] = Free]

Rows == DOMAIN refresh_tokens
Active == {i \in Rows : ~refresh_tokens[i].revoked}
Revoke(rows) == [i \in Rows |-> [family |-> refresh_tokens[i].family,
                                 revoked |-> refresh_tokens[i].revoked \/ i \in rows]]

\* Requests that have revoked their row and not yet inserted the successor.
Marked(req, rows) == [c \in Call |->
  IF req[c].step = "issue" /\ refresh_tokens[req[c].row].family \in rows
  THEN [req[c] EXCEPT !.raced = TRUE] ELSE req[c]]

Families == {refresh_tokens[i].family : i \in Rows}

\* revokeAllDbRefreshTokens, the last step of a request.
RevokeAll(c) ==
  /\ refresh_tokens' = Revoke(Rows)
  /\ request' = Marked([request EXCEPT ![c] = Free], Families)
  /\ logins' = 0 /\ raced' = 0

-----------------------------------------------------------------------------
(* Logins, and accounts that are deleted.                                   *)

\* POST /auth/login has compared the password ...
Login(c) ==
  /\ request[c] = Free /\ ~is_deleted
  /\ GoTo(c, "login")
  /\ UNCHANGED <<refresh_tokens, is_deleted, reset_tokens, logins, raced, missed, resets>>

\* ... and issues a token of a new family.
IssueLogin(c) ==
  /\ At(c, "login") /\ Len(refresh_tokens) < MaxTokens
  /\ refresh_tokens' = Append(refresh_tokens, [family |-> Len(refresh_tokens) + 1, revoked |-> FALSE])
  /\ logins' = logins + 1
  /\ End(c)
  /\ UNCHANGED <<is_deleted, reset_tokens, raced, missed, resets>>

DeleteUser ==
  /\ ~is_deleted /\ is_deleted' = TRUE
  /\ UNCHANGED <<refresh_tokens, reset_tokens, request, logins, raced, missed, resets>>

-----------------------------------------------------------------------------
(* POST /auth/refresh, and the same rotation by POST /auth/logout, which    *)
(* revokes everything when it ends.                                         *)

\* rotateDbRefreshToken: the SELECT, and the row the presented token matches.
ReadTokens(c, logout, presented) ==
  /\ request[c] = Free /\ ~is_deleted
  /\ request' = [request EXCEPT ![c] =
       [step |-> IF refresh_tokens[Len(refresh_tokens)].revoked THEN "reuse" ELSE "revoke",
        row |-> Len(refresh_tokens), raced |-> FALSE, logout |-> logout]]
  /\ missed' = (missed \/ (refresh_tokens[presented].revoked /\ request'[c].step = "revoke"))
  /\ UNCHANGED <<refresh_tokens, is_deleted, reset_tokens, logins, raced, resets>>

\* The row had been revoked: its family is.
ReusedToken(c) ==
  /\ At(c, "reuse")
  /\ LET family == refresh_tokens[request[c].row].family
     IN  /\ refresh_tokens' = Revoke({i \in Rows : refresh_tokens[i].family = family})
         /\ request' = Marked([request EXCEPT ![c].step = "revoke_all"], {family})
  /\ UNCHANGED <<is_deleted, reset_tokens, logins, raced, missed, resets>>

\* Variant: the row is not revoked.
RevokeToken_Forgotten(c) ==
  /\ At(c, "revoke")
  /\ GoTo(c, "issue")
  /\ UNCHANGED <<refresh_tokens, is_deleted, reset_tokens, logins, raced, missed, resets>>

\* The row is revoked, perhaps not for the first time.
RevokeToken(c) ==
  /\ At(c, "revoke")
  /\ refresh_tokens' = Revoke({request[c].row})
  /\ request' = [request EXCEPT ![c] =
       [step |-> "issue", row |-> request[c].row,
        raced |-> refresh_tokens[request[c].row].revoked, logout |-> request[c].logout]]
  /\ UNCHANGED <<is_deleted, reset_tokens, logins, raced, missed, resets>>

\* Its successor, unless the user is gone.
IssueSuccessor(c) ==
  /\ At(c, "issue")
  /\ IF is_deleted THEN UNCHANGED <<refresh_tokens, raced>>
     ELSE /\ Len(refresh_tokens) < MaxTokens
          /\ refresh_tokens' = Append(refresh_tokens,
               [family |-> refresh_tokens[request[c].row].family, revoked |-> FALSE])
          /\ raced' = raced + IF request[c].raced THEN 1 ELSE 0
  /\ IF request[c].logout THEN GoTo(c, "revoke_all") ELSE End(c)
  /\ UNCHANGED <<is_deleted, reset_tokens, logins, missed, resets>>

\* The end of a logout, a reset or a reuse; POST /auth/logout-all does only this.
RevokeEverything(c) ==
  /\ At(c, "revoke_all") \/ (request[c] = Free /\ Active # {} /\ ~is_deleted)
  /\ RevokeAll(c)
  /\ UNCHANGED <<is_deleted, reset_tokens, missed, resets>>

-----------------------------------------------------------------------------
(* Password resets.                                                         *)

Usable == {n \in DOMAIN reset_tokens : ~reset_tokens[n]}
Holding(n) == Cardinality({c \in Call : request[c].step \in {"hash", "consume"} /\ request[c].row = n})

\* createResetToken: earlier tokens are used up ...
InvalidateResets(c) ==
  /\ request[c] = Free /\ ~is_deleted
  /\ reset_tokens' = [n \in DOMAIN reset_tokens |-> TRUE]
  /\ GoTo(c, "create_reset")
  /\ UNCHANGED <<refresh_tokens, is_deleted, logins, raced, missed, resets>>

\* ... and a new one is stored.
CreateReset(c) ==
  /\ At(c, "create_reset") /\ Len(reset_tokens) < MaxResets
  /\ reset_tokens' = Append(reset_tokens, FALSE)
  /\ End(c)
  /\ UNCHANGED <<refresh_tokens, is_deleted, logins, raced, missed, resets>>

\* POST /auth/reset-password: validateResetToken ...
ValidateReset(c, n) ==
  /\ request[c] = Free /\ n \in Usable
  /\ request' = [request EXCEPT ![c] = [step |-> "hash", row |-> n, raced |-> FALSE, logout |-> FALSE]]
  /\ resets' = [resets EXCEPT ![n].held = IF Holding(n) + 1 > @ THEN Holding(n) + 1 ELSE @]
  /\ UNCHANGED <<refresh_tokens, is_deleted, reset_tokens, logins, raced, missed>>

\* ... the password ...
SetPassword(c) ==
  /\ At(c, "hash")
  /\ resets' = [resets EXCEPT ![request[c].row].set = @ + 1]
  /\ GoTo(c, "consume")
  /\ UNCHANGED <<refresh_tokens, is_deleted, reset_tokens, logins, raced, missed>>

\* ... consumeResetToken, and then all sessions are revoked.
ConsumeReset(c) ==
  /\ At(c, "consume")
  /\ reset_tokens' = [reset_tokens EXCEPT ![request[c].row] = TRUE]
  /\ GoTo(c, "revoke_all")
  /\ UNCHANGED <<refresh_tokens, is_deleted, logins, raced, missed, resets>>

Next ==
  \/ DeleteUser
  \/ \E c \in Call :
       \/ Login(c) \/ IssueLogin(c)
       \/ \E logout \in BOOLEAN, presented \in Rows : ReadTokens(c, logout, presented)
       \/ ReusedToken(c) \/ RevokeToken(c) \/ IssueSuccessor(c) \/ RevokeEverything(c)
       \/ InvalidateResets(c) \/ CreateReset(c) \/ SetPassword(c) \/ ConsumeReset(c)
       \/ \E n \in Usable : ValidateReset(c, n)

-----------------------------------------------------------------------------
Token == [family : 1..MaxTokens, revoked : BOOLEAN]
Requests == [step : {"none", "login", "reuse", "revoke", "issue", "revoke_all",
                     "create_reset", "hash", "consume"},
             row : 0..(MaxTokens + MaxResets), raced : BOOLEAN, logout : BOOLEAN]

TypeOK ==
  /\ refresh_tokens \in Seq(Token) /\ Len(refresh_tokens) <= MaxTokens
  /\ is_deleted \in BOOLEAN
  /\ reset_tokens \in Seq(BOOLEAN) /\ Len(reset_tokens) <= MaxResets
  /\ request \in [Call -> Requests]
  /\ logins \in Nat /\ raced \in Nat /\ missed \in BOOLEAN
  /\ resets \in [1..MaxResets -> [held : Nat, set : Nat]]

\* A rotation replaces a token: since the last time all were revoked there are no
\* more active tokens than logins, and successors of rows that two revoked.
ActiveTokensBounded == Cardinality(Active) <= logins + raced

\* A reset token sets the password once, or as often as requests had validated it
\* before one of them consumed it.
ResetTokenUsedUp == \A n \in DOMAIN reset_tokens : resets[n].set <= resets[n].held

\* A token that was revoked is recognised as reused, not rotated.
ReuseDetected == ~missed
=============================================================================
