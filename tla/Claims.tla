------------------------------- MODULE Claims -------------------------------
(* What a user may have once but nothing in the database keeps from being    *)
(* given twice: claims of a drop, and the bonus for a referred user. Both    *)
(* are a chain of separate statements that reads what was given, decides,    *)
(* and writes. Requests run at the same time; a request may die between any  *)
(* two statements.                                                           *)
EXTENDS Integers, FiniteSets

CONSTANTS ClaimRequest,   \* requests for the drop, all of one user
          BonusRequest,   \* requests for the bonus of one referred user
          MaxClaims,      \* max_claims_per_user
          MinPoints,      \* criteria.minPoints
          BonusPoints,    \* REFERRAL_BONUS_POINTS
          MaxPoints       \* bound on what the user earns otherwise

ClaimsAssumption ==
  /\ IsFiniteSet(ClaimRequest) /\ IsFiniteSet(BonusRequest)
  /\ MaxClaims \in Nat \ {0} /\ MinPoints \in Nat /\ BonusPoints \in Nat \ {0}
  /\ MaxPoints \in Nat

VARIABLES expired,       \* expires_at is past
          earned,        \* points of the types the criteria count, bonuses aside
          listed,        \* the user's wallet is in the drop's Merkle tree
          claim,         \* the step of each claim request, and the count it read
          claims,        \* rows of drop_claims
          bonus,         \* the step of each bonus request
          bonuses,       \* rows of point_transactions with this referred_user_id
          bonus_claimed, \* users.referral_bonus_claimed
          together,      \* history: requests of each kind that were between
                         \* their check and their write at the same time, at most
          qualified      \* history: the user once met every condition of the drop

claimsVars == <<expired, earned, listed, claim, claims, bonus, bonuses, bonus_claimed,
                together, qualified>>

Checking == {"criteria", "count", "record"}
Between(request, steps) == Cardinality({r \in DOMAIN request : request[r] \in steps})

Most(m, n) == IF n > m THEN n ELSE m

Points == earned + BonusPoints * bonuses

Init ==
  /\ expired = FALSE /\ earned = 0 /\ listed \in BOOLEAN
  /\ claim = [r \in ClaimRequest |-> "idle"] /\ claims = 0
  /\ bonus = [r \in BonusRequest |-> "idle"] /\ bonuses = 0 /\ bonus_claimed = FALSE
  /\ together = [claims |-> 0, bonuses |-> 0] /\ qualified = FALSE

-----------------------------------------------------------------------------
(* The user and the clock.                                                  *)

Expire ==
  /\ ~expired /\ expired' = TRUE
  /\ UNCHANGED <<earned, listed, claim, claims, bonus, bonuses, bonus_claimed, together, qualified>>

Earn ==
  /\ earned < MaxPoints /\ earned' = earned + 1
  /\ qualified' = (qualified \/ (listed /\ ~expired /\ Points + 1 >= MinPoints))
  /\ UNCHANGED <<expired, listed, claim, claims, bonus, bonuses, bonus_claimed, together>>

-----------------------------------------------------------------------------
(* POST /drops/:id/claim. Whether the drop is active is not looked at.      *)

To(r, step) == claim' = [claim EXCEPT ![r] = step]

\* The drop is read, its expiry and the Merkle proof are checked.
StartClaim(r) ==
  /\ claim[r] = "idle" /\ ~expired /\ listed
  /\ To(r, "criteria")
  /\ qualified' = (qualified \/ Points >= MinPoints)
  /\ UNCHANGED <<expired, earned, listed, claims, bonus, bonuses, bonus_claimed, together>>

\* evaluateCriteria: the points the user has now.
EvaluateCriteria(r) ==
  /\ claim[r] = "criteria"
  /\ To(r, IF Points >= MinPoints THEN "count" ELSE "done")
  /\ qualified' = (qualified \/ Points >= MinPoints)
  /\ UNCHANGED <<expired, earned, listed, claims, bonus, bonuses, bonus_claimed, together>>

\* getClaimCount and the limit.
GetClaimCount(r) ==
  /\ claim[r] = "count"
  /\ To(r, IF claims < MaxClaims THEN "record" ELSE "done")
  /\ together' = [together EXCEPT !.claims = Most(@, Between(claim', {"record"}))]
  /\ UNCHANGED <<expired, earned, listed, claims, bonus, bonuses, bonus_claimed, qualified>>

RecordClaim(r) ==
  /\ claim[r] = "record"
  /\ claims' = claims + 1
  /\ To(r, "done")
  /\ UNCHANGED <<expired, earned, listed, bonus, bonuses, bonus_claimed, together, qualified>>

-----------------------------------------------------------------------------
(* processReferralBonus                                                     *)

BonusTo(r, step) == bonus' = [bonus EXCEPT ![r] = step]

\* Variant: the mark on the user is read instead of the point transactions.
CheckBonus_Mark(r) ==
  /\ bonus[r] = "idle"
  /\ BonusTo(r, IF bonus_claimed THEN "done" ELSE "users")
  /\ together' = [together EXCEPT !.bonuses = Most(@, Between(bonus', {"users", "pay"}))]
  /\ UNCHANGED <<expired, earned, listed, claim, claims, bonuses, bonus_claimed, qualified>>

\* hasReferralBonusBeenClaimed
CheckBonus(r) ==
  /\ bonus[r] = "idle"
  /\ BonusTo(r, IF bonuses > 0 THEN "done" ELSE "users")
  /\ together' = [together EXCEPT !.bonuses = Most(@, Between(bonus', {"users", "pay"}))]
  /\ UNCHANGED <<expired, earned, listed, claim, claims, bonuses, bonus_claimed, qualified>>

\* Both users are read, and that one referred the other.
CheckRelation(r) ==
  /\ bonus[r] = "users"
  /\ BonusTo(r, "pay")
  /\ UNCHANGED <<expired, earned, listed, claim, claims, bonuses, bonus_claimed, together, qualified>>

PayBonus(r) ==
  /\ bonus[r] = "pay"
  /\ bonuses' = bonuses + 1
  /\ BonusTo(r, "mark")
  /\ qualified' = (qualified \/ (listed /\ ~expired /\ Points + BonusPoints >= MinPoints))
  /\ UNCHANGED <<expired, earned, listed, claim, claims, bonus_claimed, together>>

MarkBonus(r) ==
  /\ bonus[r] = "mark"
  /\ bonus_claimed' = TRUE
  /\ BonusTo(r, "done")
  /\ UNCHANGED <<expired, earned, listed, claim, claims, bonuses, together, qualified>>

-----------------------------------------------------------------------------
\* A request ends where it is: its server stops or a statement fails. The
\* user may send it again.
Abandon ==
  /\ \/ \E r \in ClaimRequest : claim[r] # "idle" /\ To(r, "idle") /\ UNCHANGED bonus
     \/ \E r \in BonusRequest : bonus[r] # "idle" /\ BonusTo(r, "idle") /\ UNCHANGED claim
  /\ UNCHANGED <<expired, earned, listed, claims, bonuses, bonus_claimed, together, qualified>>

Next ==
  \/ Expire \/ Earn \/ Abandon
  \/ \E r \in ClaimRequest :
       StartClaim(r) \/ EvaluateCriteria(r) \/ GetClaimCount(r) \/ RecordClaim(r)
  \/ \E r \in BonusRequest :
       CheckBonus(r) \/ CheckRelation(r) \/ PayBonus(r) \/ MarkBonus(r)

-----------------------------------------------------------------------------
TypeOK ==
  /\ expired \in BOOLEAN /\ earned \in 0..MaxPoints /\ listed \in BOOLEAN
  /\ claim \in [ClaimRequest -> Checking \cup {"idle", "done"}]
  /\ claims \in Nat /\ bonuses \in Nat
  /\ bonus \in [BonusRequest -> {"idle", "users", "pay", "mark", "done"}]
  /\ bonus_claimed \in BOOLEAN /\ qualified \in BOOLEAN
  /\ together \in [claims : 0..Cardinality(ClaimRequest), bonuses : 0..Cardinality(BonusRequest)]

\* The limit is exceeded by no more than the requests that were past its check
\* together, less the one that is allowed: with none at once it is kept.
ClaimsWithinLimit == claims <= MaxClaims + Most(0, together.claims - 1)

\* The bonus is paid at most as often as requests were past its check together.
BonusOncePerRace == bonuses <= together.bonuses

\* Nobody has claimed who never was on the list with the points and in time.
ClaimsQualified == claims > 0 => qualified

\* A user marked as done has been paid for.
MarkedMeansPaid == bonus_claimed => bonuses > 0
=============================================================================
