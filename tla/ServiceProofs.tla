---------------------------- MODULE ServiceProofs ----------------------------
(***************************************************************************)
(* What holds of the services for every value of their constants: of each  *)
(* component the inductive invariant with its lemmas, then their           *)
(* composition and what the runs check of it.                              *)
(***************************************************************************)
EXTENDS Services, TotalTheorems

----
(* Accounts *)

\* Finite sets and their sizes are the library's.
LEMMA AccSizes ==
  /\ \A S : Acc!IsFiniteSet(S) <=> IsFiniteSet(S)
  /\ \A S : Acc!Cardinality(S) = Cardinality(S)
BY Zenon DEF Acc!IsFiniteSet, Acc!Cardinality, IsFiniteSet, Cardinality

\* The logins under way that have read challenge n, and those that still hold it.
ChallengeHolders(n) == {v \in AccountVisit : visit[v].step \in {"take", "find", "create"} /\ visit[v].nonce = n}
ChallengeReaders(n) == {v \in AccountVisit : Acc!At(v, "take") /\ visit[v].nonce = n}

\* A challenge that is in Redis was not deleted by anyone, so that all its logins are
\* counted among its readers; a later one has no reader yet.
ChallengeAccounted(n) ==
  /\ account_logins[n] + Acc!Cardinality(ChallengeHolders(n)) <= together[n]
  /\ nonce = n => account_logins[n] = 0 /\ ChallengeHolders(n) = ChallengeReaders(n)
  /\ n > nonces => account_logins[n] = 0 /\ ChallengeHolders(n) = {}

\* A request under way, and a row of users.
VisitState == [step : {"none", "take", "find", "create", "register", "update", "delete"}, nonce : 0..AccountNonces]
UserState == [status : {"none", "active", "deleted"}, personal : BOOLEAN]

AccountsInv == Acc!TypeOK /\ Acc!DeletedIsAnonymous /\ \A n \in Acc!Nonce : ChallengeAccounted(n)

LEMMA HoldingFinite ==
  ASSUME Acc!AccountsAssumption, NEW n
  PROVE  /\ Acc!IsFiniteSet(ChallengeHolders(n)) /\ Acc!Cardinality(ChallengeHolders(n)) \in Nat
         /\ Acc!IsFiniteSet(ChallengeReaders(n)) /\ Acc!Cardinality(ChallengeReaders(n)) \in Nat
         /\ Acc!Reading(n) = Acc!Cardinality(ChallengeReaders(n))
<1>1. ChallengeHolders(n) \subseteq AccountVisit /\ ChallengeReaders(n) \subseteq AccountVisit
  BY DEF ChallengeHolders, ChallengeReaders
<1>2. Acc!IsFiniteSet(ChallengeHolders(n)) /\ Acc!IsFiniteSet(ChallengeReaders(n))
  BY <1>1, FS_Subset, AccSizes DEF Acc!AccountsAssumption
<1>3. QED
  BY <1>2, FS_CardinalityType, AccSizes DEF Acc!Reading, ChallengeReaders

LEMMA AccountsInit ==
  ASSUME Acc!AccountsAssumption, Acc!Init
  PROVE  AccountsInv
<1>1. /\ 0 \in 0..AccountNonces /\ 0 \in 0..0 /\ 0 \in 0..AccountChanges /\ 0 \in Nat
      /\ \A n \in Acc!Nonce : n # 0
  BY DEF Acc!AccountsAssumption, Acc!Nonce
<1>2. visit \in [AccountVisit -> VisitState]
  BY <1>1 DEF Acc!Init, Acc!Quiet, VisitState
<1>3. Acc!TypeOK /\ Acc!DeletedIsAnonymous
  BY <1>1, <1>2 DEF VisitState, Acc!Init, Acc!TypeOK, Acc!DeletedIsAnonymous, Acc!NoUser, Acc!Quiet
<1>4. ASSUME NEW n \in Acc!Nonce PROVE ChallengeAccounted(n)
  <2>1. ChallengeHolders(n) = {} /\ ChallengeReaders(n) = {}
    BY DEF Acc!Init, ChallengeHolders, ChallengeReaders, Acc!Quiet, Acc!At
  <2>2. Acc!Cardinality(ChallengeHolders(n)) = 0
    BY <2>1, FS_EmptySet, AccSizes
  <2>3. QED
    BY <1>1, <2>1, <2>2 DEF Acc!Init, ChallengeAccounted
<1>5. QED
  BY <1>3, <1>4 DEF AccountsInv

\* A step that adds no holder to a challenge, gives it no more logins than it takes
\* holders from it, and leaves its readers where they are keeps its account.
LEMMA FewerHolders ==
  ASSUME Acc!AccountsAssumption, NEW n \in Acc!Nonce, ChallengeAccounted(n), Acc!TypeOK,
         account_logins' = account_logins, together' = together,
         nonce' \in {0, nonce}, nonces' = nonces,
         ChallengeHolders(n)' \subseteq ChallengeHolders(n),
         nonce' = n => ChallengeHolders(n)' = ChallengeReaders(n)'
  PROVE  ChallengeAccounted(n)'
<1>1. Acc!Cardinality(ChallengeHolders(n)') <= Acc!Cardinality(ChallengeHolders(n)) /\ Acc!Cardinality(ChallengeHolders(n)') \in Nat
  BY HoldingFinite, FS_Subset, FS_CardinalityType, AccSizes
<1>2. account_logins[n] \in Nat /\ together[n] \in Nat /\ n # 0 /\ Acc!Cardinality(ChallengeHolders(n)) \in Nat
  BY HoldingFinite DEF Acc!TypeOK, Acc!Nonce
<1>3. QED
  BY <1>1, <1>2 DEF ChallengeAccounted

\* One login ends: its holder is one login of its challenge.
LEMMA LoginEnds ==
  ASSUME Acc!AccountsAssumption, AccountsInv, NEW v \in AccountVisit,
         visit[v].step \in {"find", "create"}, visit' = [visit EXCEPT ![v] = Acc!Quiet],
         account_logins' = [account_logins EXCEPT ![visit[v].nonce] = @ + 1],
         UNCHANGED <<nonce, nonces, together>>
  PROVE  \A n \in Acc!Nonce : ChallengeAccounted(n)'
<1> USE DEF VisitState, UserState
<1>1. /\ visit \in [AccountVisit -> VisitState]
      /\ account_logins \in [Acc!Nonce -> Nat] /\ together \in [Acc!Nonce -> Nat]
  BY DEF AccountsInv, Acc!TypeOK
<1>2. /\ visit'[v].step = "none"
      /\ \A w \in AccountVisit : w # v => visit'[w] = visit[w]
  BY <1>1 DEF Acc!Quiet
<1>3. ASSUME NEW n \in Acc!Nonce PROVE ChallengeAccounted(n)'
  <2>1. /\ ChallengeAccounted(n) /\ Acc!IsFiniteSet(ChallengeHolders(n)) /\ Acc!Cardinality(ChallengeHolders(n)) \in Nat
        /\ account_logins[n] \in Nat /\ together[n] \in Nat
    BY <1>1, HoldingFinite DEF AccountsInv
  <2>2. CASE visit[v].nonce = n
    <3>1. v \in ChallengeHolders(n) /\ v \notin ChallengeReaders(n) /\ ChallengeHolders(n)' = ChallengeHolders(n) \ {v}
      BY <1>1, <1>2, <2>2 DEF ChallengeHolders, ChallengeReaders, Acc!At
    <3>2. Acc!Cardinality(ChallengeHolders(n)') = Acc!Cardinality(ChallengeHolders(n)) - 1
      BY <2>1, <3>1, FS_RemoveElement, AccSizes, ZenonT(40)
    <3>3. account_logins'[n] = account_logins[n] + 1
      BY <1>1, <2>2
    <3>4. nonce # n /\ ~(n > nonces)
      BY <2>1, <3>1 DEF ChallengeAccounted
    <3>5. QED
      BY <2>1, <3>2, <3>3, <3>4 DEF ChallengeAccounted
  <2>3. CASE visit[v].nonce # n
    <3>1. ChallengeHolders(n)' = ChallengeHolders(n) /\ ChallengeReaders(n)' = ChallengeReaders(n) /\ account_logins'[n] = account_logins[n]
      BY <1>1, <1>2, <2>3 DEF ChallengeHolders, ChallengeReaders, Acc!At
    <3>2. QED
      BY <2>1, <3>1 DEF ChallengeAccounted
  <2>4. QED
    BY <2>2, <2>3
<1>4. QED
  BY <1>3

\* A challenge is made: nobody has read it, and nobody reads the one it replaces any more.
LEMMA ChallengeCreated ==
  ASSUME Acc!AccountsAssumption, AccountsInv, Acc!CreateChallenge
  PROVE  \A n \in Acc!Nonce : ChallengeAccounted(n)'
<1>1. /\ nonces \in Nat /\ nonces' = nonces + 1 /\ nonce' = nonces + 1
      /\ visit' = visit /\ account_logins' = account_logins /\ together' = together
  BY DEF Acc!CreateChallenge, AccountsInv, Acc!TypeOK, Acc!AccountsAssumption
<1>2. ASSUME NEW n \in Acc!Nonce PROVE ChallengeAccounted(n)'
  <2>1. ChallengeAccounted(n) /\ ChallengeHolders(n)' = ChallengeHolders(n) /\ ChallengeReaders(n)' = ChallengeReaders(n) /\ n \in Nat
    BY <1>1 DEF AccountsInv, ChallengeHolders, ChallengeReaders, Acc!At, Acc!Nonce
  <2>2. ChallengeReaders(n) \subseteq ChallengeHolders(n)
    BY DEF ChallengeReaders, ChallengeHolders, Acc!At
  <2>3. QED
    BY <1>1, <2>1, <2>2 DEF ChallengeAccounted
<1>3. QED
  BY <1>2

\* One more request reads the challenge, and is counted with those that hold it.
LEMMA ChallengeRead ==
  ASSUME Acc!AccountsAssumption, AccountsInv, NEW v \in AccountVisit, Acc!ReadChallenge(v)
  PROVE  Acc!TypeOK' /\ \A n \in Acc!Nonce : ChallengeAccounted(n)'
<1> USE DEF VisitState, UserState
<1>1. /\ visit \in [AccountVisit -> VisitState]
      /\ account_logins \in [Acc!Nonce -> Nat] /\ together \in [Acc!Nonce -> Nat]
      /\ nonce \in 0..nonces /\ nonces \in 0..AccountNonces /\ AccountNonces \in Nat
  BY DEF AccountsInv, Acc!TypeOK, Acc!AccountsAssumption
<1>2. /\ visit[v].step = "none" /\ nonce \in Acc!Nonce
      /\ visit' = [visit EXCEPT ![v] = [step |-> "take", nonce |-> nonce]]
      /\ UNCHANGED <<user, nonce, nonces, account_logins, account_changes>>
  BY <1>1 DEF Acc!ReadChallenge, Acc!Quiet, Acc!Nonce
<1>3. /\ together' = [together EXCEPT ![nonce] =
            IF Acc!Reading(nonce) + 1 > together[nonce] THEN Acc!Reading(nonce) + 1 ELSE together[nonce]]
      /\ Acc!Reading(nonce) \in Nat /\ Acc!Reading(nonce) = Acc!Cardinality(ChallengeReaders(nonce))
  BY HoldingFinite DEF Acc!ReadChallenge
<1>4. together' \in [Acc!Nonce -> Nat] /\ together'[nonce] >= Acc!Reading(nonce) + 1
  BY <1>1, <1>2, <1>3
<1>5. visit' \in [AccountVisit -> VisitState]
  <2>1. [step |-> "take", nonce |-> nonce] \in VisitState
    BY <1>1
  <2>2. QED
    BY <1>1, <1>2, <2>1
<1>6. Acc!TypeOK'
  BY <1>2, <1>4, <1>5 DEF AccountsInv, Acc!TypeOK
<1>7. /\ visit'[v] = [step |-> "take", nonce |-> nonce]
      /\ \A w \in AccountVisit : w # v => visit'[w] = visit[w]
  BY <1>1, <1>2
<1>8. ASSUME NEW n \in Acc!Nonce PROVE ChallengeAccounted(n)'
  <2>1. ChallengeAccounted(n) /\ Acc!IsFiniteSet(ChallengeHolders(n))
    BY HoldingFinite DEF AccountsInv
  <2>2. CASE n = nonce
    <3>1. /\ ChallengeHolders(n)' = ChallengeHolders(n) \cup {v} /\ v \notin ChallengeHolders(n)
          /\ ChallengeReaders(n)' = ChallengeReaders(n) \cup {v}
      BY <1>2, <1>7, <2>2 DEF ChallengeHolders, ChallengeReaders, Acc!At
    <3>2. Acc!Cardinality(ChallengeHolders(n)') = Acc!Cardinality(ChallengeHolders(n)) + 1
      BY <2>1, <3>1, FS_AddElement, AccSizes
    <3>3. account_logins[n] = 0 /\ ChallengeHolders(n) = ChallengeReaders(n)
      BY <2>1, <2>2 DEF ChallengeAccounted
    <3>4. ~(n > nonces)
      BY <1>1, <2>2
    <3>5. QED
      BY <1>2, <1>3, <1>4, <2>2, <3>1, <3>2, <3>3, <3>4 DEF ChallengeAccounted
  <2>3. CASE n # nonce
    <3>1. ChallengeHolders(n)' = ChallengeHolders(n) /\ ChallengeReaders(n)' = ChallengeReaders(n) /\ together'[n] = together[n]
      BY <1>1, <1>2, <1>3, <1>7, <2>3 DEF ChallengeHolders, ChallengeReaders, Acc!At
    <3>2. QED
      BY <1>2, <2>1, <3>1 DEF ChallengeAccounted
  <2>4. QED
    BY <2>2, <2>3
<1>9. QED
  BY <1>6, <1>8

\* The steps of a login after it has read its challenge.
LEMMA LoginSteps ==
  ASSUME Acc!AccountsAssumption, AccountsInv, NEW v \in AccountVisit,
         Acc!TakeChallenge(v) \/ Acc!FindUser(v) \/ Acc!CreateUser(v)
  PROVE  Acc!TypeOK' /\ \A n \in Acc!Nonce : ChallengeAccounted(n)'
<1> USE DEF VisitState, UserState
<1>1. /\ visit \in [AccountVisit -> VisitState]
      /\ account_logins \in [Acc!Nonce -> Nat] /\ together \in [Acc!Nonce -> Nat]
      /\ nonce \in 0..nonces /\ nonces \in 0..AccountNonces /\ AccountNonces \in Nat
      /\ user \in UserState
      /\ \A n \in Acc!Nonce : n \in Nat /\ n # 0
  BY DEF AccountsInv, Acc!TypeOK, Acc!AccountsAssumption, Acc!Nonce
<1>2. ASSUME NEW to \in {"none", "find", "create"}
      PROVE  /\ [visit EXCEPT ![v].step = to] \in [AccountVisit -> VisitState]
             /\ [visit EXCEPT ![v] = Acc!Quiet] \in [AccountVisit -> VisitState]
  BY <1>1, <1>2 DEF Acc!Quiet
<1>3. visit' \in [AccountVisit -> VisitState]
  BY <1>2 DEF Acc!TakeChallenge, Acc!FindUser, Acc!CreateUser, Acc!GoTo, Acc!End
<1>4. /\ nonce' \in 0..nonces /\ account_logins' \in [Acc!Nonce -> Nat]
      /\ UNCHANGED <<nonces, together, account_changes>>
  BY <1>1 DEF Acc!TakeChallenge, Acc!FindUser, Acc!CreateUser
<1>5. user' \in UserState
  <2>1. [status |-> "active", personal |-> TRUE] \in UserState
    OBVIOUS
  <2>2. [user EXCEPT !.status = "active"] \in UserState
    BY <1>1
  <2>3. \/ user' = user \/ user' = [status |-> "active", personal |-> TRUE]
        \/ user' = [user EXCEPT !.status = "active"]
    BY DEF Acc!TakeChallenge, Acc!FindUser, Acc!CreateUser
  <2>4. QED
    BY <1>1, <2>1, <2>2, <2>3
<1>6. Acc!TypeOK'
  BY <1>1, <1>3, <1>4, <1>5 DEF AccountsInv, Acc!TypeOK
<1>7. CASE Acc!TakeChallenge(v)
  <2>1. /\ nonce' = 0 /\ nonces' = nonces /\ account_logins' = account_logins /\ together' = together
        /\ visit[v].step = "take"
        /\ visit' = [visit EXCEPT ![v].step = "find"] \/ visit' = [visit EXCEPT ![v] = Acc!Quiet]
    BY <1>7 DEF Acc!TakeChallenge, Acc!GoTo, Acc!End, Acc!At
  <2>2. \A n \in Acc!Nonce : ChallengeHolders(n)' \subseteq ChallengeHolders(n)
    BY <1>1, <2>1 DEF ChallengeHolders, Acc!Quiet
  <2>3. QED
    BY <1>1, <1>6, <2>1, <2>2, FewerHolders DEF AccountsInv
<1>8. CASE Acc!CreateUser(v)
  BY <1>6, <1>8, LoginEnds DEF Acc!CreateUser, Acc!At, Acc!End
<1>9. CASE Acc!FindUser(v)
  <2>1. CASE user.status = "active"
    BY <1>6, <1>9, <2>1, LoginEnds DEF Acc!FindUser, Acc!At, Acc!End
  <2>2. CASE user.status # "active"
    <3>1. /\ visit[v].step = "find" /\ visit' = [visit EXCEPT ![v].step = "create"]
          /\ UNCHANGED <<nonce, nonces, account_logins, together>>
      BY <1>9, <2>2 DEF Acc!FindUser, Acc!At, Acc!GoTo
    <3>2. \A n \in Acc!Nonce : ChallengeHolders(n)' = ChallengeHolders(n) /\ ChallengeReaders(n)' = ChallengeReaders(n)
      BY <1>1, <3>1 DEF ChallengeHolders, ChallengeReaders, Acc!At
    <3>3. QED
      BY <1>6, <3>1, <3>2 DEF AccountsInv, ChallengeAccounted
  <2>3. QED
    BY <2>1, <2>2
<1>10. QED
  BY <1>7, <1>8, <1>9

\* Registration, profile and deletion.
LEMMA AccountSteps ==
  ASSUME Acc!AccountsAssumption, AccountsInv, NEW v \in AccountVisit,
         \/ Acc!Register(v) \/ Acc!InsertUser(v) \/ Acc!CheckUpdate(v) \/ Acc!UpdateUser(v)
         \/ Acc!CheckDelete(v) \/ Acc!SoftDelete(v)
  PROVE  Acc!TypeOK' /\ \A n \in Acc!Nonce : ChallengeAccounted(n)'
<1> USE DEF VisitState, UserState
<1> DEFINE Others == {"none", "register", "update", "delete"}
<1>1. /\ visit \in [AccountVisit -> VisitState]
      /\ user \in UserState
      /\ account_changes \in 0..AccountChanges /\ AccountChanges \in Nat /\ AccountNonces \in Nat
  BY DEF AccountsInv, Acc!TypeOK, Acc!AccountsAssumption
<1>2. UNCHANGED <<nonce, nonces, account_logins, together>>
  BY DEF Acc!Register, Acc!InsertUser, Acc!CheckUpdate, Acc!UpdateUser, Acc!CheckDelete,
     Acc!SoftDelete, Acc!Begin
<1>3. /\ user' \in UserState
      /\ account_changes' \in 0..AccountChanges
  <2>1. /\ [status |-> "active", personal |-> FALSE] \in UserState
        /\ [status |-> "deleted", personal |-> FALSE] \in UserState
    OBVIOUS
  <2>2. [user EXCEPT !.personal = TRUE] \in UserState
    BY <1>1
  <2>3. \/ user' = user \/ user' = [status |-> "active", personal |-> FALSE]
        \/ user' = [status |-> "deleted", personal |-> FALSE]
        \/ user' = [user EXCEPT !.personal = TRUE]
    BY DEF Acc!Register, Acc!InsertUser, Acc!CheckUpdate, Acc!UpdateUser, Acc!CheckDelete, Acc!SoftDelete, Acc!Begin
  <2>4. account_changes' = account_changes \/ (account_changes < AccountChanges /\ account_changes' = account_changes + 1)
    BY DEF Acc!Register, Acc!InsertUser, Acc!CheckUpdate, Acc!UpdateUser, Acc!CheckDelete, Acc!SoftDelete, Acc!Begin
  <2>5. account_changes' \in 0..AccountChanges
    BY <1>1, <2>4
  <2>6. QED
    BY <1>1, <2>1, <2>2, <2>3, <2>5
<1>4. /\ visit[v].step \in Others
      /\ \/ visit' = [visit EXCEPT ![v] = Acc!Quiet]
         \/ \E to \in Others : visit' = [visit EXCEPT ![v].step = to]
  BY DEF Acc!Register, Acc!InsertUser, Acc!CheckUpdate, Acc!UpdateUser, Acc!CheckDelete,
     Acc!SoftDelete, Acc!Begin, Acc!GoTo, Acc!End, Acc!At, Acc!Quiet
<1>5. visit' \in [AccountVisit -> VisitState]
  BY <1>1, <1>4 DEF Acc!Quiet
<1>6. \A n \in Acc!Nonce : ChallengeHolders(n)' = ChallengeHolders(n) /\ ChallengeReaders(n)' = ChallengeReaders(n)
  BY <1>1, <1>4 DEF ChallengeHolders, ChallengeReaders, Acc!At, Acc!Quiet
<1>7. \A n \in Acc!Nonce : ChallengeAccounted(n)'
  BY <1>2, <1>6 DEF AccountsInv, ChallengeAccounted
<1>8. QED
  BY <1>2, <1>3, <1>5, <1>7 DEF AccountsInv, Acc!TypeOK

LEMMA AccountsStep ==
  ASSUME Acc!AccountsAssumption, AccountsInv, [Acc!Next]_accountVars
  PROVE  AccountsInv'
<1>1. CASE UNCHANGED accountVars
  <2>1. /\ user' = user /\ nonce' = nonce /\ nonces' = nonces /\ visit' = visit
        /\ account_logins' = account_logins /\ together' = together /\ account_changes' = account_changes
    BY <1>1 DEF accountVars
  <2>2. Acc!TypeOK' /\ Acc!DeletedIsAnonymous'
    BY <2>1 DEF AccountsInv, Acc!TypeOK, Acc!DeletedIsAnonymous
  <2>3. \A n \in Acc!Nonce : ChallengeHolders(n)' = ChallengeHolders(n) /\ ChallengeReaders(n)' = ChallengeReaders(n)
    BY <2>1 DEF ChallengeHolders, ChallengeReaders, Acc!At
  <2>4. \A n \in Acc!Nonce : ChallengeAccounted(n)'
    BY <2>1, <2>3 DEF AccountsInv, ChallengeAccounted
  <2>5. QED
    BY <2>2, <2>4 DEF AccountsInv
<1>2. CASE Acc!Next
  <2>1. Acc!DeletedIsAnonymous'
    BY <1>2 DEF AccountsInv, Acc!TypeOK, Acc!DeletedIsAnonymous, Acc!Next, Acc!CreateChallenge,
       Acc!ExpireChallenge, Acc!ReadChallenge,
                Acc!TakeChallenge, Acc!FindUser, Acc!CreateUser, Acc!Register, Acc!InsertUser, Acc!CheckUpdate, Acc!UpdateUser,
                Acc!CheckDelete, Acc!SoftDelete, Acc!Begin
  <2>2. CASE Acc!CreateChallenge
    <3>1. Acc!TypeOK'
      BY <2>2 DEF Acc!CreateChallenge, AccountsInv, Acc!TypeOK, Acc!AccountsAssumption
    <3>2. QED
      BY <2>1, <2>2, <3>1, ChallengeCreated DEF AccountsInv
  <2>3. CASE Acc!ExpireChallenge
    <3>1. Acc!TypeOK' /\ nonce' = 0
      BY <2>3 DEF Acc!ExpireChallenge, AccountsInv, Acc!TypeOK, Acc!AccountsAssumption
    <3>2. \A n \in Acc!Nonce : ChallengeHolders(n)' = ChallengeHolders(n) /\ n # 0
      BY <2>3 DEF Acc!ExpireChallenge, ChallengeHolders, Acc!Nonce
    <3>3. QED
      BY <2>1, <2>3, <3>1, <3>2, FewerHolders DEF AccountsInv, Acc!ExpireChallenge
  <2>4. QED
    BY <1>2, <2>1, <2>2, <2>3, ChallengeRead, LoginSteps, AccountSteps DEF Acc!Next, AccountsInv
<1>3. QED
  BY <1>1, <1>2

LEMMA AccountsHold ==
  ASSUME Acc!AccountsAssumption, AccountsInv
  PROVE  Acc!TypeOK /\ Acc!ChallengeUsedUp /\ Acc!DeletedIsAnonymous
<1>1. ASSUME NEW n \in Acc!Nonce PROVE account_logins[n] <= together[n]
  BY HoldingFinite DEF AccountsInv, ChallengeAccounted, Acc!TypeOK
<1>2. QED
  BY <1>1 DEF AccountsInv, Acc!ChallengeUsedUp

----
(* Sessions *)

\* Finite sets and their sizes are the library's.
LEMMA SesSizes ==
  /\ \A S : Ses!IsFiniteSet(S) <=> IsFiniteSet(S)
  /\ \A S : Ses!Cardinality(S) = Cardinality(S)
BY Zenon DEF Ses!IsFiniteSet, Ses!Cardinality, IsFiniteSet, Cardinality

\* The requests that have revoked a row alone and are to insert its successor.
Successors == {c \in SessionCall : request[c].step = "issue" /\ ~request[c].raced}

\* The requests that hold reset token n validated, and those that have not set the
\* password with it yet.
Holders(n) == {c \in SessionCall : request[c].step \in {"hash", "consume"} /\ request[c].row = n}
Hashing(n) == {c \in SessionCall : request[c].step = "hash" /\ request[c].row = n}

\* The inductive invariant: rows that were read are still there, ...
TokensKnown ==
  \A c \in SessionCall :
    /\ request[c].step \in {"reuse", "revoke", "issue"} => request[c].row \in 1..Len(refresh_tokens)
    /\ request[c].step \in {"hash", "consume"} => request[c].row \in 1..Len(reset_tokens)

\* ... a token is active or its successor is on its way, ...
TokensAccounted == Ses!Cardinality(Ses!Active) + Ses!Cardinality(Successors) <= session_logins + raced

\* ... and as long as a reset token is not used up, everyone who set the password with
\* it still holds it.
ResetAccounted(n) ==
  /\ resets[n].set + Ses!Cardinality(Hashing(n)) <= resets[n].held
  /\ n \in Ses!Usable => resets[n].set + Ses!Cardinality(Hashing(n)) = Ses!Cardinality(Holders(n))
  /\ n > Len(reset_tokens) => resets[n].set = 0 /\ Holders(n) = {}

SessionsInv ==
  Ses!TypeOK /\ TokensKnown /\ TokensAccounted /\ \A n \in 1..SessionResets : ResetAccounted(n)

LEMMA SessionsCounted ==
  ASSUME Ses!SessionsAssumption, Ses!TypeOK
  PROVE  /\ Ses!IsFiniteSet(Ses!Active) /\ Ses!Cardinality(Ses!Active) \in Nat /\ Ses!Active \subseteq 1..Len(refresh_tokens)
         /\ Ses!IsFiniteSet(Successors) /\ Ses!Cardinality(Successors) \in Nat
         /\ Len(refresh_tokens) \in Nat /\ Len(reset_tokens) \in Nat
<1>1. /\ Len(refresh_tokens) \in Nat /\ Len(reset_tokens) \in Nat
      /\ DOMAIN refresh_tokens = 1..Len(refresh_tokens)
  BY DEF Ses!TypeOK
<1>2. Ses!Active \subseteq 1..Len(refresh_tokens) /\ Successors \subseteq SessionCall
  BY <1>1 DEF Ses!Active, Ses!Rows, Successors
<1>3. Ses!IsFiniteSet(1..Len(refresh_tokens))
  BY <1>1, FS_Interval, SesSizes
<1>4. QED
  BY <1>1, <1>2, <1>3, FS_Subset, FS_CardinalityType, SesSizes DEF Ses!SessionsAssumption

LEMMA HoldersCounted ==
  ASSUME Ses!SessionsAssumption, NEW n
  PROVE  /\ Holders(n) \subseteq SessionCall /\ Hashing(n) \subseteq Holders(n)
         /\ Ses!Cardinality(Holders(n)) \in Nat /\ Ses!Cardinality(Hashing(n)) \in Nat
         /\ Ses!Cardinality(Hashing(n)) <= Ses!Cardinality(Holders(n))
         /\ \A c \in SessionCall \ Holders(n) : Ses!Cardinality(Holders(n) \cup {c}) = Ses!Cardinality(Holders(n)) + 1
         /\ \A c \in SessionCall \ Hashing(n) : Ses!Cardinality(Hashing(n) \cup {c}) = Ses!Cardinality(Hashing(n)) + 1
         /\ \A c \in Hashing(n) : Ses!Cardinality(Hashing(n)) = Ses!Cardinality(Hashing(n) \ {c}) + 1
         /\ Ses!Holding(n) = Ses!Cardinality(Holders(n))
<1>1. Holders(n) \subseteq SessionCall /\ Hashing(n) \subseteq Holders(n) /\ Hashing(n) \subseteq SessionCall
  BY DEF Holders, Hashing
<1>2. Ses!IsFiniteSet(SessionCall) /\ Ses!IsFiniteSet(Holders(n)) /\ Ses!IsFiniteSet(Hashing(n))
  BY <1>1, FS_Subset, SesSizes DEF Ses!SessionsAssumption
<1>3. /\ Ses!Cardinality(Holders(n)) \in Nat
      /\ \A c \in SessionCall \ Holders(n) : Ses!Cardinality(Holders(n) \cup {c}) = Ses!Cardinality(Holders(n)) + 1
  BY <1>1, <1>2, PartCounted, SesSizes
<1>4. /\ Ses!Cardinality(Hashing(n)) \in Nat
      /\ \A c \in SessionCall \ Hashing(n) : Ses!Cardinality(Hashing(n) \cup {c}) = Ses!Cardinality(Hashing(n)) + 1
      /\ \A c \in Hashing(n) : Ses!Cardinality(Hashing(n)) = Ses!Cardinality(Hashing(n) \ {c}) + 1
  BY <1>1, <1>2, PartCounted, SesSizes
<1>5. Ses!Cardinality(Hashing(n)) <= Ses!Cardinality(Holders(n))
  BY <1>1, <1>2, FS_Subset, SesSizes
<1>6. Ses!Holding(n) = Ses!Cardinality(Holders(n))
  BY DEF Ses!Holding, Holders
<1>7. QED
  BY <1>1, <1>3, <1>4, <1>5, <1>6

\* A request that is free is at no step.
LEMMA FreeStep == ASSUME NEW c \in SessionCall, request[c] = Ses!Free PROVE request[c].step = "none"
<1>1. Ses!Free.step = "none"
  BY DEF Ses!Free
<1>2. QED
  BY <1>1

LEMMA SessionsInit == ASSUME Ses!SessionsAssumption, Ses!Init PROVE SessionsInv
<1>1. Ses!Free \in Ses!Requests
  BY DEF Ses!SessionsAssumption, Ses!Free, Ses!Requests
<1>2. Ses!TypeOK
  <2>1. /\ refresh_tokens \in Seq(Ses!Token) /\ Len(refresh_tokens) = 0
        /\ reset_tokens \in Seq(BOOLEAN) /\ Len(reset_tokens) = 0
    BY DEF Ses!Init
  <2>2. request \in [SessionCall -> Ses!Requests] /\ resets \in [1..SessionResets -> [held : Nat, set : Nat]]
    BY <1>1 DEF Ses!Init
  <2>3. SessionTokens \in Nat /\ SessionResets \in Nat
    BY DEF Ses!SessionsAssumption
  <2>4. is_deleted \in BOOLEAN /\ session_missed \in BOOLEAN /\ session_logins \in Nat /\ raced \in Nat
    BY DEF Ses!Init
  <2>5. QED
    BY <2>1, <2>2, <2>3, <2>4 DEF Ses!TypeOK
<1>3. TokensKnown
  BY DEF Ses!Init, TokensKnown, Ses!Free
<1>4. TokensAccounted
  <2>1. Ses!Active = {} /\ Successors = {}
    BY DEF Ses!Init, Ses!Active, Ses!Rows, Successors, Ses!Free
  <2>2. QED
    BY <2>1, FS_EmptySet, SesSizes DEF Ses!Init, TokensAccounted
<1>5. ASSUME NEW n \in 1..SessionResets PROVE ResetAccounted(n)
  <2>1. Holders(n) = {} /\ Hashing(n) = {}
    BY DEF Ses!Init, Holders, Hashing, Ses!Free
  <2>2. resets[n].set = 0 /\ resets[n].held = 0
    BY DEF Ses!Init
  <2>3. QED
    BY <2>1, <2>2, FS_EmptySet, SesSizes DEF ResetAccounted
<1>6. QED
  BY <1>2, <1>3, <1>4, <1>5 DEF SessionsInv

\* A step that activates no token and sends no successor on its way.
LEMMA TokensKept ==
  ASSUME Ses!SessionsAssumption, SessionsInv, Ses!Active' \subseteq Ses!Active, Successors' \subseteq Successors,
         session_logins' = session_logins, raced' = raced
  PROVE  TokensAccounted'
<1>1. /\ Ses!Cardinality(Ses!Active') <= Ses!Cardinality(Ses!Active) /\ Ses!Cardinality(Ses!Active') \in Nat
      /\ Ses!Cardinality(Successors') <= Ses!Cardinality(Successors) /\ Ses!Cardinality(Successors') \in Nat
      /\ Ses!Cardinality(Ses!Active) \in Nat /\ Ses!Cardinality(Successors) \in Nat
  BY SessionsCounted, FS_Subset, FS_CardinalityType, SesSizes DEF SessionsInv
<1>2. QED
  BY <1>1 DEF SessionsInv, TokensAccounted, Ses!TypeOK

\* A step that leaves a reset token and its holders alone.
LEMMA ResetKept ==
  ASSUME SessionsInv, NEW n \in 1..SessionResets, resets'[n] = resets[n],
         n \in Ses!Usable' => n \in Ses!Usable, Len(reset_tokens') >= Len(reset_tokens),
         Len(reset_tokens) \in Nat, Len(reset_tokens') \in Nat,
         \A c \in SessionCall : \/ request'[c] = request[c]
                                \/ /\ request[c].step \notin {"hash", "consume"}
                                   /\ request'[c].step \notin {"hash", "consume"}
  PROVE  ResetAccounted(n)'
<1>1. Holders(n)' = Holders(n) /\ Hashing(n)' = Hashing(n)
  BY DEF Holders, Hashing
<1>2. ResetAccounted(n)
  BY DEF SessionsInv
<1>3. QED
  BY <1>1, <1>2 DEF ResetAccounted

\* A step of a request that is about refresh tokens, or about none.
LEMMA ResetsKept ==
  ASSUME Ses!SessionsAssumption, SessionsInv, UNCHANGED <<reset_tokens, resets>>,
         \A c \in SessionCall : \/ request'[c] = request[c]
                                \/ /\ request[c].step \notin {"hash", "consume"}
                                   /\ request'[c].step \notin {"hash", "consume"}
  PROVE  \A n \in 1..SessionResets : ResetAccounted(n)'
<1> SUFFICES ASSUME NEW n \in 1..SessionResets PROVE ResetAccounted(n)'
  OBVIOUS
<1>1. Len(reset_tokens) \in Nat /\ (n \in Ses!Usable' => n \in Ses!Usable)
  BY SessionsCounted DEF SessionsInv, Ses!Usable
<1>2. QED
  BY <1>1, ResetKept

\* A request goes on with another step, or ends.
LEMMA RequestGoesOn ==
  ASSUME Ses!TypeOK, NEW c \in SessionCall, NEW step \in {"none", "login", "reuse", "revoke", "issue", "revoke_all",
                       "create_reset", "hash", "consume"},
         Ses!GoTo(c, step)
  PROVE  /\ request' \in [SessionCall -> Ses!Requests]
         /\ request'[c].step = step /\ request'[c].row = request[c].row
         /\ request'[c].raced = request[c].raced /\ request'[c].logout = request[c].logout
         /\ \A d \in SessionCall \ {c} : request'[d] = request[d]
BY DEF Ses!TypeOK, Ses!GoTo, Ses!Requests

LEMMA EndsHere ==
  ASSUME Ses!SessionsAssumption, Ses!TypeOK, NEW c \in SessionCall, Ses!End(c)
  PROVE  /\ request' \in [SessionCall -> Ses!Requests] /\ request'[c].step = "none"
         /\ \A d \in SessionCall \ {c} : request'[d] = request[d]
<1>1. Ses!Free \in Ses!Requests
  BY DEF Ses!SessionsAssumption, Ses!Free, Ses!Requests
<1>2. QED
  BY <1>1 DEF Ses!TypeOK, Ses!End, Ses!Requests, Ses!Free

LEMMA LoginKeepsSessions ==
  ASSUME Ses!SessionsAssumption, SessionsInv, NEW c \in SessionCall, Ses!Login(c)
  PROVE  SessionsInv'
<1>1. /\ request[c] = Ses!Free /\ Ses!GoTo(c, "login")
      /\ UNCHANGED <<refresh_tokens, is_deleted, reset_tokens, session_logins, raced, session_missed, resets>>
  BY DEF Ses!Login
<1>2. /\ request' \in [SessionCall -> Ses!Requests]
      /\ request'[c].step = "login" /\ request[c].step = "none"
      /\ \A d \in SessionCall \ {c} : request'[d] = request[d]
  <2>1. request[c].step = "none"
    BY <1>1, FreeStep
  <2>2. QED
    BY <1>1, <2>1, RequestGoesOn DEF SessionsInv
<1>3. Ses!TypeOK'
  BY <1>1, <1>2 DEF SessionsInv, Ses!TypeOK
<1>4. TokensKnown'
  BY <1>1, <1>2 DEF SessionsInv, TokensKnown
<1>5. TokensAccounted'
  <2>1. Ses!Active' = Ses!Active /\ Successors' = Successors
    BY <1>1, <1>2 DEF Ses!Active, Ses!Rows, Successors
  <2>2. QED
    BY <1>1, <2>1, TokensKept
<1>6. \A n \in 1..SessionResets : ResetAccounted(n)'
  BY <1>1, <1>2, ResetsKept
<1>7. QED
  BY <1>3, <1>4, <1>5, <1>6 DEF SessionsInv

\* A new row of the table, which is active.
LEMMA RowAdded ==
  ASSUME Ses!SessionsAssumption, Ses!TypeOK, NEW f \in 1..SessionTokens, Len(refresh_tokens) < SessionTokens,
         refresh_tokens' = Append(refresh_tokens, [family |-> f, revoked |-> FALSE])
  PROVE  /\ refresh_tokens' \in Seq(Ses!Token)
         /\ Len(refresh_tokens') = Len(refresh_tokens) + 1 /\ Len(refresh_tokens') <= SessionTokens
         /\ Ses!Cardinality(Ses!Active') = Ses!Cardinality(Ses!Active) + 1
<1>1. [family |-> f, revoked |-> FALSE] \in Ses!Token
  BY DEF Ses!Token
<1>2. /\ refresh_tokens' \in Seq(Ses!Token)
      /\ Len(refresh_tokens') = Len(refresh_tokens) + 1 /\ Len(refresh_tokens') <= SessionTokens
      /\ \A i \in 1..Len(refresh_tokens) : refresh_tokens'[i] = refresh_tokens[i]
      /\ refresh_tokens'[Len(refresh_tokens) + 1].revoked = FALSE
      /\ DOMAIN refresh_tokens = 1..Len(refresh_tokens)
      /\ DOMAIN refresh_tokens' = 1..(Len(refresh_tokens) + 1)
  <2>1. /\ refresh_tokens \in Seq(Ses!Token)
        /\ Len(refresh_tokens) \in Nat /\ SessionTokens \in Nat
    BY DEF Ses!TypeOK, Ses!SessionsAssumption
  <2>2. QED
    BY <1>1, <2>1
<1>3. Ses!Active' = Ses!Active \cup {Len(refresh_tokens) + 1} /\ Len(refresh_tokens) + 1 \notin Ses!Active
  BY <1>2, SessionsCounted DEF Ses!Active, Ses!Rows
<1>4. Ses!Cardinality(Ses!Active \cup {Len(refresh_tokens) + 1}) = Ses!Cardinality(Ses!Active) + 1
  BY <1>3, SessionsCounted, FS_AddElement, SesSizes
<1>5. QED
  BY <1>2, <1>3, <1>4

LEMMA IssueLoginKeepsSessions ==
  ASSUME Ses!SessionsAssumption, SessionsInv, NEW c \in SessionCall, Ses!IssueLogin(c)
  PROVE  SessionsInv'
<1>1. /\ request[c].step = "login" /\ Len(refresh_tokens) < SessionTokens
      /\ refresh_tokens' = Append(refresh_tokens, [family |-> Len(refresh_tokens) + 1, revoked |-> FALSE])
      /\ session_logins' = session_logins + 1 /\ Ses!End(c)
      /\ UNCHANGED <<is_deleted, reset_tokens, raced, session_missed, resets>>
  BY DEF Ses!IssueLogin, Ses!At
<1>2. /\ request' \in [SessionCall -> Ses!Requests] /\ request'[c].step = "none"
      /\ \A d \in SessionCall \ {c} : request'[d] = request[d]
  BY <1>1, EndsHere DEF SessionsInv
<1>3. /\ refresh_tokens' \in Seq(Ses!Token)
      /\ Len(refresh_tokens') = Len(refresh_tokens) + 1 /\ Len(refresh_tokens') <= SessionTokens
      /\ Ses!Cardinality(Ses!Active') = Ses!Cardinality(Ses!Active) + 1
  <2>1. Len(refresh_tokens) + 1 \in 1..SessionTokens
    BY <1>1, SessionsCounted DEF SessionsInv, Ses!SessionsAssumption
  <2>2. QED
    BY <1>1, <2>1, RowAdded DEF SessionsInv
<1>4. Ses!TypeOK'
  BY <1>1, <1>2, <1>3 DEF SessionsInv, Ses!TypeOK
<1>5. TokensKnown'
  BY <1>1, <1>2, <1>3, SessionsCounted, SMTT(30) DEF SessionsInv, TokensKnown
<1>6. TokensAccounted'
  <2>1. Successors' = Successors
    BY <1>1, <1>2 DEF Successors
  <2>2. session_logins \in Nat /\ raced \in Nat /\ Ses!Cardinality(Ses!Active) \in Nat /\ Ses!Cardinality(Successors) \in Nat
    BY SessionsCounted DEF SessionsInv, Ses!TypeOK
  <2>3. QED
    BY <1>1, <1>3, <2>1, <2>2 DEF SessionsInv, TokensAccounted
<1>7. \A n \in 1..SessionResets : ResetAccounted(n)'
  BY <1>1, <1>2, ResetsKept
<1>8. QED
  BY <1>4, <1>5, <1>6, <1>7 DEF SessionsInv

LEMMA DeleteKeepsSessions ==
  ASSUME Ses!SessionsAssumption, SessionsInv, Ses!DeleteUser \/ UNCHANGED sessionVars
  PROVE  SessionsInv'
<1>1. /\ is_deleted' \in BOOLEAN
      /\ UNCHANGED <<refresh_tokens, reset_tokens, request, session_logins, raced, session_missed, resets>>
  BY DEF SessionsInv, Ses!TypeOK, Ses!DeleteUser, sessionVars
<1>2. Ses!TypeOK' /\ TokensKnown'
  BY <1>1 DEF SessionsInv, Ses!TypeOK, TokensKnown
<1>3. TokensAccounted'
  <2>1. Ses!Active' = Ses!Active /\ Successors' = Successors
    BY <1>1 DEF Ses!Active, Ses!Rows, Successors
  <2>2. QED
    BY <1>1, <2>1, TokensKept
<1>4. \A n \in 1..SessionResets : ResetAccounted(n)'
  BY <1>1, ResetsKept
<1>5. QED
  BY <1>2, <1>3, <1>4 DEF SessionsInv

\* Rows of the table are revoked.
LEMMA RowsRevoked ==
  ASSUME Ses!SessionsAssumption, Ses!TypeOK, NEW R, refresh_tokens' = Ses!Revoke(R)
  PROVE  /\ refresh_tokens' \in Seq(Ses!Token) /\ Len(refresh_tokens') = Len(refresh_tokens)
         /\ Ses!Active' = Ses!Active \ R
<1>1. /\ refresh_tokens \in Seq(Ses!Token) /\ Len(refresh_tokens) \in Nat
      /\ Ses!Rows = 1..Len(refresh_tokens)
  BY SessionsCounted DEF Ses!TypeOK, Ses!Rows
<1>2. ASSUME NEW i \in Ses!Rows
      PROVE  /\ refresh_tokens'[i] \in Ses!Token
             /\ refresh_tokens'[i].revoked <=> (refresh_tokens[i].revoked \/ i \in R)
  <2> DEFINE r == refresh_tokens[i].revoked \/ i \in R
  <2>1. refresh_tokens'[i] = [family |-> refresh_tokens[i].family, revoked |-> r]
    BY DEF Ses!Revoke
  <2>a. refresh_tokens[i] \in Ses!Token
    BY <1>1
  <2>b. r \in BOOLEAN
    OBVIOUS
  <2>2. refresh_tokens[i].family \in 1..SessionTokens /\ r \in BOOLEAN
    BY <2>a, <2>b DEF Ses!Token
  <2> HIDE DEF r
  <2>3. [family |-> refresh_tokens[i].family, revoked |-> r] \in Ses!Token
    BY <2>2 DEF Ses!Token
  <2>4. refresh_tokens'[i].revoked = r
    BY <2>1
  <2>5. QED
    BY <2>1, <2>3, <2>4 DEF r
<1>3. refresh_tokens' = [i \in 1..Len(refresh_tokens) |-> refresh_tokens'[i]]
  BY <1>1 DEF Ses!Revoke
<1>4. refresh_tokens' \in Seq(Ses!Token) /\ Len(refresh_tokens') = Len(refresh_tokens)
  BY <1>1, <1>2, <1>3
<1>5. Ses!Rows' = Ses!Rows
  BY <1>3, <1>1 DEF Ses!Rows
<1>6. Ses!Active' = Ses!Active \ R
  BY <1>2, <1>5 DEF Ses!Active
<1>7. QED
  BY <1>4, <1>6

\* The requests that are to insert a successor learn that others have revoked its row.
LEMMA RequestsMarked ==
  ASSUME Ses!TypeOK, NEW req \in [SessionCall -> Ses!Requests], NEW F, request' = Ses!Marked(req, F)
  PROVE  /\ request' \in [SessionCall -> Ses!Requests]
         /\ \A d \in SessionCall :
              /\ request'[d].step = req[d].step /\ request'[d].row = req[d].row
              /\ req[d].step # "issue" => request'[d] = req[d]
              /\ req[d].raced => request'[d].raced
              /\ req[d].step = "issue" /\ refresh_tokens[req[d].row].family \in F => request'[d].raced
<1> SUFFICES ASSUME NEW d \in SessionCall
             PROVE  /\ request'[d] \in Ses!Requests
                    /\ request'[d].step = req[d].step /\ request'[d].row = req[d].row
                    /\ req[d].step # "issue" => request'[d] = req[d]
                    /\ req[d].raced => request'[d].raced
                    /\ req[d].step = "issue" /\ refresh_tokens[req[d].row].family \in F
                         => request'[d].raced
  BY DEF Ses!Marked
<1>1. req[d] \in Ses!Requests
  OBVIOUS
<1>2. CASE req[d].step = "issue" /\ refresh_tokens[req[d].row].family \in F
  <2>1. request'[d] = [req[d] EXCEPT !.raced = TRUE]
    BY <1>2 DEF Ses!Marked
  <2>2. QED
    BY <1>1, <1>2, <2>1 DEF Ses!Requests
<1>3. CASE ~(req[d].step = "issue" /\ refresh_tokens[req[d].row].family \in F)
  <2>1. request'[d] = req[d]
    BY <1>3 DEF Ses!Marked
  <2>2. QED
    BY <1>1, <1>3, <2>1
<1>4. QED
  BY <1>2, <1>3

LEMMA ReadKeepsSessions ==
  ASSUME Ses!SessionsAssumption, SessionsInv, NEW c \in SessionCall, NEW logout \in BOOLEAN,
         NEW presented \in Ses!Rows, Ses!ReadTokens(c, logout, presented)
  PROVE  SessionsInv'
<1>1. /\ request[c] = Ses!Free
      /\ UNCHANGED <<refresh_tokens, is_deleted, reset_tokens, session_logins, raced, resets>>
      /\ request' = [request EXCEPT ![c] =
           [step |-> IF refresh_tokens[Len(refresh_tokens)].revoked THEN "reuse" ELSE "revoke",
            row |-> Len(refresh_tokens), raced |-> FALSE, logout |-> logout]]
  BY DEF Ses!ReadTokens
<1>2. session_missed' \in BOOLEAN
  <2>1. session_missed' = (session_missed \/ (refresh_tokens[presented].revoked /\ request'[c].step = "revoke"))
    BY DEF Ses!ReadTokens
  <2>2. QED
    BY <2>1
<1>3. Len(refresh_tokens) \in 1..SessionTokens /\ request \in [SessionCall -> Ses!Requests]
  BY SessionsCounted DEF SessionsInv, Ses!TypeOK, Ses!Rows
<1>4. /\ request' \in [SessionCall -> Ses!Requests] /\ request'[c].step \in {"reuse", "revoke"}
      /\ request'[c].row = Len(refresh_tokens) /\ request[c].step = "none"
      /\ \A d \in SessionCall \ {c} : request'[d] = request[d]
  <2> DEFINE s == IF refresh_tokens[Len(refresh_tokens)].revoked THEN "reuse" ELSE "revoke"
             r == [step |-> s, row |-> Len(refresh_tokens), raced |-> FALSE, logout |-> logout]
  <2>1. s \in {"reuse", "revoke"}
    OBVIOUS
  <2>2. request' = [request EXCEPT ![c] = r]
    BY <1>1
  <2> HIDE DEF s
  <2>3. Len(refresh_tokens) \in 0..(SessionTokens + SessionResets)
    BY <1>3 DEF Ses!SessionsAssumption
  <2>4. r \in Ses!Requests
    BY <2>1, <2>3 DEF Ses!Requests
  <2>5. request[c].step = "none"
    BY <1>1 DEF Ses!Free
  <2>6. r.step = s /\ r.row = Len(refresh_tokens)
    OBVIOUS
  <2> HIDE DEF r
  <2>7. request'[c] = r /\ request' \in [SessionCall -> Ses!Requests]
        /\ \A d \in SessionCall \ {c} : request'[d] = request[d]
    BY <1>3, <2>2, <2>4
  <2>8. QED
    BY <2>1, <2>5, <2>6, <2>7
<1>5. Ses!TypeOK'
  BY <1>1, <1>2, <1>4 DEF SessionsInv, Ses!TypeOK
<1>6. TokensKnown'
  BY <1>1, <1>3, <1>4 DEF SessionsInv, TokensKnown
<1>7. TokensAccounted'
  <2>1. Ses!Active' = Ses!Active /\ Successors' = Successors
    BY <1>1, <1>4 DEF Ses!Active, Ses!Rows, Successors
  <2>2. QED
    BY <1>1, <2>1, TokensKept
<1>8. \A n \in 1..SessionResets : ResetAccounted(n)'
  BY <1>1, <1>4, ResetsKept
<1>9. QED
  BY <1>5, <1>6, <1>7, <1>8 DEF SessionsInv

LEMMA ReusedKeepsSessions ==
  ASSUME Ses!SessionsAssumption, SessionsInv, NEW c \in SessionCall, Ses!ReusedToken(c)
  PROVE  SessionsInv'
<1> DEFINE req == [request EXCEPT ![c].step = "revoke_all"]
           family == refresh_tokens[request[c].row].family
           R == {i \in Ses!Rows : refresh_tokens[i].family = family}
<1>1. /\ request[c].step = "reuse" /\ refresh_tokens' = Ses!Revoke(R) /\ request' = Ses!Marked(req, {family})
      /\ UNCHANGED <<is_deleted, reset_tokens, session_logins, raced, session_missed, resets>>
  BY DEF Ses!ReusedToken, Ses!At
<1>2. /\ req \in [SessionCall -> Ses!Requests] /\ req[c].step = "revoke_all"
      /\ \A d \in SessionCall \ {c} : req[d] = request[d]
  BY ZenonT(40) DEF SessionsInv, Ses!TypeOK, Ses!Requests
<1> HIDE DEF req, family, R
<1>3. /\ refresh_tokens' \in Seq(Ses!Token) /\ Len(refresh_tokens') = Len(refresh_tokens)
      /\ Ses!Active' = Ses!Active \ R
  BY <1>1, RowsRevoked DEF SessionsInv
<1>4. /\ request' \in [SessionCall -> Ses!Requests]
      /\ \A d \in SessionCall :
           /\ request'[d].step = req[d].step /\ request'[d].row = req[d].row
           /\ req[d].step # "issue" => request'[d] = req[d]
           /\ req[d].raced => request'[d].raced
  BY <1>1, <1>2, RequestsMarked, ZenonT(60) DEF SessionsInv
<1>5. Ses!TypeOK'
  BY <1>1, <1>3, <1>4 DEF SessionsInv, Ses!TypeOK
<1>6. TokensKnown'
  BY <1>1, <1>2, <1>3, <1>4, ZenonT(60) DEF SessionsInv, TokensKnown
<1>7. TokensAccounted'
  <2>1. Ses!Active' \subseteq Ses!Active /\ Successors' \subseteq Successors
    BY <1>1, <1>2, <1>3, <1>4, ZenonT(60) DEF Successors
  <2>2. QED
    BY <1>1, <2>1, TokensKept
<1>8. \A n \in 1..SessionResets : ResetAccounted(n)'
  BY <1>1, <1>2, <1>4, ResetsKept, ZenonT(40)
<1>9. QED
  BY <1>5, <1>6, <1>7, <1>8 DEF SessionsInv

LEMMA RevokeKeepsSessions ==
  ASSUME Ses!SessionsAssumption, SessionsInv, NEW c \in SessionCall, Ses!RevokeToken(c)
  PROVE  SessionsInv'
<1> DEFINE i == request[c].row
<1>1. /\ request[c].step = "revoke" /\ refresh_tokens' = Ses!Revoke({i})
      /\ request' = [request EXCEPT ![c] =
           [step |-> "issue", row |-> i, raced |-> refresh_tokens[i].revoked,
            logout |-> request[c].logout]]
      /\ UNCHANGED <<is_deleted, reset_tokens, session_logins, raced, session_missed, resets>>
  BY DEF Ses!RevokeToken, Ses!At
<1>2. i \in 1..Len(refresh_tokens) /\ refresh_tokens[i].revoked \in BOOLEAN
  <2>1. i \in 1..Len(refresh_tokens) /\ refresh_tokens \in Seq(Ses!Token)
    BY <1>1 DEF SessionsInv, TokensKnown, Ses!TypeOK
  <2>2. refresh_tokens[i] \in Ses!Token
    BY <2>1
  <2>3. QED
    BY <2>1, <2>2 DEF Ses!Token
<1>3. /\ request' \in [SessionCall -> Ses!Requests] /\ request'[c].step = "issue" /\ request'[c].row = i
      /\ request'[c].raced = refresh_tokens[i].revoked
      /\ \A d \in SessionCall \ {c} : request'[d] = request[d]
  <2> DEFINE r == [step |-> "issue", row |-> i, raced |-> refresh_tokens[i].revoked,
                   logout |-> request[c].logout]
  <2>1. request \in [SessionCall -> Ses!Requests] /\ request[c] \in Ses!Requests
    BY DEF SessionsInv, Ses!TypeOK
  <2>2. r \in Ses!Requests
    BY <1>2, <2>1 DEF Ses!Requests
  <2>3. r.step = "issue" /\ r.row = i /\ r.raced = refresh_tokens[i].revoked
    OBVIOUS
  <2>4. request' = [request EXCEPT ![c] = r]
    BY <1>1
  <2> HIDE DEF r
  <2>5. QED
    BY <2>1, <2>2, <2>3, <2>4
<1> HIDE DEF i
<1>4. /\ refresh_tokens' \in Seq(Ses!Token) /\ Len(refresh_tokens') = Len(refresh_tokens)
      /\ Ses!Active' = Ses!Active \ {i}
  BY <1>1, RowsRevoked DEF SessionsInv
<1>5. Ses!TypeOK'
  BY <1>1, <1>3, <1>4 DEF SessionsInv, Ses!TypeOK
<1>6. TokensKnown'
  BY <1>1, <1>2, <1>3, <1>4 DEF SessionsInv, TokensKnown
<1>7. TokensAccounted'
  <2>1. CASE refresh_tokens[i].revoked
    <3>1. Ses!Active' \subseteq Ses!Active /\ Successors' \subseteq Successors
      BY <1>1, <1>3, <1>4, <2>1 DEF Successors
    <3>2. QED
      BY <1>1, <3>1, TokensKept
  <2>2. CASE ~refresh_tokens[i].revoked
    <3>1. i \in Ses!Active
      BY <1>2, <2>2, SessionsCounted DEF Ses!Active, Ses!Rows, SessionsInv, Ses!TypeOK
    <3>2. Successors' = Successors \cup {c} /\ c \notin Successors
      BY <1>1, <1>3, <2>2 DEF Successors
    <3>3. /\ Ses!Cardinality(Ses!Active) = Ses!Cardinality(Ses!Active \ {i}) + 1
          /\ Ses!Cardinality(Ses!Active \ {i}) \in Nat
      BY <3>1, SessionsCounted, PartCounted, FS_RemoveElement, FS_CardinalityType, FS_Subset,
         SesSizes DEF SessionsInv
    <3>4. Ses!Cardinality(Successors \cup {c}) = Ses!Cardinality(Successors) + 1
      BY <3>2, SessionsCounted, FS_AddElement, SesSizes DEF SessionsInv
    <3>5. session_logins \in Nat /\ raced \in Nat /\ Ses!Cardinality(Successors) \in Nat
      BY SessionsCounted DEF SessionsInv, Ses!TypeOK
    <3>6. Ses!Cardinality(Ses!Active) + Ses!Cardinality(Successors) <= session_logins + raced
      BY DEF SessionsInv, TokensAccounted
    <3>7. Ses!Cardinality(Ses!Active \ {i}) + Ses!Cardinality(Successors \cup {c}) <= session_logins + raced
      BY <3>3, <3>4, <3>5, <3>6
    <3>8. QED
      BY <1>1, <1>4, <3>2, <3>7 DEF TokensAccounted
  <2>3. QED
    BY <2>1, <2>2
<1>8. \A n \in 1..SessionResets : ResetAccounted(n)'
  BY <1>1, <1>3, ResetsKept
<1>9. QED
  BY <1>5, <1>6, <1>7, <1>8 DEF SessionsInv

\* A table that grows, and a request that gives up the row it had read.
LEMMA RowsStayKnown ==
  ASSUME Ses!SessionsAssumption, SessionsInv, NEW c \in SessionCall,
         Len(refresh_tokens') \in Nat, Len(refresh_tokens') >= Len(refresh_tokens),
         Len(reset_tokens') \in Nat, Len(reset_tokens') >= Len(reset_tokens),
         request'[c].step \notin {"reuse", "revoke", "issue", "hash", "consume"},
         \A d \in SessionCall \ {c} : request'[d] = request[d]
  PROVE  TokensKnown'
<1>1. Len(refresh_tokens) \in Nat /\ Len(reset_tokens) \in Nat
  BY SessionsCounted DEF SessionsInv
<1>2. ASSUME NEW d \in SessionCall, d # c
      PROVE  /\ request'[d].step \in {"reuse", "revoke", "issue"}
                  => request'[d].row \in 1..Len(refresh_tokens')
             /\ request'[d].step \in {"hash", "consume"}
                  => request'[d].row \in 1..Len(reset_tokens')
  <2>1. request'[d] = request[d]
    BY <1>2
  <2>2. /\ request[d].step \in {"reuse", "revoke", "issue"} => request[d].row \in 1..Len(refresh_tokens)
        /\ request[d].step \in {"hash", "consume"} => request[d].row \in 1..Len(reset_tokens)
    BY DEF SessionsInv, TokensKnown
  <2>3. QED
    BY <1>1, <2>1, <2>2
<1>3. QED
  BY <1>2 DEF TokensKnown

LEMMA SuccessorKeepsSessions ==
  ASSUME Ses!SessionsAssumption, SessionsInv, NEW c \in SessionCall, Ses!IssueSuccessor(c)
  PROVE  SessionsInv'
<1>1. /\ request[c].step = "issue"
      /\ \/ Ses!GoTo(c, "revoke_all")
         \/ Ses!End(c)
      /\ UNCHANGED <<is_deleted, reset_tokens, session_logins, session_missed, resets>>
  BY Zenon DEF Ses!IssueSuccessor, Ses!At
<1>2. /\ request' \in [SessionCall -> Ses!Requests] /\ request'[c].step \in {"none", "revoke_all"}
      /\ \A d \in SessionCall \ {c} : request'[d] = request[d]
  <2>1. CASE Ses!GoTo(c, "revoke_all")
    BY <2>1, RequestGoesOn DEF SessionsInv
  <2>2. CASE Ses!End(c)
    BY <2>2, EndsHere DEF SessionsInv
  <2>3. QED
    BY <1>1, <2>1, <2>2
<1>3. Successors' = Successors \ {c} /\ Successors \subseteq SessionCall
  BY <1>2 DEF Successors
<1>4. \A n \in 1..SessionResets : ResetAccounted(n)'
  BY <1>1, <1>2, ResetsKept
<1>5. CASE is_deleted
  <2>1. UNCHANGED <<refresh_tokens, raced>>
    BY <1>5 DEF Ses!IssueSuccessor
  <2>2. Ses!TypeOK' /\ TokensKnown'
    BY <1>1, <1>2, <2>1 DEF SessionsInv, Ses!TypeOK, TokensKnown
  <2>3. Ses!Active' = Ses!Active
    BY <2>1 DEF Ses!Active, Ses!Rows
  <2>4. TokensAccounted'
    BY <1>1, <1>3, <2>1, <2>3, TokensKept
  <2>5. QED
    BY <1>4, <2>2, <2>4 DEF SessionsInv
<1>6. CASE ~is_deleted
  <2> DEFINE f == refresh_tokens[request[c].row].family
  <2>1. /\ Len(refresh_tokens) < SessionTokens
        /\ refresh_tokens' = Append(refresh_tokens, [family |-> f, revoked |-> FALSE])
        /\ raced' = raced + IF request[c].raced THEN 1 ELSE 0
    BY <1>6 DEF Ses!IssueSuccessor
  <2>2. f \in 1..SessionTokens
    <3>1. request[c].row \in 1..Len(refresh_tokens) /\ refresh_tokens \in Seq(Ses!Token)
      BY <1>1 DEF SessionsInv, TokensKnown, Ses!TypeOK
    <3>2. refresh_tokens[request[c].row] \in Ses!Token
      BY <3>1
    <3>3. QED
      BY <3>2 DEF Ses!Token
  <2> HIDE DEF f
  <2>3. /\ refresh_tokens' \in Seq(Ses!Token)
        /\ Len(refresh_tokens') = Len(refresh_tokens) + 1 /\ Len(refresh_tokens') <= SessionTokens
        /\ Ses!Cardinality(Ses!Active') = Ses!Cardinality(Ses!Active) + 1
    BY <2>1, <2>2, RowAdded DEF SessionsInv
  <2>4. /\ session_logins \in Nat /\ raced \in Nat /\ request[c].raced \in BOOLEAN
        /\ Ses!Cardinality(Ses!Active) \in Nat /\ Ses!Cardinality(Successors) \in Nat
        /\ Len(refresh_tokens) \in Nat
    <3>1. request[c] \in Ses!Requests
      BY DEF SessionsInv, Ses!TypeOK
    <3>2. request[c].raced \in BOOLEAN
      BY <3>1 DEF Ses!Requests
    <3>3. QED
      BY <3>2, SessionsCounted DEF SessionsInv, Ses!TypeOK
  <2>5. raced' \in Nat
    BY <2>1, <2>4
  <2>6. Ses!TypeOK'
    BY <1>1, <1>2, <2>3, <2>5 DEF SessionsInv, Ses!TypeOK
  <2>a. reset_tokens' = reset_tokens /\ session_logins' = session_logins
    BY <1>1
  <2>b. Ses!Cardinality(Ses!Active) + Ses!Cardinality(Successors) <= session_logins + raced
    BY DEF SessionsInv, TokensAccounted
  <2>7. TokensKnown'
    <3>1. /\ Len(refresh_tokens') \in Nat /\ Len(refresh_tokens') >= Len(refresh_tokens)
          /\ Len(reset_tokens') \in Nat /\ Len(reset_tokens') >= Len(reset_tokens)
      BY <2>3, <2>4, <2>a, SessionsCounted DEF SessionsInv
    <3>2. QED
      BY <1>2, <3>1, RowsStayKnown
  <2>8. TokensAccounted'
    <3>1. CASE request[c].raced
      <4>1. raced' = raced + 1
        BY <2>1, <3>1
      <4>2. c \notin Successors
        BY <3>1 DEF Successors
      <4>3. Successors' = Successors
        BY <1>3, <4>2
      <4>4. QED
        BY <2>3, <2>4, <2>a, <2>b, <4>1, <4>3 DEF TokensAccounted
    <3>2. CASE ~request[c].raced
      <4>1. raced' = raced
        BY <2>1, <2>4, <3>2
      <4>2. c \in Successors
        BY <1>1, <3>2 DEF Successors
      <4>3. Ses!Cardinality(Successors) = Ses!Cardinality(Successors \ {c}) + 1
        BY <1>3, <4>2, PartCounted, SesSizes DEF Ses!SessionsAssumption
      <4>4. Ses!Cardinality(Successors \ {c}) \in Nat
        <5>1. Successors \ {c} \subseteq SessionCall
          BY <1>3
        <5>2. QED
          BY <5>1, PartCounted, SesSizes DEF Ses!SessionsAssumption
      <4>5. QED
        BY <1>3, <2>3, <2>4, <2>a, <2>b, <4>1, <4>3, <4>4 DEF TokensAccounted
    <3>3. QED
      BY <3>1, <3>2
  <2>9. QED
    BY <1>4, <2>6, <2>7, <2>8 DEF SessionsInv
<1>7. QED
  BY <1>5, <1>6

LEMMA RevokeAllKeepsSessions ==
  ASSUME Ses!SessionsAssumption, SessionsInv, NEW c \in SessionCall, Ses!RevokeEverything(c)
  PROVE  SessionsInv'
<1> DEFINE req == [request EXCEPT ![c] = Ses!Free]
<1>a. /\ request[c].step = "revoke_all" \/ request[c] = Ses!Free
      /\ refresh_tokens' = Ses!Revoke(Ses!Rows) /\ request' = Ses!Marked(req, Ses!Families)
      /\ session_logins' = 0 /\ raced' = 0
      /\ UNCHANGED <<is_deleted, reset_tokens, session_missed, resets>>
  BY Zenon DEF Ses!RevokeEverything, Ses!RevokeAll, Ses!At
<1>b. request[c].step \in {"revoke_all", "none"}
  BY <1>a, FreeStep
<1>1. /\ request[c].step \in {"revoke_all", "none"}
      /\ refresh_tokens' = Ses!Revoke(Ses!Rows) /\ request' = Ses!Marked(req, Ses!Families)
      /\ session_logins' = 0 /\ raced' = 0
      /\ UNCHANGED <<is_deleted, reset_tokens, session_missed, resets>>
  BY <1>a, <1>b
<1>2. /\ req \in [SessionCall -> Ses!Requests] /\ req[c].step = "none"
      /\ \A d \in SessionCall \ {c} : req[d] = request[d]
  <2>1. Ses!Free \in Ses!Requests /\ Ses!Free.step = "none"
    BY DEF Ses!SessionsAssumption, Ses!Free, Ses!Requests
  <2>2. request \in [SessionCall -> Ses!Requests]
    BY DEF SessionsInv, Ses!TypeOK
  <2>3. QED
    BY <2>1, <2>2
<1> HIDE DEF req
<1>3. /\ refresh_tokens' \in Seq(Ses!Token) /\ Len(refresh_tokens') = Len(refresh_tokens)
      /\ Ses!Active' = Ses!Active \ Ses!Rows
  BY <1>1, RowsRevoked DEF SessionsInv
<1>4. /\ request' \in [SessionCall -> Ses!Requests]
      /\ \A d \in SessionCall :
           /\ request'[d].step = req[d].step /\ request'[d].row = req[d].row
           /\ req[d].step # "issue" => request'[d] = req[d]
           /\ req[d].step = "issue" /\ refresh_tokens[req[d].row].family \in Ses!Families
                => request'[d].raced
  BY <1>1, <1>2, RequestsMarked DEF SessionsInv
<1>5. Ses!TypeOK'
  BY <1>1, <1>3, <1>4 DEF SessionsInv, Ses!TypeOK
<1>6. TokensKnown'
  BY <1>1, <1>2, <1>3, <1>4 DEF SessionsInv, TokensKnown
<1>7. TokensAccounted'
  <2>1. Ses!Active' = {}
    BY <1>3 DEF Ses!Active
  <2>2. ASSUME NEW d \in SessionCall, request'[d].step = "issue" PROVE request'[d].raced
    <3>1. d # c /\ req[d] = request[d] /\ request[d].step = "issue"
      BY <1>2, <1>4, <2>2
    <3>2. request[d].row \in Ses!Rows
      BY <3>1, SessionsCounted DEF SessionsInv, TokensKnown, Ses!TypeOK, Ses!Rows
    <3>3. refresh_tokens[request[d].row].family \in Ses!Families
      BY <3>2 DEF Ses!Families
    <3>4. QED
      BY <1>4, <3>1, <3>3
  <2>3. Successors' = {}
    BY <2>2 DEF Successors
  <2>4. Ses!Cardinality(Ses!Active') = 0 /\ Ses!Cardinality(Successors') = 0
    BY <2>1, <2>3, FS_EmptySet, SesSizes
  <2>5. session_logins' = 0 /\ raced' = 0
    BY <1>1
  <2>6. QED
    BY <2>4, <2>5 DEF TokensAccounted
<1>8. \A n \in 1..SessionResets : ResetAccounted(n)'
  BY <1>1, <1>2, <1>4, ResetsKept
<1>9. QED
  BY <1>5, <1>6, <1>7, <1>8 DEF SessionsInv

\* A step of a request that is about reset tokens leaves the refresh tokens alone.
LEMMA TokensUntouched ==
  ASSUME Ses!SessionsAssumption, SessionsInv, NEW c \in SessionCall,
         request[c].step # "issue", request'[c].step # "issue",
         \A d \in SessionCall \ {c} : request'[d] = request[d],
         UNCHANGED <<refresh_tokens, session_logins, raced>>
  PROVE  TokensAccounted'
<1>1. Ses!Active' = Ses!Active /\ Successors' = Successors
  BY DEF Ses!Active, Ses!Rows, Successors
<1>2. QED
  BY <1>1, TokensKept

LEMMA InvalidateKeepsSessions ==
  ASSUME Ses!SessionsAssumption, SessionsInv, NEW c \in SessionCall, Ses!InvalidateResets(c)
  PROVE  SessionsInv'
<1>1. /\ request[c] = Ses!Free /\ Ses!GoTo(c, "create_reset")
      /\ reset_tokens' = [n \in DOMAIN reset_tokens |-> TRUE]
      /\ UNCHANGED <<refresh_tokens, is_deleted, session_logins, raced, session_missed, resets>>
  BY DEF Ses!InvalidateResets
<1>2. /\ request' \in [SessionCall -> Ses!Requests]
      /\ request'[c].step = "create_reset" /\ request[c].step = "none"
      /\ \A d \in SessionCall \ {c} : request'[d] = request[d]
  <2>1. request[c] = Ses!Free /\ Ses!GoTo(c, "create_reset")
    BY <1>1
  <2>2. request[c].step = "none"
    BY <2>1, FreeStep
  <2>3. QED
    BY <2>1, <2>2, RequestGoesOn DEF SessionsInv
<1>3. /\ reset_tokens' \in Seq(BOOLEAN) /\ Len(reset_tokens') = Len(reset_tokens)
      /\ Ses!Usable' = {} /\ Len(reset_tokens) \in Nat
  <2>1. Len(reset_tokens) \in Nat /\ DOMAIN reset_tokens = 1..Len(reset_tokens)
    BY DEF SessionsInv, Ses!TypeOK
  <2>2. reset_tokens' = [n \in 1..Len(reset_tokens) |-> TRUE]
    BY <1>1, <2>1
  <2>3. reset_tokens' \in Seq(BOOLEAN) /\ Len(reset_tokens') = Len(reset_tokens)
    BY <2>1, <2>2
  <2>4. Ses!Usable' = {}
    BY <2>2 DEF Ses!Usable
  <2>5. QED
    BY <2>1, <2>3, <2>4
<1>4. Ses!TypeOK'
  BY <1>1, <1>2, <1>3 DEF SessionsInv, Ses!TypeOK
<1>5. TokensKnown'
  BY <1>1, <1>2, <1>3 DEF SessionsInv, TokensKnown
<1>6. TokensAccounted'
  BY <1>1, <1>2, TokensUntouched
<1>7. ASSUME NEW n \in 1..SessionResets PROVE ResetAccounted(n)'
  <2>1. \A d \in SessionCall : \/ request'[d] = request[d]
                               \/ /\ request[d].step \notin {"hash", "consume"}
                                  /\ request'[d].step \notin {"hash", "consume"}
    BY <1>2
  <2>a. resets' = resets
    BY <1>1
  <2>2. resets'[n] = resets[n] /\ Len(reset_tokens') >= Len(reset_tokens)
    BY <1>3, <2>a
  <2>3. QED
    BY <1>3, <2>1, <2>2, ResetKept
<1>8. QED
  BY <1>4, <1>5, <1>6, <1>7 DEF SessionsInv

LEMMA CreateKeepsSessions ==
  ASSUME Ses!SessionsAssumption, SessionsInv, NEW c \in SessionCall, Ses!CreateReset(c)
  PROVE  SessionsInv'
<1>1. /\ request[c].step = "create_reset" /\ Len(reset_tokens) < SessionResets
      /\ reset_tokens' = Append(reset_tokens, FALSE) /\ Ses!End(c)
      /\ UNCHANGED <<refresh_tokens, is_deleted, session_logins, raced, session_missed, resets>>
  BY DEF Ses!CreateReset, Ses!At
<1>2. /\ request' \in [SessionCall -> Ses!Requests] /\ request'[c].step = "none"
      /\ \A d \in SessionCall \ {c} : request'[d] = request[d]
  BY <1>1, EndsHere DEF SessionsInv
<1> DEFINE new == Len(reset_tokens) + 1
<1>3. /\ reset_tokens' \in Seq(BOOLEAN) /\ Len(reset_tokens') = new
      /\ Len(reset_tokens') <= SessionResets /\ Len(reset_tokens) \in Nat
      /\ \A n \in Ses!Usable' : n \in Ses!Usable \/ n = new
  <2>1. /\ reset_tokens \in Seq(BOOLEAN) /\ Len(reset_tokens) \in Nat /\ SessionResets \in Nat
        /\ DOMAIN reset_tokens = 1..Len(reset_tokens)
    BY DEF SessionsInv, Ses!TypeOK, Ses!SessionsAssumption
  <2>2. /\ reset_tokens' \in Seq(BOOLEAN) /\ Len(reset_tokens') = new
        /\ \A n \in 1..Len(reset_tokens) : reset_tokens'[n] = reset_tokens[n]
        /\ DOMAIN reset_tokens' = 1..new
    <3>1. FALSE \in BOOLEAN /\ reset_tokens' = Append(reset_tokens, FALSE)
      BY <1>1
    <3>2. QED
      BY <2>1, <3>1, OneMore
  <2>3. \A n \in Ses!Usable' : n \in Ses!Usable \/ n = new
    BY <2>1, <2>2 DEF Ses!Usable
  <2>a. Len(reset_tokens) < SessionResets
    BY <1>1
  <2>b. new <= SessionResets
    BY <2>1, <2>a
  <2>4. QED
    BY <2>1, <2>2, <2>3, <2>b
<1>c. UNCHANGED <<refresh_tokens, is_deleted, session_logins, raced, session_missed, resets>>
  BY <1>1
<1>4. Ses!TypeOK'
  BY <1>2, <1>3, <1>c DEF SessionsInv, Ses!TypeOK
<1>5. TokensKnown'
  <2>1. Len(refresh_tokens') \in Nat /\ Len(refresh_tokens') >= Len(refresh_tokens)
    BY <1>c, SessionsCounted DEF SessionsInv
  <2>2. Len(reset_tokens') \in Nat /\ Len(reset_tokens') >= Len(reset_tokens)
    BY <1>3
  <2>3. QED
    BY <1>2, <2>1, <2>2, RowsStayKnown
<1>6. TokensAccounted'
  BY <1>1, <1>2, TokensUntouched
<1>a. \A d \in SessionCall : \/ request'[d] = request[d]
                             \/ /\ request[d].step \notin {"hash", "consume"}
                                /\ request'[d].step \notin {"hash", "consume"}
  BY <1>1, <1>2
<1>b. resets' = resets
  BY <1>1
<1>7. ASSUME NEW n \in 1..SessionResets PROVE ResetAccounted(n)'
  <2>1. CASE n # new
    <3>1. Len(reset_tokens') >= Len(reset_tokens) /\ Len(reset_tokens') \in Nat
      BY <1>3
    <3>2. n \in Ses!Usable' => n \in Ses!Usable
      BY <1>3, <2>1
    <3>3. QED
      BY <1>3, <1>a, <1>b, <3>1, <3>2, ResetKept
  <2>2. CASE n = new
    <3>1. resets[n].set = 0 /\ Holders(n) = {} /\ resets[n].held \in Nat
      BY <1>3, <2>2 DEF SessionsInv, ResetAccounted, Ses!TypeOK
    <3>2. Holders(n)' = {} /\ Hashing(n)' = {}
      BY <1>2, <3>1 DEF Holders, Hashing
    <3>3. Ses!Cardinality(Holders(n)') = 0 /\ Ses!Cardinality(Hashing(n)') = 0
      BY <3>2, FS_EmptySet, SesSizes
    <3>4. resets'[n] = resets[n] /\ ~(n > Len(reset_tokens'))
      BY <1>b, <1>3, <2>2
    <3>5. QED
      BY <3>1, <3>3, <3>4 DEF ResetAccounted
  <2>3. QED
    BY <2>1, <2>2
<1>8. QED
  BY <1>4, <1>5, <1>6, <1>7 DEF SessionsInv

\* A step of a request with one reset token is none with the others.
LEMMA OtherResetsKept ==
  ASSUME SessionsInv, NEW c \in SessionCall, NEW n, NEW m \in 1..SessionResets, m # n,
         request[c].step \in {"hash", "consume"} => request[c].row = n,
         request'[c].step \in {"hash", "consume"} => request'[c].row = n,
         \A d \in SessionCall \ {c} : request'[d] = request[d],
         resets'[m] = resets[m], m \in Ses!Usable' => m \in Ses!Usable,
         Len(reset_tokens') = Len(reset_tokens)
  PROVE  ResetAccounted(m)'
<1>1. Holders(m)' = Holders(m) /\ Hashing(m)' = Hashing(m)
  BY DEF Holders, Hashing
<1>2. ResetAccounted(m)
  BY DEF SessionsInv
<1>3. QED
  BY <1>1, <1>2 DEF ResetAccounted

LEMMA ValidateKeepsSessions ==
  ASSUME Ses!SessionsAssumption, SessionsInv, NEW c \in SessionCall, NEW n \in Ses!Usable, Ses!ValidateReset(c, n)
  PROVE  SessionsInv'
<1> DEFINE r == [step |-> "hash", row |-> n, raced |-> FALSE, logout |-> FALSE]
           held == IF Ses!Holding(n) + 1 > resets[n].held THEN Ses!Holding(n) + 1 ELSE resets[n].held
<1>1. /\ request[c] = Ses!Free /\ request' = [request EXCEPT ![c] = r]
      /\ resets' = [resets EXCEPT ![n].held = held]
      /\ UNCHANGED <<refresh_tokens, is_deleted, reset_tokens, session_logins, raced, session_missed>>
  BY DEF Ses!ValidateReset
<1>2. n \in 1..Len(reset_tokens) /\ n \in 1..SessionResets
  BY SMTT(30) DEF Ses!Usable, SessionsInv, Ses!TypeOK, Ses!SessionsAssumption
<1>3. /\ request' \in [SessionCall -> Ses!Requests] /\ request[c].step = "none"
      /\ request'[c].step = "hash" /\ request'[c].row = n
      /\ \A d \in SessionCall \ {c} : request'[d] = request[d]
  <2>1. request \in [SessionCall -> Ses!Requests]
    BY DEF SessionsInv, Ses!TypeOK
  <2>2. r \in Ses!Requests
    BY <1>2 DEF Ses!Requests, Ses!SessionsAssumption
  <2>3. r.step = "hash" /\ r.row = n
    OBVIOUS
  <2>4. request[c].step = "none"
    BY <1>1 DEF Ses!Free
  <2> HIDE DEF r
  <2>5. QED
    BY <1>1, <2>1, <2>2, <2>3, <2>4
<1>4. /\ Ses!Cardinality(Holders(n)) \in Nat /\ Ses!Cardinality(Hashing(n)) \in Nat
      /\ Ses!Holding(n) = Ses!Cardinality(Holders(n))
      /\ Ses!Cardinality(Holders(n) \cup {c}) = Ses!Cardinality(Holders(n)) + 1
      /\ Ses!Cardinality(Hashing(n) \cup {c}) = Ses!Cardinality(Hashing(n)) + 1
  <2>1. c \in SessionCall \ Holders(n) /\ c \in SessionCall \ Hashing(n)
    BY <1>3 DEF Holders, Hashing
  <2>2. QED
    BY <2>1, HoldersCounted
<1>5. resets \in [1..SessionResets -> [held : Nat, set : Nat]]
  BY DEF SessionsInv, Ses!TypeOK
<1>6. held \in Nat /\ held >= Ses!Cardinality(Holders(n)) + 1
  BY <1>2, <1>4, <1>5
<1> HIDE DEF r, held
<1>7. /\ resets' \in [1..SessionResets -> [held : Nat, set : Nat]]
      /\ resets'[n].held = held /\ resets'[n].set = resets[n].set
      /\ \A m \in 1..SessionResets : m # n => resets'[m] = resets[m]
  BY <1>1, <1>2, <1>5, <1>6
<1>8. Ses!TypeOK'
  BY <1>1, <1>3, <1>7 DEF SessionsInv, Ses!TypeOK
<1>9. TokensKnown'
  BY <1>1, <1>2, <1>3 DEF SessionsInv, TokensKnown
<1>10. TokensAccounted'
  BY <1>1, <1>3, TokensUntouched
<1>11. Ses!Usable' = Ses!Usable /\ Len(reset_tokens') = Len(reset_tokens)
  BY <1>1 DEF Ses!Usable
<1>12. ASSUME NEW m \in 1..SessionResets PROVE ResetAccounted(m)'
  <2>1. CASE m # n
    BY <1>3, <1>7, <1>11, <2>1, OtherResetsKept
  <2>2. CASE m = n
    <3>1. Holders(n)' = Holders(n) \cup {c} /\ Hashing(n)' = Hashing(n) \cup {c}
      BY <1>3 DEF Holders, Hashing
    <3>2. resets[n].set + Ses!Cardinality(Hashing(n)) = Ses!Cardinality(Holders(n)) /\ resets[n].set \in Nat
      BY <1>2, <1>5 DEF SessionsInv, ResetAccounted
    <3>3. QED
      BY <1>2, <1>4, <1>6, <1>7, <1>11, <2>2, <3>1, <3>2, SMTT(60) DEF ResetAccounted
  <2>3. QED
    BY <2>1, <2>2
<1>13. QED
  BY <1>8, <1>9, <1>10, <1>12 DEF SessionsInv

LEMMA SetKeepsSessions ==
  ASSUME Ses!SessionsAssumption, SessionsInv, NEW c \in SessionCall, Ses!SetPassword(c)
  PROVE  SessionsInv'
<1>0. PICK n : n = request[c].row
  OBVIOUS
<1>1. /\ request[c].step = "hash" /\ Ses!GoTo(c, "consume")
      /\ resets' = [resets EXCEPT ![n].set = @ + 1]
      /\ UNCHANGED <<refresh_tokens, is_deleted, reset_tokens, session_logins, raced, session_missed>>
  BY <1>0 DEF Ses!SetPassword, Ses!At
<1>2. n \in 1..Len(reset_tokens) /\ n \in 1..SessionResets
  <2>1. request[c].step \in {"hash", "consume"}
    BY <1>1
  <2>2. n \in 1..Len(reset_tokens)
    BY <1>0, <2>1 DEF SessionsInv, TokensKnown
  <2>3. Len(reset_tokens) <= SessionResets /\ SessionResets \in Nat /\ Len(reset_tokens) \in Nat
    BY SessionsCounted DEF SessionsInv, Ses!TypeOK, Ses!SessionsAssumption
  <2>4. QED
    BY <2>2, <2>3
<1>3. /\ request' \in [SessionCall -> Ses!Requests]
      /\ request'[c].step = "consume" /\ request'[c].row = n
      /\ \A d \in SessionCall \ {c} : request'[d] = request[d]
  BY <1>0, <1>1, RequestGoesOn DEF SessionsInv
<1>4. resets \in [1..SessionResets -> [held : Nat, set : Nat]]
  BY DEF SessionsInv, Ses!TypeOK
<1>5. /\ resets' \in [1..SessionResets -> [held : Nat, set : Nat]]
      /\ resets'[n].held = resets[n].held /\ resets'[n].set = resets[n].set + 1
      /\ \A m \in 1..SessionResets : m # n => resets'[m] = resets[m]
      /\ resets[n].set \in Nat /\ resets[n].held \in Nat
  BY <1>1, <1>2, <1>4
<1>6. Ses!TypeOK'
  BY <1>1, <1>3, <1>5 DEF SessionsInv, Ses!TypeOK
<1>7. TokensKnown'
  BY <1>1, <1>2, <1>3 DEF SessionsInv, TokensKnown
<1>8. TokensAccounted'
  BY <1>1, <1>3, TokensUntouched
<1>9. Ses!Usable' = Ses!Usable /\ Len(reset_tokens') = Len(reset_tokens)
  BY <1>1 DEF Ses!Usable
<1>10. request[c].row = n
  BY <1>0
<1>11. ASSUME NEW m \in 1..SessionResets PROVE ResetAccounted(m)'
  <2>1. CASE m # n
    BY <1>3, <1>5, <1>9, <1>10, <2>1, OtherResetsKept
  <2>2. CASE m = n
    <3>1. Holders(n)' = Holders(n) /\ Hashing(n)' = Hashing(n) \ {c} /\ c \in Hashing(n)
      BY <1>1, <1>3, <1>10 DEF Holders, Hashing
    <3>2. /\ Ses!Cardinality(Hashing(n)) = Ses!Cardinality(Hashing(n) \ {c}) + 1
          /\ Ses!Cardinality(Holders(n)) \in Nat /\ Ses!Cardinality(Hashing(n)) \in Nat
      BY <3>1, HoldersCounted
    <3>3. Ses!Cardinality(Hashing(n) \ {c}) \in Nat
      <4>1. Hashing(n) \ {c} \subseteq SessionCall
        BY DEF Hashing
      <4>2. QED
        BY <4>1, PartCounted, SesSizes DEF Ses!SessionsAssumption
    <3>4. ResetAccounted(n)
      BY <1>2 DEF SessionsInv
    <3>5. QED
      BY <1>2, <1>5, <1>9, <2>2, <3>1, <3>2, <3>3, <3>4, SMTT(60) DEF ResetAccounted
  <2>3. QED
    BY <2>1, <2>2
<1>12. QED
  BY <1>6, <1>7, <1>8, <1>11 DEF SessionsInv

LEMMA ConsumeKeepsSessions ==
  ASSUME Ses!SessionsAssumption, SessionsInv, NEW c \in SessionCall, Ses!ConsumeReset(c)
  PROVE  SessionsInv'
<1>0. PICK n : n = request[c].row
  OBVIOUS
<1>1. /\ request[c].step = "consume" /\ Ses!GoTo(c, "revoke_all")
      /\ reset_tokens' = [reset_tokens EXCEPT ![n] = TRUE]
      /\ UNCHANGED <<refresh_tokens, is_deleted, session_logins, raced, session_missed, resets>>
  BY <1>0 DEF Ses!ConsumeReset, Ses!At
<1>2. n \in 1..Len(reset_tokens) /\ n \in 1..SessionResets
  <2>1. request[c].step \in {"hash", "consume"}
    BY <1>1
  <2>2. n \in 1..Len(reset_tokens)
    BY <1>0, <2>1 DEF SessionsInv, TokensKnown
  <2>3. Len(reset_tokens) <= SessionResets /\ SessionResets \in Nat /\ Len(reset_tokens) \in Nat
    BY SessionsCounted DEF SessionsInv, Ses!TypeOK, Ses!SessionsAssumption
  <2>4. QED
    BY <2>2, <2>3
<1>3. /\ request' \in [SessionCall -> Ses!Requests] /\ request'[c].step = "revoke_all"
      /\ \A d \in SessionCall \ {c} : request'[d] = request[d]
  BY <1>1, RequestGoesOn DEF SessionsInv
<1>4. request[c].row = n
  BY <1>0
<1>5. /\ reset_tokens' \in Seq(BOOLEAN) /\ Len(reset_tokens') = Len(reset_tokens)
      /\ Len(reset_tokens) \in Nat
      /\ Ses!Usable' \subseteq Ses!Usable /\ n \notin Ses!Usable'
  <2>1. reset_tokens \in Seq(BOOLEAN) /\ Len(reset_tokens) \in Nat
    BY DEF SessionsInv, Ses!TypeOK
  <2>2. /\ reset_tokens' \in Seq(BOOLEAN) /\ Len(reset_tokens') = Len(reset_tokens)
        /\ DOMAIN reset_tokens' = DOMAIN reset_tokens /\ reset_tokens'[n] = TRUE
        /\ \A m \in DOMAIN reset_tokens : m # n => reset_tokens'[m] = reset_tokens[m]
    <3>1. TRUE \in BOOLEAN /\ reset_tokens' = [reset_tokens EXCEPT ![n] = TRUE]
      BY <1>1
    <3>2. QED
      BY <1>2, <2>1, <3>1, OneReplaced
  <2>3. QED
    BY <2>1, <2>2 DEF Ses!Usable
<1>6. Ses!TypeOK'
  BY <1>1, <1>3, <1>5 DEF SessionsInv, Ses!TypeOK
<1>7. TokensKnown'
  BY <1>1, <1>3, <1>5 DEF SessionsInv, TokensKnown
<1>8. TokensAccounted'
  BY <1>1, <1>3, TokensUntouched
<1>9. ASSUME NEW m \in 1..SessionResets PROVE ResetAccounted(m)'
  <2>1. CASE m # n
    BY <1>1, <1>3, <1>4, <1>5, <2>1, OtherResetsKept
  <2>2. CASE m = n
    <3>1. Hashing(n)' = Hashing(n)
      BY <1>1, <1>3 DEF Hashing
    <3>2. ResetAccounted(n)
      BY <1>2 DEF SessionsInv
    <3>a. resets' = resets
      BY <1>1
    <3>3. resets' = resets /\ ~(n > Len(reset_tokens'))
      BY <1>2, <1>5, <3>a
    <3>4. QED
      BY <1>5, <2>2, <3>1, <3>2, <3>3 DEF ResetAccounted
  <2>3. QED
    BY <2>1, <2>2
<1>10. QED
  BY <1>6, <1>7, <1>8, <1>9 DEF SessionsInv

LEMMA SessionsStep ==
  ASSUME Ses!SessionsAssumption, SessionsInv, Ses!Next \/ UNCHANGED sessionVars
  PROVE  SessionsInv'
<1>1. CASE Ses!DeleteUser \/ UNCHANGED sessionVars
  BY <1>1, DeleteKeepsSessions
<1>2. ASSUME NEW c \in SessionCall,
             \/ Ses!Login(c) \/ Ses!IssueLogin(c)
             \/ \E logout \in BOOLEAN, presented \in Ses!Rows : Ses!ReadTokens(c, logout, presented)
             \/ Ses!ReusedToken(c) \/ Ses!RevokeToken(c) \/ Ses!IssueSuccessor(c) \/ Ses!RevokeEverything(c)
      PROVE  SessionsInv'
  BY <1>2, LoginKeepsSessions, IssueLoginKeepsSessions, ReadKeepsSessions, ReusedKeepsSessions,
     RevokeKeepsSessions, SuccessorKeepsSessions, RevokeAllKeepsSessions
<1>3. ASSUME NEW c \in SessionCall,
             \/ Ses!InvalidateResets(c) \/ Ses!CreateReset(c) \/ Ses!SetPassword(c) \/ Ses!ConsumeReset(c)
             \/ \E n \in Ses!Usable : Ses!ValidateReset(c, n)
      PROVE  SessionsInv'
  BY <1>3, InvalidateKeepsSessions, CreateKeepsSessions, SetKeepsSessions, ConsumeKeepsSessions,
     ValidateKeepsSessions
<1>4. QED
  BY <1>1, <1>2, <1>3 DEF Ses!Next

LEMMA SessionsHold ==
  ASSUME Ses!SessionsAssumption, SessionsInv
  PROVE  Ses!TypeOK /\ Ses!ActiveTokensBounded /\ Ses!ResetTokenUsedUp
<1>1. Ses!ActiveTokensBounded
  <2>1. Ses!Cardinality(Ses!Active) \in Nat /\ Ses!Cardinality(Successors) \in Nat /\ session_logins \in Nat /\ raced \in Nat
    BY SessionsCounted DEF SessionsInv, Ses!TypeOK
  <2>2. QED
    BY <2>1 DEF SessionsInv, TokensAccounted, Ses!ActiveTokensBounded
<1>2. ASSUME NEW n \in DOMAIN reset_tokens PROVE resets[n].set <= resets[n].held
  <2>1. n \in 1..SessionResets /\ resets[n].set \in Nat /\ resets[n].held \in Nat
    BY DEF SessionsInv, Ses!TypeOK, Ses!SessionsAssumption
  <2>2. Ses!Cardinality(Hashing(n)) \in Nat
    BY HoldersCounted
  <2>3. QED
    BY <2>1, <2>2 DEF SessionsInv, ResetAccounted
<1>3. QED
  BY <1>1, <1>2 DEF SessionsInv, Ses!ResetTokenUsedUp

----
(* Payments *)

\* Finite sets and their sizes are the library's.
LEMMA PaySizes ==
  /\ \A S : Pay!IsFiniteSet(S) <=> IsFiniteSet(S)
  /\ \A S : Pay!Cardinality(S) = Cardinality(S)
BY Zenon DEF Pay!IsFiniteSet, Pay!Cardinality, IsFiniteSet, Cardinality

\* The transactions of a request that the ledger has applied, or may still apply.
Numbers(r) == {n \in 1..Pay!Builds : <<r, n>> \in applied \/ \E t \in pending : t.r = r /\ t.n = n}

\* The inductive invariant: a request builds one transaction when it loads the account
\* first, one after tx_bad_seq and one for every fee bump, ...
FitsIn(p, n) ==
  /\ p.refreshed => n <= 2 + p.attempt
  /\ ~p.refreshed => n <= 1 + p.attempt

BuildsBounded(p) ==
  /\ p.step \in {"none", "refused", "load"} => p.n = 0
  /\ p.step \in {"submit", "submit_bump"} => p.n >= 1
  /\ p.step = "refresh" => ~p.refreshed
  /\ FitsIn(p, p.n)
  /\ p.step = "bump" => FitsIn(p, p.n + 1)

\* ... all of them but one are lost, and the last one as well unless it was paid.
LossesAccounted(r) ==
  /\ Pay!Cardinality(Numbers(r)) <= pay_lost[r] + (IF Pay!At(r, {"store", "submitted"}) THEN 1 ELSE 0)
  /\ Pay!At(r, {"store", "submitted"}) => \E n \in 1..Pay!Builds : <<r, n>> \in applied
  /\ r \in transfers => Pay!At(r, {"submitted"})
  /\ pay_lost[r] <= pay_mishaps

PaymentsInv ==
  Pay!TypeOK /\ \A r \in PaymentRequest : BuildsBounded(payment[r]) /\ LossesAccounted(r)

LEMMA BuildsNumber == ASSUME Pay!PaymentsAssumption PROVE Pay!Builds \in Nat /\ Pay!Builds = 2 + PaymentBumps
BY DEF Pay!PaymentsAssumption, Pay!Builds

LEMMA NumbersCounted ==
  ASSUME Pay!PaymentsAssumption, NEW r, NEW S, S \subseteq 1..Pay!Builds
  PROVE  /\ Numbers(r) \subseteq 1..Pay!Builds
         /\ Pay!Cardinality(Numbers(r)) \in Nat
         /\ Pay!Cardinality(S) \in Nat
         /\ \A n \in 1..Pay!Builds : Pay!Cardinality(S \cup {n}) <= Pay!Cardinality(S) + 1 /\ Pay!Cardinality(S \cup {n}) \in Nat
         /\ \A T : T \subseteq S => Pay!Cardinality(T) \in Nat /\ Pay!Cardinality(T) <= Pay!Cardinality(S)
<1>1. Pay!IsFiniteSet(1..Pay!Builds)
  BY BuildsNumber, FS_Interval, PaySizes
<1>2. Numbers(r) \subseteq 1..Pay!Builds
  BY DEF Numbers
<1>3. Pay!Cardinality(Numbers(r)) \in Nat /\ Pay!Cardinality(S) \in Nat
  BY <1>1, <1>2, PartCounted, PaySizes
<1>4. ASSUME NEW n \in 1..Pay!Builds
      PROVE  Pay!Cardinality(S \cup {n}) <= Pay!Cardinality(S) + 1 /\ Pay!Cardinality(S \cup {n}) \in Nat
  BY <1>1, FS_Subset, OneMoreAtMost, PaySizes
<1>5. ASSUME NEW T, T \subseteq S PROVE Pay!Cardinality(T) \in Nat /\ Pay!Cardinality(T) <= Pay!Cardinality(S)
  <2>1. Pay!IsFiniteSet(S)
    BY <1>1, FS_Subset, PaySizes
  <2>2. QED
    BY <1>5, <2>1, PartCounted, PaySizes
<1>6. QED
  BY <1>2, <1>3, <1>4, <1>5

LEMMA PaymentsInit == ASSUME Pay!PaymentsAssumption, Pay!Init PROVE PaymentsInv
<1> DEFINE p == [step |-> "none", n |-> 0, seq |-> 0, timeouts |-> 0, refreshed |-> FALSE, attempt |-> 0]
<1>1. p \in Pay!Payment /\ p.step = "none" /\ BuildsBounded(p)
  BY BuildsNumber DEF Pay!PaymentsAssumption, Pay!Payment, BuildsBounded, FitsIn
<1> HIDE DEF p
<1>2. payment = [r \in PaymentRequest |-> p]
  BY DEF Pay!Init, p
<1>3. Pay!TypeOK
  <2>1. payment \in [PaymentRequest -> Pay!Payment]
    BY <1>1, <1>2
  <2>2. /\ payment_sequence \in Nat /\ payment_balance \in 0..PaymentBalance /\ readable \in BOOLEAN
        /\ pending \subseteq Pay!Transaction /\ transfers \subseteq PaymentRequest
        /\ applied \subseteq PaymentRequest \X (1..Pay!Builds) /\ pay_mishaps \in 0..PaymentMishaps
        /\ pay_lost \in [PaymentRequest -> 0..PaymentMishaps]
    BY DEF Pay!Init, Pay!PaymentsAssumption
  <2>3. QED
    BY <2>1, <2>2 DEF Pay!TypeOK
<1>4. ASSUME NEW r \in PaymentRequest PROVE BuildsBounded(payment[r]) /\ LossesAccounted(r)
  <2>1. Numbers(r) = {}
    BY DEF Pay!Init, Numbers
  <2>2. payment[r] = p /\ pay_lost[r] = 0 /\ pay_mishaps = 0 /\ transfers = {}
    BY <1>2 DEF Pay!Init
  <2>3. ~Pay!At(r, {"store", "submitted"})
    BY <1>1, <2>2 DEF Pay!At
  <2>4. QED
    BY <1>1, <2>1, <2>2, <2>3, FS_EmptySet, PaySizes DEF LossesAccounted
<1>5. QED
  BY <1>3, <1>4 DEF PaymentsInv

\* The others lose no payment and gain none.
LEMMA OthersKept ==
  ASSUME Pay!PaymentsAssumption, PaymentsInv, NEW q \in PaymentRequest,
         payment'[q] = payment[q], pay_lost'[q] = pay_lost[q], q \in transfers' => q \in transfers,
         pay_mishaps' \in Nat, pay_mishaps <= pay_mishaps',
         applied \subseteq applied', Numbers(q)' \subseteq Numbers(q)
  PROVE  BuildsBounded(payment'[q]) /\ LossesAccounted(q)'
<1>1. BuildsBounded(payment[q]) /\ LossesAccounted(q)
  BY DEF PaymentsInv
<1>2. Pay!At(q, {"store", "submitted"})' <=> Pay!At(q, {"store", "submitted"})
  BY DEF Pay!At
<1>3. Pay!At(q, {"submitted"})' <=> Pay!At(q, {"submitted"})
  BY DEF Pay!At
<1>4. Pay!Cardinality(Numbers(q)') <= Pay!Cardinality(Numbers(q)) /\ Pay!Cardinality(Numbers(q)') \in Nat
      /\ Pay!Cardinality(Numbers(q)) \in Nat
  BY NumbersCounted
<1>5. pay_lost[q] \in Nat /\ pay_mishaps \in Nat
  BY DEF PaymentsInv, Pay!TypeOK
<1>6. Pay!Cardinality(Numbers(q)') <= pay_lost'[q] + (IF Pay!At(q, {"store", "submitted"})' THEN 1 ELSE 0)
  BY <1>1, <1>2, <1>4, <1>5 DEF LossesAccounted
<1>7. Pay!At(q, {"store", "submitted"})' => \E n \in 1..Pay!Builds : <<q, n>> \in applied'
  BY <1>1, <1>2 DEF LossesAccounted
<1>8. pay_lost'[q] <= pay_mishaps' /\ (q \in transfers' => Pay!At(q, {"submitted"})')
  BY <1>1, <1>3, <1>5 DEF LossesAccounted
<1>9. QED
  BY <1>1, <1>6, <1>7, <1>8 DEF LossesAccounted

\* Nothing is taken: a request goes on with its payment.
LEMMA PaymentGoesOn ==
  ASSUME Pay!PaymentsAssumption, PaymentsInv, NEW r \in PaymentRequest, NEW p \in Pay!Payment,
         payment' = [payment EXCEPT ![r] = p], BuildsBounded(p),
         p.step \in {"store", "submitted"} =>
           payment[r].step \in {"store", "submitted"} \/ \E n \in 1..Pay!Builds : <<r, n>> \in applied,
         payment[r].step \in {"store", "submitted"} => p.step \in {"store", "submitted"},
         payment[r].step = "submitted" => p.step = "submitted",
         transfers' \subseteq transfers \cup {r}, r \in transfers' \ transfers => p.step = "submitted",
         UNCHANGED <<payment_sequence, payment_balance, pending, readable, applied, pay_lost>>,
         pay_mishaps' \in 0..PaymentMishaps, pay_mishaps <= pay_mishaps'
  PROVE  PaymentsInv'
<1>1. payment' \in [PaymentRequest -> Pay!Payment] /\ payment'[r] = p
      /\ \A q \in PaymentRequest \ {r} : payment'[q] = payment[q]
  BY DEF PaymentsInv, Pay!TypeOK
<1>2. Pay!TypeOK'
  BY <1>1 DEF PaymentsInv, Pay!TypeOK
<1>3. \A q : Numbers(q)' = Numbers(q)
  BY DEF Numbers
<1>4. pay_mishaps' \in Nat
  OBVIOUS
<1>5. ASSUME NEW q \in PaymentRequest, q # r PROVE BuildsBounded(payment'[q]) /\ LossesAccounted(q)'
  BY <1>1, <1>3, <1>4, <1>5, OthersKept
<1>6. LossesAccounted(r)'
  <2>1. LossesAccounted(r)
    BY DEF PaymentsInv
  <2>2. Pay!At(r, {"store", "submitted"})' <=> p.step \in {"store", "submitted"}
    BY <1>1 DEF Pay!At
  <2>3. Pay!At(r, {"submitted"})' <=> p.step = "submitted"
    BY <1>1 DEF Pay!At
  <2>4. Pay!At(r, {"store", "submitted"}) <=> payment[r].step \in {"store", "submitted"}
    BY DEF Pay!At
  <2>5. Pay!Cardinality(Numbers(r)') = Pay!Cardinality(Numbers(r)) /\ Pay!Cardinality(Numbers(r)) \in Nat
    BY <1>3, NumbersCounted
  <2>6. pay_lost'[r] = pay_lost[r] /\ pay_lost[r] \in Nat /\ pay_mishaps \in Nat
    BY DEF PaymentsInv, Pay!TypeOK
  <2>7. Pay!Cardinality(Numbers(r)') <= pay_lost'[r] + (IF Pay!At(r, {"store", "submitted"})' THEN 1 ELSE 0)
    BY <2>1, <2>2, <2>4, <2>5, <2>6 DEF LossesAccounted
  <2>8. Pay!At(r, {"store", "submitted"})' => \E n \in 1..Pay!Builds : <<r, n>> \in applied'
    BY <2>1, <2>2, <2>4 DEF LossesAccounted
  <2>9. r \in transfers' => Pay!At(r, {"submitted"})'
    <3>1. Pay!At(r, {"submitted"}) <=> payment[r].step = "submitted"
      BY DEF Pay!At
    <3>2. QED
      BY <2>1, <2>3, <3>1 DEF LossesAccounted
  <2>10. pay_lost'[r] <= pay_mishaps'
    BY <1>4, <2>1, <2>6 DEF LossesAccounted
  <2>11. QED
    BY <2>7, <2>8, <2>9, <2>10 DEF LossesAccounted
<1>7. QED
  BY <1>1, <1>2, <1>5, <1>6 DEF PaymentsInv

\* A payment at another step.
LEMMA MovesTo ==
  ASSUME NEW p \in Pay!Payment,
         NEW step \in {"none", "refused", "load", "refresh", "bump", "submit", "submit_bump",
                       "store", "submitted", "failed"}
  PROVE  /\ [p EXCEPT !.step = step] \in Pay!Payment /\ [p EXCEPT !.step = step].step = step
         /\ [p EXCEPT !.step = step].n = p.n /\ [p EXCEPT !.step = step].refreshed = p.refreshed
         /\ [p EXCEPT !.step = step].attempt = p.attempt
BY DEF Pay!Payment

LEMMA PaymentFields ==
  ASSUME NEW p \in Pay!Payment, Pay!PaymentsAssumption
  PROVE  /\ p.n \in 0..Pay!Builds /\ p.seq \in Nat /\ p.timeouts \in 0..PaymentRetries - 1
         /\ p.refreshed \in BOOLEAN /\ p.attempt \in 0..PaymentBumps
         /\ p.attempt \in Nat /\ p.n \in Nat
<1>1. /\ p.n \in 0..Pay!Builds /\ p.seq \in Nat /\ p.timeouts \in 0..PaymentRetries - 1
      /\ p.refreshed \in BOOLEAN /\ p.attempt \in 0..PaymentBumps
  BY DEF Pay!Payment
<1>2. Pay!Builds \in Nat /\ PaymentBumps \in Nat
  BY BuildsNumber DEF Pay!PaymentsAssumption
<1>3. QED
  BY <1>1, <1>2

LEMMA CheckKeepsPayments ==
  ASSUME Pay!PaymentsAssumption, PaymentsInv, NEW r \in PaymentRequest, Pay!CheckBalance(r)
  PROVE  PaymentsInv'
<1> DEFINE step == IF payment_balance > 0 THEN "load" ELSE "refused"
           p == [payment[r] EXCEPT !.step = step]
<1>1. /\ payment[r].step = "none" /\ payment' = [payment EXCEPT ![r].step = step]
      /\ UNCHANGED <<payment_sequence, payment_balance, pending, readable, transfers, applied, pay_lost, pay_mishaps>>
  BY DEF Pay!CheckBalance, Pay!At, Pay!GoTo
<1>2. payment[r] \in Pay!Payment /\ step \in {"load", "refused"} /\ BuildsBounded(payment[r])
      /\ pay_mishaps \in 0..PaymentMishaps /\ PaymentMishaps \in Nat
  BY DEF PaymentsInv, Pay!TypeOK, Pay!PaymentsAssumption
<1>a. step \in {"none", "refused", "load", "refresh", "bump", "submit", "submit_bump",
                "store", "submitted", "failed"}
  BY <1>2
<1> HIDE DEF step
<1>3. /\ p \in Pay!Payment /\ p.step = step /\ p.n = payment[r].n
      /\ p.refreshed = payment[r].refreshed /\ p.attempt = payment[r].attempt
  <2>1. PICK q \in Pay!Payment : q = payment[r]
    BY <1>2
  <2>2. /\ [q EXCEPT !.step = step] \in Pay!Payment /\ [q EXCEPT !.step = step].step = step
        /\ [q EXCEPT !.step = step].n = q.n /\ [q EXCEPT !.step = step].refreshed = q.refreshed
        /\ [q EXCEPT !.step = step].attempt = q.attempt
    BY <1>a DEF Pay!Payment
  <2>3. p = [q EXCEPT !.step = step]
    BY <2>1, Zenon
  <2>4. QED
    BY <2>1, <2>2, <2>3
<1>4. payment' = [payment EXCEPT ![r] = p]
  BY <1>1
<1> HIDE DEF p
<1>5. BuildsBounded(p)
  BY <1>1, <1>2, <1>3, PaymentFields DEF BuildsBounded, FitsIn
<1>6. p.step \notin {"store", "submitted"} /\ payment[r].step \notin {"store", "submitted"}
  BY <1>1, <1>2, <1>3
<1>7. pay_mishaps' \in 0..PaymentMishaps /\ pay_mishaps <= pay_mishaps'
  BY <1>1, <1>2
<1>8. QED
  BY <1>1, <1>3, <1>4, <1>5, <1>6, <1>7, PaymentGoesOn

LEMMA LoadKeepsPayments ==
  ASSUME Pay!PaymentsAssumption, PaymentsInv, NEW r \in PaymentRequest, Pay!Load(r)
  PROVE  PaymentsInv'
<1> DEFINE o == payment[r]
           step == IF o.step = "bump" THEN "submit_bump" ELSE "submit"
           renewed == o.refreshed \/ o.step = "refresh"
           p == [step |-> step, n |-> o.n + 1, seq |-> payment_sequence + 1, timeouts |-> o.timeouts,
                 refreshed |-> renewed, attempt |-> o.attempt]
<1>1. /\ o.step \in {"load", "refresh", "bump"} /\ payment' = [payment EXCEPT ![r] = p]
      /\ UNCHANGED <<payment_sequence, payment_balance, pending, readable, transfers, applied, pay_lost, pay_mishaps>>
  BY DEF Pay!Load, Pay!At
<1>2. o \in Pay!Payment /\ step \in {"submit", "submit_bump"} /\ BuildsBounded(o)
      /\ pay_mishaps \in 0..PaymentMishaps /\ PaymentMishaps \in Nat /\ payment_sequence \in Nat
  BY DEF PaymentsInv, Pay!TypeOK, Pay!PaymentsAssumption
<1>3. renewed \in BOOLEAN
  OBVIOUS
<1>a. /\ o.n \in Nat /\ o.attempt \in Nat /\ o.refreshed \in BOOLEAN
      /\ o.attempt <= PaymentBumps
  BY <1>2, PaymentFields DEF Pay!PaymentsAssumption
<1>4. /\ renewed => o.n + 1 <= 2 + o.attempt
      /\ ~renewed => o.n + 1 <= 1 + o.attempt
  <2>1. CASE o.step = "load"
    <3>1. o.n = 0
      BY <1>2, <2>1 DEF BuildsBounded
    <3>2. QED
      BY <1>a, <3>1
  <2>2. CASE o.step = "refresh"
    <3>1. ~o.refreshed /\ FitsIn(o, o.n)
      BY <1>2, <2>2 DEF BuildsBounded
    <3>2. o.n <= 1 + o.attempt
      BY <3>1 DEF FitsIn
    <3>3. renewed
      BY <2>2
    <3>4. QED
      BY <1>a, <3>2, <3>3
  <2>3. CASE o.step = "bump"
    <3>1. FitsIn(o, o.n + 1)
      BY <1>2, <2>3 DEF BuildsBounded
    <3>2. renewed <=> o.refreshed
      BY <2>3
    <3>3. QED
      BY <3>1, <3>2 DEF FitsIn
  <2>4. QED
    BY <1>1, <2>1, <2>2, <2>3
<1>5. o.n + 1 \in 0..Pay!Builds /\ o.n \in Nat
  <2>1. PaymentBumps \in Nat /\ Pay!Builds = 2 + PaymentBumps
    BY BuildsNumber DEF Pay!PaymentsAssumption
  <2>2. o.n + 1 <= 2 + o.attempt
    BY <1>a, <1>4
  <2>3. QED
    BY <1>a, <2>1, <2>2
<1> HIDE DEF renewed, step
<1>6. p \in Pay!Payment
  <2>a. o \in Pay!Payment /\ payment_sequence \in Nat
    BY <1>2
  <2>b. payment_sequence + 1 \in Nat
    BY <2>a
  <2>1. /\ o.timeouts \in 0..PaymentRetries - 1 /\ o.attempt \in 0..PaymentBumps
        /\ payment_sequence + 1 \in Nat
    BY <2>a, <2>b, PaymentFields
  <2>2. QED
    BY <1>2, <1>3, <1>5, <2>1 DEF Pay!Payment
<1>7. p.step = step /\ p.n = o.n + 1 /\ p.refreshed = renewed /\ p.attempt = o.attempt
  OBVIOUS
<1> HIDE DEF p
<1>8. BuildsBounded(p)
  <2>1. FitsIn(p, p.n)
    BY <1>4, <1>7 DEF FitsIn
  <2>2. p.n >= 1
    BY <1>5, <1>7
  <2>3. QED
    BY <1>2, <1>7, <2>1, <2>2 DEF BuildsBounded
<1>9. p.step \notin {"store", "submitted"} /\ o.step \notin {"store", "submitted"}
  BY <1>1, <1>2, <1>7
<1>10. pay_mishaps' \in 0..PaymentMishaps /\ pay_mishaps <= pay_mishaps'
  <2>1. pay_mishaps' = pay_mishaps /\ pay_mishaps \in 0..PaymentMishaps /\ PaymentMishaps \in Nat
    BY <1>1, <1>2
  <2>2. QED
    BY <2>1
<1>11. QED
  BY <1>1, <1>6, <1>8, <1>9, <1>10, PaymentGoesOn

LEMMA LoadFailsKeepsPayments ==
  ASSUME Pay!PaymentsAssumption, PaymentsInv, NEW r \in PaymentRequest, Pay!LoadFails(r)
  PROVE  PaymentsInv'
<1> DEFINE p == [payment[r] EXCEPT !.step = "failed"]
<1>1. /\ payment[r].step \in {"load", "refresh", "bump"} /\ payment' = [payment EXCEPT ![r].step = "failed"]
      /\ pay_mishaps < PaymentMishaps /\ pay_mishaps' = pay_mishaps + 1
      /\ UNCHANGED <<payment_sequence, payment_balance, pending, readable, transfers, applied, pay_lost>>
  BY DEF Pay!LoadFails, Pay!At, Pay!GoTo, Pay!Mishap
<1>2. payment[r] \in Pay!Payment /\ BuildsBounded(payment[r])
      /\ pay_mishaps \in 0..PaymentMishaps /\ PaymentMishaps \in Nat
  BY DEF PaymentsInv, Pay!TypeOK, Pay!PaymentsAssumption
<1>3. /\ p \in Pay!Payment /\ p.step = "failed" /\ p.n = payment[r].n
      /\ p.refreshed = payment[r].refreshed /\ p.attempt = payment[r].attempt
  BY <1>2, MovesTo
<1>4. payment' = [payment EXCEPT ![r] = p]
  BY <1>1
<1> HIDE DEF p
<1>5. BuildsBounded(p)
  BY <1>1, <1>2, <1>3, PaymentFields DEF BuildsBounded, FitsIn
<1>6. pay_mishaps' \in 0..PaymentMishaps /\ pay_mishaps <= pay_mishaps'
  BY <1>1, <1>2
<1>7. QED
  BY <1>1, <1>2, <1>3, <1>4, <1>5, <1>6, PaymentGoesOn

LEMMA StoreKeepsPayments ==
  ASSUME Pay!PaymentsAssumption, PaymentsInv, NEW r \in PaymentRequest, Pay!Store(r)
  PROVE  PaymentsInv'
<1> DEFINE p == [payment[r] EXCEPT !.step = "submitted"]
<1>1. /\ payment[r].step = "store" /\ payment' = [payment EXCEPT ![r].step = "submitted"]
      /\ transfers' \subseteq transfers \cup {r}
      /\ pay_mishaps' = pay_mishaps \/ (pay_mishaps < PaymentMishaps /\ pay_mishaps' = pay_mishaps + 1)
      /\ UNCHANGED <<payment_sequence, payment_balance, pending, readable, applied, pay_lost>>
  BY DEF Pay!Store, Pay!At, Pay!GoTo, Pay!Mishap
<1>2. payment[r] \in Pay!Payment /\ BuildsBounded(payment[r])
      /\ pay_mishaps \in 0..PaymentMishaps /\ PaymentMishaps \in Nat
  BY DEF PaymentsInv, Pay!TypeOK, Pay!PaymentsAssumption
<1>3. /\ p \in Pay!Payment /\ p.step = "submitted" /\ p.n = payment[r].n
      /\ p.refreshed = payment[r].refreshed /\ p.attempt = payment[r].attempt
  BY <1>2, MovesTo
<1>4. payment' = [payment EXCEPT ![r] = p]
  BY <1>1
<1> HIDE DEF p
<1>5. BuildsBounded(p)
  BY <1>1, <1>2, <1>3, PaymentFields DEF BuildsBounded, FitsIn
<1>6. pay_mishaps' \in 0..PaymentMishaps /\ pay_mishaps <= pay_mishaps'
  BY <1>1, <1>2
<1>7. QED
  BY <1>1, <1>2, <1>3, <1>4, <1>5, <1>6, PaymentGoesOn

\* What is submitted has been built.
LEMMA SubmittedNumber ==
  ASSUME Pay!PaymentsAssumption, NEW p \in Pay!Payment, p.step \in {"submit", "submit_bump"}, BuildsBounded(p)
  PROVE  p.n \in 1..Pay!Builds /\ p.seq \in Nat
<1>1. PICK n : n = p.n
  OBVIOUS
<1>2. n \in 0..Pay!Builds /\ p.seq \in Nat /\ Pay!Builds \in Nat
  BY <1>1, PaymentFields, BuildsNumber
<1>3. n >= 1
  BY <1>1 DEF BuildsBounded
<1>4. n \in 1..Pay!Builds
  BY <1>2, <1>3
<1>5. QED
  BY <1>1, <1>2, <1>4

\* What a request does with an answer.
LEMMA AnsweredKeeps ==
  ASSUME Pay!PaymentsAssumption, NEW p \in Pay!Payment, p.step \in {"submit", "submit_bump"},
         BuildsBounded(p), NEW answer
  PROVE  /\ Pay!Answered(p, answer) \in Pay!Payment /\ BuildsBounded(Pay!Answered(p, answer))
         /\ Pay!Answered(p, answer).step \in {"store", "refresh", "bump", "failed", "submit", "submit_bump"}
         /\ Pay!Answered(p, answer).step = "store" <=> answer = "ok"
<1>1. ASSUME NEW step \in {"store", "refresh", "failed"}, step = "refresh" => ~p.refreshed
      PROVE  /\ [p EXCEPT !.step = step] \in Pay!Payment /\ BuildsBounded([p EXCEPT !.step = step])
             /\ [p EXCEPT !.step = step].step = step
  <2> DEFINE q == [p EXCEPT !.step = step]
  <2>a. step \in {"none", "refused", "load", "refresh", "bump", "submit", "submit_bump",
                  "store", "submitted", "failed"}
    OBVIOUS
  <2>1. /\ q \in Pay!Payment /\ q.step = step /\ q.n = p.n /\ q.refreshed = p.refreshed
        /\ q.attempt = p.attempt
    BY <2>a DEF Pay!Payment
  <2> HIDE DEF q
  <2>2. BuildsBounded(q)
    BY <1>1, <2>1, PaymentFields DEF BuildsBounded, FitsIn
  <2>3. QED
    BY <2>1, <2>2 DEF q
<1>2. /\ Pay!Bump(p) \in Pay!Payment /\ BuildsBounded(Pay!Bump(p)) /\ Pay!Bump(p).step \in {"bump", "failed"}
  <2>1. CASE p.attempt < PaymentBumps
    <3> DEFINE q == [step |-> "bump", n |-> p.n, seq |-> p.seq, timeouts |-> p.timeouts,
                     refreshed |-> p.refreshed, attempt |-> p.attempt + 1]
    <3>1. Pay!Bump(p) = q
      BY <2>1 DEF Pay!Bump
    <3>a. p.attempt \in Nat /\ PaymentBumps \in Nat /\ p.n \in Nat
      BY PaymentFields DEF Pay!PaymentsAssumption
    <3>d. PICK a : a = p.attempt
      OBVIOUS
    <3>e. a + 1 \in 0..PaymentBumps
      BY <2>1, <3>a, <3>d
    <3>2. p.attempt + 1 \in 0..PaymentBumps
      BY <3>d, <3>e
    <3>3. q \in Pay!Payment
      BY <3>2, PaymentFields DEF Pay!Payment
    <3>4. q.step = "bump" /\ q.n = p.n /\ q.refreshed = p.refreshed /\ q.attempt = p.attempt + 1
      OBVIOUS
    <3> HIDE DEF q
    <3>b. FitsIn(p, p.n)
      BY DEF BuildsBounded
    <3>c. FitsIn(q, q.n) /\ FitsIn(q, q.n + 1)
      <4>1. PICK k, n : k = p.attempt /\ n = p.n
        OBVIOUS
      <4>2. k \in Nat /\ n \in Nat /\ (p.refreshed => n <= 2 + k) /\ (~p.refreshed => n <= 1 + k)
        BY <3>a, <3>b, <4>1 DEF FitsIn
      <4>3. /\ p.refreshed => n <= 2 + (k + 1) /\ n + 1 <= 2 + (k + 1)
            /\ ~p.refreshed => n <= 1 + (k + 1) /\ n + 1 <= 1 + (k + 1)
        BY <4>2
      <4>4. q.n = n /\ q.attempt = k + 1 /\ (q.refreshed <=> p.refreshed)
        BY <3>4, <4>1
      <4>5. QED
        BY <4>3, <4>4 DEF FitsIn
    <3>5. BuildsBounded(q)
      BY <3>4, <3>c DEF BuildsBounded
    <3>6. QED
      BY <3>1, <3>3, <3>4, <3>5
  <2>2. CASE ~(p.attempt < PaymentBumps)
    <3>1. Pay!Bump(p) = [p EXCEPT !.step = "failed"]
      BY <2>2 DEF Pay!Bump
    <3>2. QED
      BY <1>1, <3>1
  <2>3. QED
    BY <2>1, <2>2
<1>3. CASE answer = "ok"
  <2>1. Pay!Answered(p, answer) = [p EXCEPT !.step = "store"]
    BY <1>3 DEF Pay!Answered
  <2>2. QED
    BY <1>1, <1>3, <2>1
<1>4. CASE answer # "ok" /\ answer = "tx_bad_seq" /\ readable /\ p.step = "submit" /\ ~p.refreshed
  <2>1. Pay!Answered(p, answer) = [p EXCEPT !.step = "refresh"]
    BY <1>4 DEF Pay!Answered
  <2>2. QED
    BY <1>1, <1>4, <2>1
<1>5. CASE /\ answer # "ok" /\ ~(answer = "tx_bad_seq" /\ readable /\ p.step = "submit" /\ ~p.refreshed)
           /\ answer \in {"tx_bad_seq", "tx_insufficient_fee"} /\ readable
  <2>1. Pay!Answered(p, answer) = Pay!Bump(p)
    BY <1>5 DEF Pay!Answered
  <2>2. QED
    BY <1>2, <1>5, <2>1
<1>6. CASE answer = "timeout" /\ p.step = "submit" /\ p.timeouts < PaymentRetries - 1
  <2> DEFINE q == [p EXCEPT !.timeouts = @ + 1]
  <2>1. Pay!Answered(p, answer) = q
    BY <1>6 DEF Pay!Answered
  <2>2. p.timeouts + 1 \in 0..PaymentRetries - 1
    BY <1>6, PaymentFields DEF Pay!PaymentsAssumption
  <2>3. /\ q \in Pay!Payment /\ q.step = p.step /\ q.n = p.n /\ q.refreshed = p.refreshed
        /\ q.attempt = p.attempt
    BY <2>2 DEF Pay!Payment
  <2> HIDE DEF q
  <2>4. BuildsBounded(q)
    BY <2>3 DEF BuildsBounded, FitsIn
  <2>5. QED
    BY <1>6, <2>1, <2>3, <2>4
<1>7. CASE /\ answer # "ok" /\ ~(answer \in {"tx_bad_seq", "tx_insufficient_fee"} /\ readable)
           /\ ~(answer = "timeout" /\ p.step = "submit" /\ p.timeouts < PaymentRetries - 1)
  <2>1. Pay!Answered(p, answer) = [p EXCEPT !.step = "failed"]
    BY <1>7 DEF Pay!Answered
  <2>2. QED
    BY <1>1, <1>7, <2>1
<1>8. QED
  BY <1>3, <1>4, <1>5, <1>6, <1>7

\* A submission that is answered and takes nothing.
LEMMA AnswerKeepsPayments ==
  ASSUME Pay!PaymentsAssumption, PaymentsInv, NEW r \in PaymentRequest, Pay!Submitting(r), NEW answer,
         Pay!Answer(r, answer), answer = "ok" => Pay!IsApplied(r), Pay!LedgerUnchanged,
         UNCHANGED <<readable, transfers, pay_lost>>,
         pay_mishaps' \in 0..PaymentMishaps, pay_mishaps <= pay_mishaps'
  PROVE  PaymentsInv'
<1> DEFINE p == Pay!Answered(payment[r], answer)
<1>1. payment[r] \in Pay!Payment /\ BuildsBounded(payment[r])
      /\ payment[r].step \in {"submit", "submit_bump"}
  BY DEF PaymentsInv, Pay!TypeOK, Pay!Submitting, Pay!At
<1>2. /\ p \in Pay!Payment /\ BuildsBounded(p) /\ (p.step = "store" <=> answer = "ok")
      /\ p.step \in {"store", "refresh", "bump", "failed", "submit", "submit_bump"}
  BY <1>1, AnsweredKeeps
<1>3. payment' = [payment EXCEPT ![r] = p]
  BY DEF Pay!Answer
<1> HIDE DEF p
<1>4. answer = "ok" => \E n \in 1..Pay!Builds : <<r, n>> \in applied
  BY DEF Pay!IsApplied, PaymentsInv, Pay!TypeOK
<1>5. UNCHANGED <<payment_sequence, payment_balance, pending, applied>>
  BY DEF Pay!LedgerUnchanged
<1>6. QED
  BY <1>1, <1>2, <1>3, <1>4, <1>5, PaymentGoesOn

\* The ledger takes a transaction.
LEMMA TakeAccounted ==
  ASSUME Pay!PaymentsAssumption, PaymentsInv, NEW r \in PaymentRequest, NEW n \in 1..Pay!Builds, Pay!Take(r, n)
  PROVE  /\ payment_sequence' \in Nat /\ payment_balance' \in 0..PaymentBalance
         /\ pending' \subseteq Pay!Transaction /\ applied' \subseteq PaymentRequest \X (1..Pay!Builds)
         /\ applied \subseteq applied'
         /\ payment_balance > 0 => <<r, n>> \in applied'
         /\ Numbers(r)' \subseteq Numbers(r) \cup {n}
         /\ n \in Numbers(r) => Numbers(r)' \subseteq Numbers(r)
         /\ payment_balance = 0 => Numbers(r)' \subseteq Numbers(r)
         /\ \A q \in PaymentRequest \ {r} : Numbers(q)' \subseteq Numbers(q)
<1>1. /\ payment_sequence \in Nat /\ payment_balance \in 0..PaymentBalance /\ PaymentBalance \in Nat
      /\ pending \subseteq Pay!Transaction /\ applied \subseteq PaymentRequest \X (1..Pay!Builds)
  BY DEF PaymentsInv, Pay!TypeOK, Pay!PaymentsAssumption
<1>2. /\ payment_sequence' = payment_sequence + 1 /\ pending' \subseteq pending
      /\ \/ payment_balance > 0 /\ payment_balance' = payment_balance - 1 /\ applied' = applied \cup {<<r, n>>}
         \/ ~(payment_balance > 0) /\ payment_balance' = payment_balance /\ applied' = applied
  BY DEF Pay!Take
<1>3. payment_sequence' \in Nat /\ payment_balance' \in 0..PaymentBalance
  BY <1>1, <1>2
<1>4. pending' \subseteq Pay!Transaction /\ applied' \subseteq PaymentRequest \X (1..Pay!Builds)
      /\ applied \subseteq applied' /\ applied' \subseteq applied \cup {<<r, n>>}
  BY <1>1, <1>2
<1>5. payment_balance > 0 => <<r, n>> \in applied'
  BY <1>2
<1>6. payment_balance = 0 => applied' = applied
  BY <1>2
<1>7. ASSUME NEW q \in PaymentRequest, NEW m \in Numbers(q)', m \notin Numbers(q)
      PROVE  q = r /\ m = n /\ <<q, m>> \in applied' /\ <<q, m>> \notin applied
  BY <1>2, <1>4, <1>7 DEF Numbers
<1>8. QED
  BY <1>3, <1>4, <1>5, <1>6, <1>7

\* What is left of a step in which the ledger takes a transaction of a request.
LEMMA TakenByOthers ==
  ASSUME Pay!PaymentsAssumption, PaymentsInv, NEW r \in PaymentRequest, NEW n \in 1..Pay!Builds, Pay!Take(r, n),
         NEW q \in PaymentRequest, q # r, payment'[q] = payment[q], pay_lost'[q] = pay_lost[q],
         transfers' = transfers, pay_mishaps' \in Nat, pay_mishaps <= pay_mishaps'
  PROVE  BuildsBounded(payment'[q]) /\ LossesAccounted(q)'
<1>1. applied \subseteq applied' /\ Numbers(q)' \subseteq Numbers(q)
  BY TakeAccounted
<1>2. QED
  BY <1>1, OthersKept

LEMMA ApplyKeepsPayments ==
  ASSUME Pay!PaymentsAssumption, PaymentsInv, NEW t \in pending, Pay!ApplyPending(t)
  PROVE  PaymentsInv'
<1>1. /\ Pay!Take(t.r, t.n) /\ UNCHANGED <<readable, payment, transfers, pay_lost, pay_mishaps>>
  BY DEF Pay!ApplyPending
<1>2. t.r \in PaymentRequest /\ t.n \in 1..Pay!Builds /\ t.n \in Numbers(t.r)
      /\ pay_mishaps \in Nat
  BY DEF PaymentsInv, Pay!TypeOK, Pay!Transaction, Numbers
<1>3. /\ payment_sequence' \in Nat /\ payment_balance' \in 0..PaymentBalance
      /\ pending' \subseteq Pay!Transaction /\ applied' \subseteq PaymentRequest \X (1..Pay!Builds)
      /\ applied \subseteq applied'
      /\ \A q \in PaymentRequest : Numbers(q)' \subseteq Numbers(q)
  BY <1>1, <1>2, TakeAccounted
<1>4. Pay!TypeOK'
  BY <1>1, <1>3 DEF PaymentsInv, Pay!TypeOK
<1>5. ASSUME NEW q \in PaymentRequest PROVE BuildsBounded(payment'[q]) /\ LossesAccounted(q)'
  BY <1>1, <1>2, <1>3, OthersKept
<1>6. QED
  BY <1>1, <1>4, <1>5 DEF PaymentsInv

\* The request whose submission is taken, or lost.
LEMMA LossKept ==
  ASSUME Pay!PaymentsAssumption, PaymentsInv, NEW r \in PaymentRequest, NEW n \in 1..Pay!Builds,
         pay_lost' = [pay_lost EXCEPT ![r] = @ + 1], pay_mishaps < PaymentMishaps, pay_mishaps' = pay_mishaps + 1,
         payment[r].step \notin {"store", "submitted"}, transfers' = transfers,
         Numbers(r)' \subseteq Numbers(r) \cup {n},
         payment'[r].step \notin {"store", "submitted"}
  PROVE  LossesAccounted(r)' /\ pay_lost' \in [PaymentRequest -> 0..PaymentMishaps]
<1>1. LossesAccounted(r) /\ pay_lost \in [PaymentRequest -> 0..PaymentMishaps] /\ pay_mishaps \in 0..PaymentMishaps
      /\ PaymentMishaps \in Nat
  BY DEF PaymentsInv, Pay!TypeOK, Pay!PaymentsAssumption
<1>2. ~Pay!At(r, {"store", "submitted"}) /\ ~Pay!At(r, {"store", "submitted"})' /\ r \notin transfers
  BY <1>1 DEF Pay!At, LossesAccounted
<1>a. pay_lost[r] \in Nat
  BY <1>1
<1>b. Pay!Cardinality(Numbers(r)) \in Nat
  BY NumbersCounted
<1>3. Pay!Cardinality(Numbers(r)) <= pay_lost[r] /\ pay_lost[r] <= pay_mishaps /\ pay_lost[r] \in Nat
      /\ Pay!Cardinality(Numbers(r)) \in Nat
  BY <1>1, <1>2, <1>a, <1>b DEF LossesAccounted
<1>4. Numbers(r) \subseteq 1..Pay!Builds /\ Numbers(r) \cup {n} \subseteq 1..Pay!Builds
  BY NumbersCounted
<1>5. Pay!Cardinality(Numbers(r) \cup {n}) <= Pay!Cardinality(Numbers(r)) + 1
      /\ Pay!Cardinality(Numbers(r) \cup {n}) \in Nat
  BY <1>4, NumbersCounted
<1>6. Pay!Cardinality(Numbers(r)') <= Pay!Cardinality(Numbers(r) \cup {n}) /\ Pay!Cardinality(Numbers(r)') \in Nat
  BY <1>4, NumbersCounted
<1>7. pay_lost'[r] = pay_lost[r] + 1 /\ pay_lost[r] + 1 \in 0..PaymentMishaps
  BY <1>1, <1>3
<1>8. pay_lost' \in [PaymentRequest -> 0..PaymentMishaps]
  BY <1>1, <1>7
<1>9. Pay!Cardinality(Numbers(r)') <= pay_lost'[r] /\ pay_lost'[r] <= pay_mishaps'
  BY <1>1, <1>3, <1>5, <1>6, <1>7
<1>10. QED
  BY <1>2, <1>7, <1>8, <1>9, <1>3 DEF LossesAccounted

LEMMA TakenKeepsPayments ==
  ASSUME Pay!PaymentsAssumption, PaymentsInv, NEW r \in PaymentRequest, Pay!SubmitTaken(r)
  PROVE  PaymentsInv'
<1>0. PICK m : m = payment[r].n
  OBVIOUS
<1>1. /\ payment[r].step \in {"submit", "submit_bump"} /\ Pay!Take(r, m)
      /\ UNCHANGED <<readable, transfers>>
      /\ \/ Pay!Answer(r, IF payment_balance > 0 THEN "ok" ELSE "op_underfunded") /\ UNCHANGED <<pay_lost, pay_mishaps>>
         \/ /\ pay_mishaps < PaymentMishaps /\ pay_mishaps' = pay_mishaps + 1 /\ Pay!Answer(r, "timeout")
            /\ pay_lost' = [pay_lost EXCEPT ![r] = @ + 1]
  BY <1>0 DEF Pay!SubmitTaken, Pay!Submitting, Pay!At, Pay!Mishap
<1>2. payment[r] \in Pay!Payment /\ BuildsBounded(payment[r]) /\ payment \in [PaymentRequest -> Pay!Payment]
      /\ pay_mishaps \in 0..PaymentMishaps /\ PaymentMishaps \in Nat
  BY DEF PaymentsInv, Pay!TypeOK, Pay!PaymentsAssumption
<1>3. m \in 1..Pay!Builds
  BY <1>0, <1>1, <1>2, SubmittedNumber
<1>4. /\ payment_sequence' \in Nat /\ payment_balance' \in 0..PaymentBalance
      /\ pending' \subseteq Pay!Transaction /\ applied' \subseteq PaymentRequest \X (1..Pay!Builds)
      /\ applied \subseteq applied' /\ (payment_balance > 0 => <<r, m>> \in applied')
      /\ Numbers(r)' \subseteq Numbers(r) \cup {m}
      /\ payment_balance = 0 => Numbers(r)' \subseteq Numbers(r)
  BY <1>1, <1>3, TakeAccounted
<1>5. ASSUME NEW answer, Pay!Answer(r, answer)
      PROVE  /\ payment' \in [PaymentRequest -> Pay!Payment] /\ BuildsBounded(payment'[r])
             /\ payment'[r].step \in {"store", "refresh", "bump", "failed", "submit", "submit_bump"}
             /\ payment'[r].step = "store" <=> answer = "ok"
             /\ \A q \in PaymentRequest \ {r} : payment'[q] = payment[q]
  <2> DEFINE p == Pay!Answered(payment[r], answer)
  <2>1. /\ p \in Pay!Payment /\ BuildsBounded(p) /\ (p.step = "store" <=> answer = "ok")
        /\ p.step \in {"store", "refresh", "bump", "failed", "submit", "submit_bump"}
    BY <1>1, <1>2, AnsweredKeeps
  <2>2. payment' = [payment EXCEPT ![r] = p]
    BY <1>5 DEF Pay!Answer
  <2> HIDE DEF p
  <2>3. payment'[r] = p /\ payment' \in [PaymentRequest -> Pay!Payment]
        /\ \A q \in PaymentRequest \ {r} : payment'[q] = payment[q]
    BY <1>2, <2>1, <2>2
  <2>4. QED
    BY <2>1, <2>3
<1>6. CASE Pay!Answer(r, IF payment_balance > 0 THEN "ok" ELSE "op_underfunded") /\ UNCHANGED <<pay_lost, pay_mishaps>>
  <2>1. /\ payment' \in [PaymentRequest -> Pay!Payment] /\ BuildsBounded(payment'[r])
        /\ payment'[r].step \in {"store", "refresh", "bump", "failed", "submit", "submit_bump"}
        /\ payment'[r].step = "store" <=> payment_balance > 0
        /\ \A q \in PaymentRequest \ {r} : payment'[q] = payment[q]
    <3>1. (IF payment_balance > 0 THEN "ok" ELSE "op_underfunded") = "ok" <=> payment_balance > 0
      OBVIOUS
    <3>2. QED
      BY <1>5, <1>6, <3>1
  <2>2. Pay!TypeOK'
    BY <1>1, <1>4, <1>6, <2>1 DEF PaymentsInv, Pay!TypeOK
  <2>3. ASSUME NEW q \in PaymentRequest, q # r PROVE BuildsBounded(payment'[q]) /\ LossesAccounted(q)'
    <3>1. /\ payment'[q] = payment[q] /\ pay_lost'[q] = pay_lost[q] /\ transfers' = transfers
          /\ pay_mishaps' = pay_mishaps /\ Pay!Take(r, m)
      BY <1>1, <1>6, <2>1, <2>3
    <3>2. pay_mishaps' \in Nat /\ pay_mishaps <= pay_mishaps'
      BY <1>2, <3>1
    <3>3. QED
      BY <1>3, <2>3, <3>1, <3>2, TakenByOthers
  <2>4. LossesAccounted(r)'
    <3>1. LossesAccounted(r) /\ pay_lost[r] \in Nat
      BY DEF PaymentsInv, Pay!TypeOK
    <3>2. ~Pay!At(r, {"store", "submitted"}) /\ ~Pay!At(r, {"submitted"})
      BY <1>1 DEF Pay!At
    <3>3. r \notin transfers /\ Pay!Cardinality(Numbers(r)) <= pay_lost[r] /\ pay_lost[r] <= pay_mishaps
          /\ Pay!Cardinality(Numbers(r)) \in Nat
      <4>1. Pay!Cardinality(Numbers(r)) \in Nat
        BY NumbersCounted
      <4>2. QED
        BY <3>1, <3>2, <4>1 DEF LossesAccounted
    <3>4. CASE payment_balance > 0
      <4>1. Pay!At(r, {"store", "submitted"})'
        BY <2>1, <3>4 DEF Pay!At
      <4>2. Numbers(r) \subseteq 1..Pay!Builds /\ Numbers(r) \cup {m} \subseteq 1..Pay!Builds
        BY <1>3, NumbersCounted
      <4>3. Pay!Cardinality(Numbers(r) \cup {m}) <= Pay!Cardinality(Numbers(r)) + 1
            /\ Pay!Cardinality(Numbers(r) \cup {m}) \in Nat
        BY <1>3, <4>2, NumbersCounted
      <4>4. Pay!Cardinality(Numbers(r)') <= Pay!Cardinality(Numbers(r) \cup {m}) /\ Pay!Cardinality(Numbers(r)') \in Nat
        BY <1>4, <4>2, NumbersCounted
      <4>5. Pay!Cardinality(Numbers(r)') <= pay_lost[r] + 1
        BY <3>1, <3>3, <4>3, <4>4
      <4>6. <<r, m>> \in applied'
        BY <1>4, <3>4
      <4>7. pay_lost'[r] = pay_lost[r] /\ pay_mishaps' = pay_mishaps /\ r \notin transfers'
        BY <1>1, <1>6, <3>3
      <4>8. QED
        BY <1>3, <3>3, <4>1, <4>5, <4>6, <4>7 DEF LossesAccounted
    <3>5. CASE ~(payment_balance > 0)
      <4>1. ~Pay!At(r, {"store", "submitted"})'
        BY <2>1, <3>5 DEF Pay!At
      <4>2. payment_balance = 0
        BY <3>5 DEF PaymentsInv, Pay!TypeOK, Pay!PaymentsAssumption
      <4>3. Pay!Cardinality(Numbers(r)') <= Pay!Cardinality(Numbers(r)) /\ Pay!Cardinality(Numbers(r)') \in Nat
        BY <1>4, <4>2, NumbersCounted
      <4>4. pay_lost'[r] = pay_lost[r] /\ pay_mishaps' = pay_mishaps /\ r \notin transfers'
        BY <1>1, <1>6, <3>3
      <4>5. QED
        BY <3>1, <3>3, <4>1, <4>3, <4>4 DEF LossesAccounted
    <3>6. QED
      BY <3>4, <3>5
  <2>5. QED
    BY <2>1, <2>2, <2>3, <2>4 DEF PaymentsInv
<1>7. CASE /\ pay_mishaps < PaymentMishaps /\ pay_mishaps' = pay_mishaps + 1 /\ Pay!Answer(r, "timeout")
           /\ pay_lost' = [pay_lost EXCEPT ![r] = @ + 1]
  <2>1. /\ payment' \in [PaymentRequest -> Pay!Payment] /\ BuildsBounded(payment'[r])
        /\ payment'[r].step \in {"refresh", "bump", "failed", "submit", "submit_bump"}
        /\ \A q \in PaymentRequest \ {r} : payment'[q] = payment[q]
    <3>1. Pay!Answer(r, "timeout")
      BY <1>7
    <3>2. /\ payment' \in [PaymentRequest -> Pay!Payment] /\ BuildsBounded(payment'[r])
          /\ payment'[r].step \in {"store", "refresh", "bump", "failed", "submit", "submit_bump"}
          /\ payment'[r].step # "store"
          /\ \A q \in PaymentRequest \ {r} : payment'[q] = payment[q]
      <4>1. "timeout" # "ok"
        OBVIOUS
      <4>2. QED
        BY Zenon, <1>5, <3>1, <4>1
    <3>3. QED
      BY <3>2
  <2>2. LossesAccounted(r)' /\ pay_lost' \in [PaymentRequest -> 0..PaymentMishaps]
    BY <1>1, <1>3, <1>4, <1>7, <2>1, LossKept
  <2>3. pay_mishaps' \in 0..PaymentMishaps /\ pay_mishaps <= pay_mishaps' /\ pay_mishaps' \in Nat
    BY <1>2, <1>7
  <2>4. Pay!TypeOK'
    BY <1>1, <1>4, <2>1, <2>2, <2>3 DEF PaymentsInv, Pay!TypeOK
  <2>5. ASSUME NEW q \in PaymentRequest, q # r PROVE BuildsBounded(payment'[q]) /\ LossesAccounted(q)'
    <3>1. pay_lost'[q] = pay_lost[q]
      BY <1>7, <2>5 DEF PaymentsInv, Pay!TypeOK
    <3>2. QED
      BY <1>1, <1>3, <2>1, <2>3, <2>5, <3>1, TakenByOthers
  <2>6. QED
    BY <2>1, <2>2, <2>4, <2>5 DEF PaymentsInv
<1>8. QED
  BY <1>1, <1>6, <1>7

LEMMA LostKeepsPayments ==
  ASSUME Pay!PaymentsAssumption, PaymentsInv, NEW r \in PaymentRequest, Pay!SubmitLost(r)
  PROVE  PaymentsInv'
<1>0. PICK m : m = payment[r].n
  OBVIOUS
<1> DEFINE new == IF Pay!IsNext(r) THEN {[r |-> r, n |-> payment[r].n, seq |-> payment[r].seq]} ELSE {}
           p == Pay!Answered(payment[r], "timeout")
<1>1. /\ payment[r].step \in {"submit", "submit_bump"} /\ payment' = [payment EXCEPT ![r] = p]
      /\ pay_mishaps < PaymentMishaps /\ pay_mishaps' = pay_mishaps + 1
      /\ pay_lost' = [pay_lost EXCEPT ![r] = @ + 1] /\ pending' = pending \cup new
      /\ UNCHANGED <<payment_sequence, payment_balance, readable, transfers, applied>>
  BY DEF Pay!SubmitLost, Pay!Submitting, Pay!At, Pay!Mishap, Pay!Answer
<1>2. payment[r] \in Pay!Payment /\ BuildsBounded(payment[r]) /\ payment \in [PaymentRequest -> Pay!Payment]
      /\ pay_mishaps \in 0..PaymentMishaps /\ PaymentMishaps \in Nat
  BY DEF PaymentsInv, Pay!TypeOK, Pay!PaymentsAssumption
<1>3. m \in 1..Pay!Builds /\ payment[r].seq \in Nat
  BY <1>0, <1>1, <1>2, SubmittedNumber
<1>4. /\ p \in Pay!Payment /\ BuildsBounded(p)
      /\ p.step \in {"refresh", "bump", "failed", "submit", "submit_bump"}
  BY <1>1, <1>2, AnsweredKeeps
<1> HIDE DEF p
<1>5. /\ payment' \in [PaymentRequest -> Pay!Payment] /\ payment'[r] = p
      /\ \A q \in PaymentRequest \ {r} : payment'[q] = payment[q]
  BY <1>1, <1>2, <1>4
<1>6. new \subseteq Pay!Transaction /\ \A t \in new : t.r = r /\ t.n = m
  BY <1>0, <1>3 DEF Pay!Transaction
<1> HIDE DEF new
<1>7. /\ Numbers(r)' \subseteq Numbers(r) \cup {m}
      /\ \A q \in PaymentRequest \ {r} : Numbers(q)' \subseteq Numbers(q)
  BY <1>1, <1>6 DEF Numbers
<1>8. LossesAccounted(r)' /\ pay_lost' \in [PaymentRequest -> 0..PaymentMishaps]
  BY <1>1, <1>3, <1>4, <1>5, <1>7, LossKept
<1>9. pay_mishaps' \in 0..PaymentMishaps /\ pay_mishaps <= pay_mishaps' /\ pay_mishaps' \in Nat
  <2>1. /\ pay_mishaps < PaymentMishaps /\ pay_mishaps' = pay_mishaps + 1
        /\ pay_mishaps \in 0..PaymentMishaps /\ PaymentMishaps \in Nat
    BY <1>1, <1>2
  <2>2. QED
    BY <2>1
<1>10. Pay!TypeOK'
  BY <1>1, <1>5, <1>6, <1>8, <1>9 DEF PaymentsInv, Pay!TypeOK
<1>11. ASSUME NEW q \in PaymentRequest, q # r PROVE BuildsBounded(payment'[q]) /\ LossesAccounted(q)'
  <2>1. pay_lost'[q] = pay_lost[q]
    BY <1>1, <1>11 DEF PaymentsInv, Pay!TypeOK
  <2>2. QED
    BY <1>1, <1>5, <1>7, <1>9, <1>11, <2>1, OthersKept
<1>12. QED
  BY <1>4, <1>5, <1>8, <1>10, <1>11 DEF PaymentsInv

LEMMA PaymentsStep ==
  ASSUME Pay!PaymentsAssumption, PaymentsInv, Pay!Next \/ UNCHANGED paymentVars
  PROVE  PaymentsInv'
<1>0. pay_mishaps \in 0..PaymentMishaps /\ PaymentMishaps \in Nat
  BY DEF PaymentsInv, Pay!TypeOK, Pay!PaymentsAssumption
<1>1. CASE UNCHANGED paymentVars
  BY <1>1 DEF paymentVars, PaymentsInv, Pay!TypeOK, BuildsBounded, FitsIn, LossesAccounted,
     Numbers, Pay!At
<1>2. ASSUME NEW r \in PaymentRequest, Pay!SubmitPast(r) PROVE PaymentsInv'
  <2>1. /\ Pay!Submitting(r) /\ Pay!LedgerUnchanged /\ UNCHANGED <<readable, transfers, pay_lost, pay_mishaps>>
        /\ (Pay!IsApplied(r) /\ Pay!Answer(r, "ok")) \/ Pay!Answer(r, "tx_bad_seq")
    BY <1>2 DEF Pay!SubmitPast
  <2>2. QED
    BY <1>0, <2>1, AnswerKeepsPayments
<1>3. ASSUME NEW r \in PaymentRequest, Pay!SubmitRefused(r) PROVE PaymentsInv'
  <2>1. /\ Pay!Submitting(r) /\ Pay!LedgerUnchanged /\ UNCHANGED <<readable, transfers, pay_lost>>
        /\ pay_mishaps < PaymentMishaps /\ pay_mishaps' = pay_mishaps + 1
        /\ Pay!Answer(r, "tx_insufficient_fee") \/ Pay!Answer(r, "error")
    BY <1>3 DEF Pay!SubmitRefused, Pay!Mishap
  <2>2. pay_mishaps' \in 0..PaymentMishaps /\ pay_mishaps <= pay_mishaps'
    BY <1>0, <2>1
  <2>3. QED
    BY <2>1, <2>2, AnswerKeepsPayments
<1>4. QED
  BY <1>1, <1>2, <1>3, ApplyKeepsPayments, CheckKeepsPayments, LoadKeepsPayments,
     LoadFailsKeepsPayments, StoreKeepsPayments, TakenKeepsPayments, LostKeepsPayments DEF Pay!Next

LEMMA PaymentsHold ==
  ASSUME Pay!PaymentsAssumption, PaymentsInv
  PROVE  Pay!TypeOK /\ Pay!PaidOncePerLoss
<1>1. ASSUME NEW r \in PaymentRequest
      PROVE  /\ Pay!Paid(r) <= 1 + pay_lost[r]
             /\ Pay!At(r, {"store", "submitted"}) => Pay!Paid(r) >= 1
             /\ Pay!At(r, {"failed"}) => Pay!Paid(r) <= pay_lost[r]
             /\ r \in transfers => Pay!At(r, {"submitted"})
  <2> DEFINE P == {x \in applied : x[1] = r}
             N == {n \in 1..Pay!Builds : <<r, n>> \in applied}
             f == [n \in N |-> <<r, n>>]
  <2>1. LossesAccounted(r) /\ pay_lost[r] \in Nat /\ applied \subseteq PaymentRequest \X (1..Pay!Builds)
    BY DEF PaymentsInv, Pay!TypeOK
  <2>2. N \subseteq Numbers(r) /\ N \subseteq 1..Pay!Builds
    BY DEF Numbers
  <2>3. Pay!IsFiniteSet(N)
    <3>1. Pay!IsFiniteSet(1..Pay!Builds)
      BY BuildsNumber, FS_Interval, PaySizes
    <3>2. QED
      BY <2>2, <3>1, FS_Subset, PaySizes
  <2>4. Pay!Cardinality(P) = Pay!Cardinality(N) /\ Pay!IsFiniteSet(P)
    <3>1. f \in Bijection(N, P)
      <4>1. f \in [N -> P]
        OBVIOUS
      <4>2. \A i, j \in N : f[i] = f[j] => i = j
        OBVIOUS
      <4>3. \A x \in P : \E n \in N : f[n] = x
        <5> SUFFICES ASSUME NEW x \in P PROVE \E n \in N : f[n] = x
          OBVIOUS
        <5>1. x = <<r, x[2]>> /\ x[2] \in 1..Pay!Builds
          BY <2>1
        <5>2. x[2] \in N /\ f[x[2]] = x
          BY <5>1
        <5>3. QED
          BY <5>2
      <4>4. QED
        BY <4>1, <4>2, <4>3 DEF Bijection, Injection, Surjection, IsInjective
    <3>2. ExistsBijection(N, P)
      BY <3>1 DEF ExistsBijection
    <3> HIDE DEF N, P
    <3>3. QED
      BY <2>3, <3>2, FS_Bijection, PaySizes
  <2>5. Pay!Paid(r) = Pay!Cardinality(N)
    BY <2>4 DEF Pay!Paid
  <2>6. Pay!Cardinality(N) <= Pay!Cardinality(Numbers(r)) /\ Pay!Cardinality(N) \in Nat
        /\ Pay!Cardinality(Numbers(r)) \in Nat
    <3>1. Numbers(r) \subseteq 1..Pay!Builds
      BY NumbersCounted
    <3>2. QED
      BY <2>2, <3>1, NumbersCounted
  <2>7. (\E n \in 1..Pay!Builds : <<r, n>> \in applied) => Pay!Cardinality(N) >= 1
    <3>1. (\E n \in 1..Pay!Builds : <<r, n>> \in applied) => N # {}
      OBVIOUS
    <3>2. Pay!Cardinality(N) = 0 <=> N = {}
      BY <2>3, FS_EmptySet, PaySizes
    <3> HIDE DEF N
    <3>3. QED
      BY <2>6, <3>1, <3>2
  <2> HIDE DEF N, P, f
  <2>8. Pay!At(r, {"failed"}) => ~Pay!At(r, {"store", "submitted"})
    BY DEF Pay!At
  <2>9. Pay!Cardinality(Numbers(r)) <= pay_lost[r] + 1
    BY <2>1, <2>6 DEF LossesAccounted
  <2>10. Pay!At(r, {"failed"}) => Pay!Cardinality(Numbers(r)) <= pay_lost[r]
    BY <2>1, <2>6, <2>8 DEF LossesAccounted
  <2>11. QED
    BY <2>1, <2>5, <2>6, <2>7, <2>9, <2>10 DEF LossesAccounted
<1>2. QED
  BY <1>1 DEF PaymentsInv, Pay!PaidOncePerLoss

----
(* Transactions *)

\* Finite sets and their sizes are the library's.
LEMMA TxsSizes ==
  /\ \A S : Txs!IsFiniteSet(S) <=> IsFiniteSet(S)
  /\ \A S : Txs!Cardinality(S) = Cardinality(S)
BY Zenon DEF Txs!IsFiniteSet, Txs!Cardinality, IsFiniteSet, Cardinality

\* The types of what refunds and reconciliations work with.
RowsTyped ==
  /\ transactions \in Seq(Txs!StoredRow)
  /\ \A i, j \in Txs!Ids : transactions[i].hash = transactions[j].hash => i = j
  /\ clock \in 0..RowTime
  /\ refund \in [RowRefund -> Txs!RefundState]
  /\ locked \subseteq RowHash /\ reported \in [RowHash -> Nat]
  /\ posted \in [RowHash -> Txs!Status \cup {"none"}]

\* The inductive invariant: a refund is about a row that is there, and once it has the
\* lock the row has not been refunded, ...
RefundKnown(r) ==
  /\ refund[r].step \in {"check", "lock", "insert"} =>
       refund[r].tx \in RowHash /\ refund[r].by \in RowHash /\ Txs!Recorded(refund[r].tx)
  /\ refund[r].step = "insert" =>
       /\ refund[r].tx \in locked
       /\ \A i \in Txs!Ids : transactions[i].hash = refund[r].tx =>
            transactions[i].type # "refund" /\ transactions[i].status # "refunded"

\* ... one refund at a time has the lock of a row, ...
LocksExclusive ==
  \A r, s \in RowRefund :
    refund[r].step = "insert" /\ refund[s].step = "insert" /\ refund[r].tx = refund[s].tx => r = s

\* ... the row of a refund that was made names a row that is there, only rows are reported
\* and posted, and what was posted as refunded stays so.
RefundRows ==
  \A i \in Txs!Ids :
    transactions[i].type = "refund" /\ posted[transactions[i].hash] = "none" =>
      Txs!Recorded(transactions[i].reference)
NothingElseReported == \A h \in RowHash : ~Txs!Recorded(h) => reported[h] = 0 /\ posted[h] = "none"
StaysRefunded ==
  \A i \in Txs!Ids : posted[transactions[i].hash] = "refunded" => transactions[i].status = "refunded"

TransactionsInv ==
  /\ RowsTyped /\ (\A r \in RowRefund : RefundKnown(r)) /\ LocksExclusive /\ RefundRows
  /\ NothingElseReported /\ StaysRefunded /\ Txs!RefundedOnce /\ Txs!ReconciledOnce

LEMMA RowsKnown ==
  ASSUME RowsTyped
  PROVE  /\ Len(transactions) \in Nat /\ Txs!Ids = 1..Len(transactions)
         /\ \A i \in Txs!Ids : transactions[i] \in Txs!StoredRow
BY DEF RowsTyped, Txs!Ids

LEMMA RowFields ==
  ASSUME NEW item \in Txs!StoredRow
  PROVE  /\ item.hash \in RowHash /\ item.type \in {"transfer", "refund"}
         /\ item.status \in Txs!Status
         /\ item.reference \in RowHash \cup {NoHash} /\ item.reconciled \in BOOLEAN /\ item.at \in Nat
BY DEF Txs!StoredRow

LEMMA RefundFields ==
  ASSUME NEW x \in Txs!RefundState
  PROVE  /\ x.step \in {"none", "check", "lock", "insert", "end"}
         /\ x.tx \in RowHash \cup {NoHash} /\ x.by \in RowHash \cup {NoHash}
         /\ \A step \in {"none", "check", "lock", "insert", "end"} :
              /\ [x EXCEPT !.step = step] \in Txs!RefundState
              /\ [x EXCEPT !.step = step].step = step
              /\ [x EXCEPT !.step = step].tx = x.tx /\ [x EXCEPT !.step = step].by = x.by
BY DEF Txs!RefundState

LEMMA TransactionsInit == ASSUME Txs!TransactionsAssumption, Txs!Init PROVE TransactionsInv
<1>1. /\ transactions = <<>> /\ clock = 0 /\ refund = [r \in RowRefund |-> Txs!Idle]
      /\ locked = {} /\ reported = [h \in RowHash |-> 0] /\ posted = [h \in RowHash |-> "none"]
  BY DEF Txs!Init
<1>2. Txs!Idle \in Txs!RefundState /\ Txs!Idle.step = "none"
  BY DEF Txs!Idle, Txs!RefundState
<1>3. Txs!Ids = {}
  BY <1>1 DEF Txs!Ids
<1>4. RowsTyped
  <2>1. transactions \in Seq(Txs!StoredRow)
    BY <1>1
  <2>2. refund \in [RowRefund -> Txs!RefundState] /\ reported \in [RowHash -> Nat] /\ locked \subseteq RowHash
        /\ posted \in [RowHash -> Txs!Status \cup {"none"}]
    BY <1>1, <1>2
  <2>3. clock \in 0..RowTime
    BY <1>1 DEF Txs!TransactionsAssumption
  <2>4. QED
    BY <1>3, <2>1, <2>2, <2>3 DEF RowsTyped
<1>5. \A r \in RowRefund : refund[r].step = "none"
  BY <1>1, <1>2
<1>6. (\A r \in RowRefund : RefundKnown(r)) /\ LocksExclusive
  BY <1>5 DEF RefundKnown, LocksExclusive
<1>7. NothingElseReported /\ RefundRows /\ StaysRefunded /\ Txs!ReconciledOnce
  BY <1>1, <1>3 DEF NothingElseReported, RefundRows, StaysRefunded, Txs!ReconciledOnce
<1>8. Txs!RefundedOnce
  BY <1>3 DEF Txs!RefundedOnce
<1>9. QED
  BY <1>4, <1>6, <1>7, <1>8 DEF TransactionsInv

\* Steps that leave the rows alone.
LEMMA RowsKept ==
  ASSUME TransactionsInv, UNCHANGED <<transactions, reported, posted>>, clock' \in 0..RowTime,
         refund' \in [RowRefund -> Txs!RefundState], locked' \subseteq RowHash,
         \A r \in RowRefund : RefundKnown(r)', LocksExclusive'
  PROVE  TransactionsInv'
<1>1. Txs!Ids' = Txs!Ids /\ (\A h : Txs!IdOf(h)' = Txs!IdOf(h)) /\ (\A h : Txs!Recorded(h)' <=> Txs!Recorded(h))
      /\ (\A h : Txs!Refunds(h)' = Txs!Refunds(h))
  BY DEF Txs!Ids, Txs!IdOf, Txs!Recorded, Txs!Refunds
<1>2. RowsTyped'
  BY <1>1 DEF TransactionsInv, RowsTyped
<1>3. RefundRows' /\ NothingElseReported' /\ StaysRefunded'
  BY <1>1 DEF TransactionsInv, RefundRows, NothingElseReported, StaysRefunded
<1>4. Txs!RefundedOnce'
  BY <1>1 DEF TransactionsInv, Txs!RefundedOnce
<1>5. Txs!ReconciledOnce'
  BY <1>1 DEF TransactionsInv, Txs!ReconciledOnce
<1>6. QED
  BY <1>2, <1>3, <1>4, <1>5 DEF TransactionsInv

LEMMA UntouchedKeepsTransactions ==
  ASSUME TransactionsInv, UNCHANGED <<transactions, refundVars>>, clock' \in 0..RowTime
  PROVE  TransactionsInv'
<1>0. UNCHANGED <<transactions, refund, locked, reported, posted>>
  BY DEF refundVars
<1>1. RowsTyped /\ LocksExclusive /\ \A r \in RowRefund : RefundKnown(r)
  BY DEF TransactionsInv
<1>2. LocksExclusive'
  BY <1>0, <1>1 DEF LocksExclusive
<1>3. ASSUME NEW r \in RowRefund PROVE RefundKnown(r)'
  BY <1>0, <1>1 DEF RefundKnown, Txs!Recorded, Txs!IdOf, Txs!Ids
<1>4. refund' \in [RowRefund -> Txs!RefundState] /\ locked' \subseteq RowHash
  BY <1>0, <1>1 DEF RowsTyped
<1>5. QED
  BY <1>0, <1>2, <1>3, <1>4, RowsKept

\* A refund goes on and the rows stay.
LEMMA RefundMoves ==
  ASSUME TransactionsInv, NEW r \in RowRefund, NEW x \in Txs!RefundState,
         refund' = [refund EXCEPT ![r] = x], UNCHANGED <<transactions, clock, reported, posted>>,
         x.step # "insert",
         x.step \in {"check", "lock"} => x.tx \in RowHash /\ x.by \in RowHash /\ Txs!Recorded(x.tx),
         locked' \subseteq locked,
         \A s \in RowRefund \ {r} : refund[s].step = "insert" => refund[s].tx \in locked'
  PROVE  TransactionsInv'
<1>1. RowsTyped /\ LocksExclusive /\ \A s \in RowRefund : RefundKnown(s)
  BY DEF TransactionsInv
<1>2. refund' \in [RowRefund -> Txs!RefundState] /\ refund'[r] = x
      /\ \A s \in RowRefund \ {r} : refund'[s] = refund[s]
  BY <1>1 DEF RowsTyped
<1>3. LocksExclusive'
  BY <1>1, <1>2 DEF LocksExclusive
<1>4. Txs!Ids' = Txs!Ids /\ (\A h : Txs!Recorded(h)' <=> Txs!Recorded(h))
  BY DEF Txs!Recorded, Txs!IdOf, Txs!Ids
<1>5. ASSUME NEW s \in RowRefund PROVE RefundKnown(s)'
  <2>1. CASE s = r
    <3>1. refund'[s] = x
      BY <1>2, <2>1
    <3>2. x.step \in {"check", "lock", "insert"} => x.tx \in RowHash /\ x.by \in RowHash /\ Txs!Recorded(x.tx)'
      BY <1>4
    <3>3. QED
      BY <3>1, <3>2 DEF RefundKnown
  <2>2. CASE s # r
    <3>1. refund'[s] = refund[s] /\ RefundKnown(s) /\ (refund[s].step = "insert" => refund[s].tx \in locked')
      BY <1>1, <1>2, <2>2
    <3>2. QED
      BY <1>4, <3>1 DEF RefundKnown
  <2>3. QED
    BY <2>1, <2>2
<1>6. locked' \subseteq RowHash /\ clock' \in 0..RowTime
  BY <1>1 DEF RowsTyped
<1>7. QED
  BY <1>2, <1>3, <1>5, <1>6, RowsKept

LEMMA LocksKept ==
  ASSUME TransactionsInv, NEW r \in RowRefund, refund[r].step = "insert", locked' = locked \ {refund[r].tx}
  PROVE  \A s \in RowRefund \ {r} : refund[s].step = "insert" => refund[s].tx \in locked'
<1>1. LocksExclusive /\ \A s \in RowRefund : RefundKnown(s)
  BY DEF TransactionsInv
<1>2. QED
  BY <1>1 DEF LocksExclusive, RefundKnown

LEMMA RefundEnds ==
  ASSUME TransactionsInv, NEW r \in RowRefund, Txs!End(r), UNCHANGED <<transactions, clock, reported, posted>>,
         locked' \subseteq locked,
         \A s \in RowRefund \ {r} : refund[s].step = "insert" => refund[s].tx \in locked'
  PROVE  TransactionsInv'
<1> DEFINE x == [step |-> "end", tx |-> NoHash, by |-> NoHash]
<1>1. refund' = [refund EXCEPT ![r] = x]
  BY DEF Txs!End
<1>2. x \in Txs!RefundState /\ x.step = "end"
  BY DEF Txs!RefundState
<1> HIDE DEF x
<1>3. QED
  BY <1>1, <1>2, RefundMoves

LEMMA CheckKeepsTransactions ==
  ASSUME TransactionsInv, NEW r \in RowRefund, NEW h \in RowHash, NEW by \in RowHash, Txs!CheckOriginal(r, h, by), clock' = clock
  PROVE  TransactionsInv'
<1> DEFINE x == [step |-> "check", tx |-> h, by |-> by]
<1>1. /\ Txs!Recorded(h) /\ refund' = [refund EXCEPT ![r] = x]
      /\ UNCHANGED <<transactions, clock, locked, reported, posted>>
  BY DEF Txs!CheckOriginal
<1>2. x \in Txs!RefundState /\ x.step = "check" /\ x.tx = h /\ x.by = by
  BY DEF Txs!RefundState
<1> HIDE DEF x
<1>3. \A s \in RowRefund \ {r} : refund[s].step = "insert" => refund[s].tx \in locked'
  BY <1>1 DEF TransactionsInv, RefundKnown
<1>4. QED
  BY <1>1, <1>2, <1>3, RefundMoves

LEMMA DuplicateKeepsTransactions ==
  ASSUME TransactionsInv, NEW r \in RowRefund, Txs!CheckDuplicate(r) \/ Txs!LockRefused(r) \/ Txs!RollBack(r),
         clock' = clock
  PROVE  TransactionsInv'
<1>0. ASSUME locked' = locked PROVE \A s \in RowRefund \ {r} : refund[s].step = "insert" => refund[s].tx \in locked'
  BY <1>0 DEF TransactionsInv, RefundKnown
<1>1. CASE Txs!CheckDuplicate(r) /\ ~Txs!End(r)
  <2> DEFINE x == [refund[r] EXCEPT !.step = "lock"]
  <2>1. /\ refund[r].step = "check" /\ UNCHANGED <<transactions, clock, locked, reported, posted>>
        /\ refund' = [refund EXCEPT ![r] = x]
    BY <1>1 DEF Txs!CheckDuplicate, Txs!At
  <2>2. refund[r] \in Txs!RefundState /\ RefundKnown(r)
    BY DEF TransactionsInv, RowsTyped
  <2>3. x \in Txs!RefundState /\ x.step = "lock" /\ x.tx = refund[r].tx /\ x.by = refund[r].by
    BY <2>2 DEF Txs!RefundState
  <2> HIDE DEF x
  <2>4. x.step \in {"check", "lock"} => x.tx \in RowHash /\ x.by \in RowHash /\ Txs!Recorded(x.tx)
    BY <2>1, <2>2, <2>3 DEF RefundKnown
  <2>5. QED
    BY <1>0, <2>1, <2>3, <2>4, RefundMoves
<1>2. CASE (Txs!CheckDuplicate(r) /\ Txs!End(r)) \/ Txs!LockRefused(r)
  <2>1. Txs!End(r) /\ UNCHANGED <<transactions, clock, locked, reported, posted>>
    BY <1>2 DEF Txs!CheckDuplicate, Txs!LockRefused
  <2>2. QED
    BY <1>0, <2>1, RefundEnds
<1>3. CASE Txs!RollBack(r)
  <2>1. /\ refund[r].step = "insert" /\ UNCHANGED <<transactions, clock, reported, posted>>
        /\ Txs!End(r) /\ locked' = locked \ {refund[r].tx}
    BY <1>3 DEF Txs!RollBack, Txs!At
  <2>2. QED
    BY <2>1, LocksKept, RefundEnds
<1>4. QED
  BY <1>1, <1>2, <1>3

\* The row a hash is found with.
LEMMA RowFound ==
  ASSUME RowsTyped, NEW i \in Txs!Ids
  PROVE  Txs!IdOf(transactions[i].hash) = {i} /\ Txs!Row(transactions[i].hash) = transactions[i]
<1>1. Txs!IdOf(transactions[i].hash) = {i}
  BY DEF RowsTyped, Txs!IdOf
<1>2. QED
  BY <1>1 DEF Txs!Row

LEMMA LockKeepsTransactions ==
  ASSUME TransactionsInv, NEW r \in RowRefund, Txs!LockOriginal(r), clock' = clock
  PROVE  TransactionsInv'
<1>0. PICK h : h = refund[r].tx
  OBVIOUS
<1>1. /\ refund[r].step = "lock" /\ h \notin locked
      /\ UNCHANGED <<transactions, clock, reported, posted>>
      /\ \/ Txs!End(r) /\ locked' = locked
         \/ /\ ~(Txs!Row(h).type = "refund" \/ Txs!Row(h).status = "refunded")
            /\ refund' = [refund EXCEPT ![r].step = "insert"] /\ locked' = locked \cup {h}
  BY <1>0 DEF Txs!LockOriginal, Txs!At
<1>2. RowsTyped /\ LocksExclusive /\ (\A s \in RowRefund : RefundKnown(s)) /\ refund[r] \in Txs!RefundState
  BY DEF TransactionsInv, RowsTyped
<1>3. h \in RowHash /\ refund[r].by \in RowHash /\ Txs!Recorded(h)
  BY <1>0, <1>1, <1>2 DEF RefundKnown
<1>4. CASE Txs!End(r) /\ locked' = locked
  <2>1. \A s \in RowRefund \ {r} : refund[s].step = "insert" => refund[s].tx \in locked'
    BY <1>2, <1>4 DEF RefundKnown
  <2>2. QED
    BY <1>1, <1>4, <2>1, RefundEnds
<1>5. CASE /\ ~(Txs!Row(h).type = "refund" \/ Txs!Row(h).status = "refunded")
           /\ refund' = [refund EXCEPT ![r].step = "insert"] /\ locked' = locked \cup {h}
  <2> DEFINE x == [refund[r] EXCEPT !.step = "insert"]
  <2>1. x \in Txs!RefundState /\ x.step = "insert" /\ x.tx = h /\ x.by = refund[r].by
    BY <1>0, <1>2, RefundFields
  <2>2. refund' = [refund EXCEPT ![r] = x]
    BY <1>5
  <2> HIDE DEF x
  <2>3. refund' \in [RowRefund -> Txs!RefundState] /\ refund'[r] = x
        /\ \A s \in RowRefund \ {r} : refund'[s] = refund[s]
    BY <1>2, <2>1, <2>2 DEF RowsTyped
  <2>4. \A i \in Txs!Ids : transactions[i].hash = h =>
          transactions[i].type # "refund" /\ transactions[i].status # "refunded"
    BY <1>2, <1>5, RowFound
  <2>5. Txs!Ids' = Txs!Ids /\ transactions' = transactions /\ (\A g : Txs!Recorded(g)' <=> Txs!Recorded(g))
    BY <1>1 DEF Txs!Recorded, Txs!IdOf, Txs!Ids
  <2>6. ASSUME NEW s \in RowRefund PROVE RefundKnown(s)'
    <3>1. CASE s = r
      <4>1. refund'[s].step = "insert" /\ refund'[s].tx = h /\ refund'[s].by \in RowHash /\ h \in locked'
        <5>1. locked' = locked \cup {h} /\ refund[r].by \in RowHash
          BY <1>3, <1>5
        <5>2. refund'[s] = x
          BY <2>3, <3>1
        <5>3. QED
          BY <2>1, <5>1, <5>2
      <4>2. Txs!Recorded(h)' /\ h \in RowHash
        BY <1>3, <2>5
      <4>3. \A i \in Txs!Ids' : transactions'[i].hash = h =>
              transactions'[i].type # "refund" /\ transactions'[i].status # "refunded"
        BY <2>4, <2>5
      <4>4. PICK g : g = refund'[s].tx
        OBVIOUS
      <4>5. g = h /\ Txs!Recorded(g)'
        BY <4>1, <4>2, <4>4
      <4>6. QED
        BY <4>1, <4>2, <4>3 DEF RefundKnown, Txs!Recorded, Txs!IdOf
    <3>2. CASE s # r
      <4>1. refund'[s] = refund[s] /\ RefundKnown(s) /\ locked \subseteq locked'
        BY <1>2, <1>5, <2>3, <3>2
      <4>2. QED
        BY <2>5, <4>1 DEF RefundKnown
    <3>3. QED
      BY <3>1, <3>2
  <2>7. LocksExclusive'
    <3>1. \A s \in RowRefund \ {r} : refund[s].step = "insert" => refund[s].tx # h
      BY <1>1, <1>2 DEF RefundKnown
    <3>2. QED
      BY <1>2, <2>1, <2>3, <3>1 DEF LocksExclusive
  <2>8. locked' \subseteq RowHash /\ clock' \in 0..RowTime
    BY <1>1, <1>2, <1>3, <1>5 DEF RowsTyped
  <2>9. QED
    BY <1>1, <2>3, <2>6, <2>7, <2>8, RowsKept
<1>6. QED
  BY <1>1, <1>4, <1>5

\* One row more, with a hash no row has.
LEMMA RowInserted ==
  ASSUME RowsTyped, NEW rows \in Seq(Txs!StoredRow), Len(rows) = Len(transactions),
         \A i \in Txs!Ids : rows[i].hash = transactions[i].hash,
         NEW item \in Txs!StoredRow, ~Txs!Recorded(item.hash), transactions' = Append(rows, item)
  PROVE  /\ transactions' \in Seq(Txs!StoredRow) /\ Txs!Ids' = Txs!Ids \cup {Len(transactions) + 1}
         /\ Len(transactions) + 1 \notin Txs!Ids /\ Len(transactions) + 1 \in Nat
         /\ \A i \in Txs!Ids : transactions'[i] = rows[i]
         /\ transactions'[Len(transactions) + 1] = item
         /\ \A i, j \in Txs!Ids' : transactions'[i].hash = transactions'[j].hash => i = j
         /\ \A h : Txs!Recorded(h)' <=> Txs!Recorded(h) \/ h = item.hash
<1> DEFINE n == Len(transactions)
<1>1. n \in Nat /\ Txs!Ids = 1..n /\ Len(rows) = n
  BY RowsKnown
<1>2. /\ transactions' \in Seq(Txs!StoredRow) /\ Len(transactions') = n + 1
      /\ \A i \in 1..n : transactions'[i] = rows[i]
      /\ transactions'[n + 1] = item
  BY <1>1
<1>3. Txs!Ids' = 1..n + 1
  BY <1>2 DEF Txs!Ids
<1>4. Txs!Ids' = Txs!Ids \cup {n + 1} /\ n + 1 \notin Txs!Ids /\ n + 1 \in Nat
  BY <1>1, <1>3
<1>5. \A i \in Txs!Ids : transactions'[i] = rows[i] /\ transactions'[i].hash = transactions[i].hash
                     /\ transactions[i].hash # item.hash
  BY <1>1, <1>2 DEF Txs!Recorded, Txs!IdOf
<1>6. transactions'[n + 1] = item
  BY <1>2
<1> HIDE DEF n
<1>7. \A i, j \in Txs!Ids' : transactions'[i].hash = transactions'[j].hash => i = j
  <2>1. \A i, j \in Txs!Ids : transactions[i].hash = transactions[j].hash => i = j
    BY DEF RowsTyped
  <2>2. ASSUME NEW i \in Txs!Ids', NEW j \in Txs!Ids', transactions'[i].hash = transactions'[j].hash
        PROVE  i = j
    <3>1. CASE i \in Txs!Ids /\ j \in Txs!Ids
      <4>1. transactions[i].hash = transactions[j].hash
        BY <1>5, <2>2, <3>1
      <4>2. QED
        BY <2>1, <3>1, <4>1
    <3>2. CASE i = n + 1 /\ j = n + 1
      BY <3>2
    <3>3. CASE i \in Txs!Ids /\ j = n + 1
      BY <1>5, <1>6, <2>2, <3>3
    <3>4. CASE i = n + 1 /\ j \in Txs!Ids
      BY <1>5, <1>6, <2>2, <3>4
    <3>5. QED
      BY <1>4, <3>1, <3>2, <3>3, <3>4
  <2>3. QED
    BY <2>2
<1>8. ASSUME NEW h PROVE Txs!Recorded(h)' <=> Txs!Recorded(h) \/ h = item.hash
  <2>1. CASE h = item.hash
    BY <1>4, <1>6, <2>1 DEF Txs!Recorded, Txs!IdOf
  <2>2. CASE h # item.hash
    BY <1>4, <1>5, <1>6, <2>2, ZenonT(60) DEF Txs!Recorded, Txs!IdOf
  <2>3. QED
    BY <2>1, <2>2
<1>9. QED
  BY <1>2, <1>4, <1>5, <1>6, <1>7, <1>8 DEF n

\* A row that a client records, or another request.
LEMMA RowKeepsTransactions ==
  ASSUME Txs!TransactionsAssumption, TransactionsInv,
         NEW item \in Txs!StoredRow, ~Txs!Recorded(item.hash), ~item.reconciled,
         transactions' = Append(transactions, item), UNCHANGED <<clock, refund, locked, reported>>,
         \/ posted' = [posted EXCEPT ![item.hash] = item.status]
         \/ posted' = posted /\ item.type = "transfer" /\ item.status = "completed"
  PROVE  TransactionsInv'
<1> DEFINE n == Len(transactions) + 1
<1>0. PICK h \in RowHash : h = item.hash
  BY RowFields
<1>1. ~Txs!Recorded(h) /\ transactions' = Append(transactions, item) /\ UNCHANGED <<clock, refund, locked, reported>>
  BY <1>0
<1>2. RowsTyped /\ LocksExclusive /\ (\A s \in RowRefund : RefundKnown(s)) /\ RefundRows
      /\ NothingElseReported /\ StaysRefunded /\ Txs!RefundedOnce /\ Txs!ReconciledOnce
  BY DEF TransactionsInv
<1>3. /\ posted' \in [RowHash -> Txs!Status \cup {"none"}] /\ (\A g \in RowHash \ {h} : posted'[g] = posted[g])
      /\ (item.type = "refund" => posted'[h] # "none") /\ (posted'[h] = "refunded" <=> item.status = "refunded")
  <2>1. posted[h] = "none" /\ posted \in [RowHash -> Txs!Status \cup {"none"}] /\ item.status \in Txs!Status
    BY <1>1, <1>2, RowFields DEF NothingElseReported, RowsTyped
  <2>2. CASE posted' = [posted EXCEPT ![item.hash] = item.status]
    BY <1>0, <2>1, <2>2 DEF Txs!Status
  <2>3. CASE posted' = posted /\ item.type = "transfer" /\ item.status = "completed"
    BY <2>1, <2>3
  <2>4. QED
    BY <2>2, <2>3
<1>4. /\ transactions' \in Seq(Txs!StoredRow) /\ Txs!Ids' = Txs!Ids \cup {n} /\ n \notin Txs!Ids
      /\ \A i \in Txs!Ids : transactions'[i] = transactions[i]
      /\ transactions'[n] = item
      /\ \A i, j \in Txs!Ids' : transactions'[i].hash = transactions'[j].hash => i = j
      /\ \A g : Txs!Recorded(g)' <=> Txs!Recorded(g) \/ g = h
  <2>1. transactions \in Seq(Txs!StoredRow)
    BY <1>2 DEF RowsTyped
  <2>2. QED
    BY <1>0, <1>1, <1>2, <2>1, RowInserted
<1> HIDE DEF n
<1>15. \A i \in Txs!Ids : transactions[i].hash \in RowHash \ {h}
  BY <1>1, <1>2, RowsKnown, RowFields DEF Txs!Recorded, Txs!IdOf
<1>5. RowsTyped'
  BY <1>1, <1>2, <1>3, <1>4 DEF RowsTyped
<1>6. ASSUME NEW r \in RowRefund PROVE RefundKnown(r)'
  <2>1. refund'[r] = refund[r] /\ locked' = locked /\ RefundKnown(r)
    BY <1>1, <1>2
  <2>2. refund[r].step = "insert" => refund[r].tx # h
    BY <1>1, <2>1 DEF RefundKnown
  <2>3. QED
    BY <1>0, <1>4, <2>1, <2>2 DEF RefundKnown
<1>7. LocksExclusive'
  BY <1>1, <1>2 DEF LocksExclusive
<1>16. \A i \in Txs!Ids : transactions'[i] = transactions[i]
                        /\ posted'[transactions[i].hash] = posted[transactions[i].hash]
  BY <1>3, <1>4, <1>15
<1>17. /\ transactions'[n].type = "refund" => posted'[transactions'[n].hash] # "none"
       /\ posted'[transactions'[n].hash] = "refunded" => transactions'[n].status = "refunded"
  BY <1>0, <1>3, <1>4
<1>18. Txs!Ids' = Txs!Ids \cup {n} /\ \A g : Txs!Recorded(g) => Txs!Recorded(g)'
  BY <1>4
<1>8. \A g : Txs!Refunds(g)' = Txs!Refunds(g)
  BY <1>16, <1>17, <1>18, ZenonT(60) DEF Txs!Refunds
<1>9. Txs!Refunds(h) = {}
  BY <1>1, <1>2 DEF RefundRows, Txs!Refunds
<1>10. RefundRows' /\ StaysRefunded'
  <2>1. ASSUME NEW i \in Txs!Ids', NEW g, g = transactions'[i].reference
        PROVE  /\ transactions'[i].type = "refund" /\ posted'[transactions'[i].hash] = "none" => Txs!Recorded(g)'
               /\ posted'[transactions'[i].hash] = "refunded" => transactions'[i].status = "refunded"
    <3>1. CASE i \in Txs!Ids
      <4>1. transactions'[i] = transactions[i] /\ posted'[transactions'[i].hash] = posted[transactions[i].hash]
            /\ g = transactions[i].reference
        BY <1>16, <2>1, <3>1
      <4>2. transactions[i].type = "refund" /\ posted[transactions[i].hash] = "none" => Txs!Recorded(g)
        BY <1>2, <3>1, <4>1 DEF RefundRows
      <4>3. posted[transactions[i].hash] = "refunded" => transactions[i].status = "refunded"
        BY <1>2, <3>1 DEF StaysRefunded
      <4>4. QED
        BY <1>18, <4>1, <4>2, <4>3
    <3>2. CASE i = n
      BY <1>17, <3>2
    <3>3. QED
      BY <1>18, <3>1, <3>2
  <2>2. RefundRows'
    BY <2>1 DEF RefundRows
  <2>3. StaysRefunded'
    BY <2>1 DEF StaysRefunded
  <2>4. QED
    BY <2>2, <2>3
<1>11. NothingElseReported' /\ reported[h] = 0
  BY <1>1, <1>2, <1>3, <1>4 DEF NothingElseReported
<1>12. Txs!RefundedOnce'
  <2> SUFFICES ASSUME NEW i \in Txs!Ids', NEW g, g = transactions'[i].hash
               PROVE  /\ Txs!Cardinality(Txs!Refunds(g)') =
                           IF transactions'[i].status = "refunded" /\ posted'[g] # "refunded" THEN 1 ELSE 0
                      /\ transactions'[i].type = "refund" => Txs!Refunds(g)' = {}
    BY DEF Txs!RefundedOnce
  <2>0. Txs!Refunds(g)' = Txs!Refunds(g)
    BY <1>8
  <2>1. CASE i \in Txs!Ids
    <3>1. transactions'[i] = transactions[i] /\ g \in RowHash \ {h}
      BY <1>4, <1>15, <2>1
    <3>2. posted'[g] = posted[g]
      BY <1>3, <3>1
    <3>3. QED
      BY <1>2, <2>0, <2>1, <3>1, <3>2 DEF Txs!RefundedOnce
  <2>2. CASE i = n
    <3>1. g = h /\ (transactions'[i].status = "refunded" => posted'[g] = "refunded")
      BY <1>0, <1>3, <1>4, <2>2
    <3>2. Txs!Refunds(g)' = {}
      BY <1>9, <2>0, <3>1
    <3>3. QED
      BY <3>1, <3>2, FS_EmptySet, TxsSizes
  <2>3. QED
    BY <1>4, <2>1, <2>2
<1>13. Txs!ReconciledOnce'
  <2>1. ASSUME NEW i \in Txs!Ids
        PROVE  reported[transactions'[i].hash] = IF transactions'[i].reconciled THEN 1 ELSE 0
    BY <1>2, <1>4 DEF Txs!ReconciledOnce
  <2>2. reported[transactions'[n].hash] = IF transactions'[n].reconciled THEN 1 ELSE 0
    BY <1>0, <1>4, <1>11
  <2>3. QED
    BY <1>1, <1>4, <2>1, <2>2 DEF Txs!ReconciledOnce
<1>14. QED
  BY <1>5, <1>6, <1>7, <1>10, <1>11, <1>12, <1>13 DEF TransactionsInv

LEMMA CommitKeepsTransactions ==
  ASSUME Txs!TransactionsAssumption, TransactionsInv, NEW r \in RowRefund, Txs!CommitRefund(r), clock' = clock
  PROVE  TransactionsInv'
<1>0. PICK h, by : h = refund[r].tx /\ by = refund[r].by
  OBVIOUS
<1> DEFINE rows == Txs!SetStatus(transactions, h, "refunded")
           item == Txs!NewRow(by, "refund", "completed", h, clock)
           n == Len(transactions) + 1
<1>1. /\ refund[r].step = "insert" /\ Txs!End(r)
      /\ locked' = locked \ {h} /\ UNCHANGED <<clock, reported, posted>>
      /\ transactions' = IF Txs!Recorded(by) THEN transactions ELSE Append(rows, item)
  BY <1>0 DEF Txs!CommitRefund, Txs!At
<1>2. RowsTyped /\ LocksExclusive /\ (\A s \in RowRefund : RefundKnown(s)) /\ RefundRows
      /\ NothingElseReported /\ StaysRefunded /\ Txs!RefundedOnce /\ Txs!ReconciledOnce
  BY DEF TransactionsInv
<1>3. /\ h \in RowHash /\ by \in RowHash /\ Txs!Recorded(h) /\ h \in locked
      /\ \A i \in Txs!Ids : transactions[i].hash = h =>
           transactions[i].type # "refund" /\ transactions[i].status # "refunded"
  BY <1>0, <1>1, <1>2 DEF RefundKnown
<1>4. \A s \in RowRefund \ {r} : refund[s].step = "insert" => refund[s].tx \in locked' /\ refund[s].tx # h
  BY <1>0, <1>1, <1>2, LocksKept DEF LocksExclusive
<1>5. CASE Txs!Recorded(by)
  <2>1. locked' \subseteq locked /\ transactions' = transactions
    BY <1>1, <1>5
  <2>2. QED
    BY <1>1, <1>4, <2>1, RefundEnds
<1>6. CASE ~Txs!Recorded(by)
  <2>1. item \in Txs!StoredRow /\ item.hash = by /\ item.type = "refund" /\ item.status = "completed"
        /\ item.reference = h /\ item.reconciled = FALSE
    <3>1. clock \in Nat
      BY <1>2 DEF RowsTyped, Txs!TransactionsAssumption
    <3>2. QED
      BY <1>3, <3>1 DEF Txs!NewRow, Txs!StoredRow, Txs!Status
  <2>2. /\ rows \in Seq(Txs!StoredRow) /\ Len(rows) = Len(transactions)
        /\ \A i \in Txs!Ids :
             /\ rows[i].hash = transactions[i].hash /\ rows[i].type = transactions[i].type
             /\ rows[i].reference = transactions[i].reference
             /\ rows[i].reconciled = transactions[i].reconciled
             /\ rows[i].status = IF transactions[i].hash = h THEN "refunded" ELSE transactions[i].status
    <3>1. Len(transactions) \in Nat /\ Txs!Ids = 1..Len(transactions)
          /\ \A i \in Txs!Ids : transactions[i] \in Txs!StoredRow
      BY <1>2, RowsKnown
    <3>2. rows = [i \in 1..Len(transactions) |->
                    IF transactions[i].hash = h THEN [transactions[i] EXCEPT !.status = "refunded"]
                    ELSE transactions[i]]
      BY <3>1 DEF Txs!SetStatus, Txs!Ids
    <3>3. ASSUME NEW i \in Txs!Ids
          PROVE  /\ rows[i] \in Txs!StoredRow
                 /\ rows[i].hash = transactions[i].hash /\ rows[i].type = transactions[i].type
                 /\ rows[i].reference = transactions[i].reference
                 /\ rows[i].reconciled = transactions[i].reconciled
                 /\ rows[i].status = IF transactions[i].hash = h THEN "refunded" ELSE transactions[i].status
      <4>1. PICK o \in Txs!StoredRow : o = transactions[i]
        BY <3>1
      <4>2. rows[i] = IF o.hash = h THEN [o EXCEPT !.status = "refunded"] ELSE o
        BY <3>1, <3>2, <4>1
      <4>3. LET q == [o EXCEPT !.status = "refunded"]
            IN  /\ q \in Txs!StoredRow /\ q.hash = o.hash /\ q.type = o.type /\ q.reference = o.reference
                /\ q.reconciled = o.reconciled /\ q.status = "refunded"
        BY DEF Txs!StoredRow, Txs!Status
      <4>4. QED
        BY <4>1, <4>2, <4>3
    <3> HIDE DEF rows
    <3>4. rows \in Seq(Txs!StoredRow) /\ Len(rows) = Len(transactions)
      BY <3>1, <3>2, <3>3
    <3>5. QED
      BY <3>3, <3>4
  <2>3. transactions' = Append(rows, item)
    BY <1>1, <1>6
  <2> HIDE DEF item, rows
  <2>4. /\ transactions' \in Seq(Txs!StoredRow) /\ Txs!Ids' = Txs!Ids \cup {n} /\ n \notin Txs!Ids
        /\ \A i \in Txs!Ids : transactions'[i] = rows[i]
        /\ transactions'[n] = item
        /\ \A i, j \in Txs!Ids' : transactions'[i].hash = transactions'[j].hash => i = j
        /\ \A g : Txs!Recorded(g)' <=> Txs!Recorded(g) \/ g = by
    BY <1>2, <1>6, <2>1, <2>2, <2>3, RowInserted, ZenonT(60)
  <2> HIDE DEF n
  <2>5. /\ refund' \in [RowRefund -> Txs!RefundState] /\ refund'[r].step = "end"
        /\ \A s \in RowRefund \ {r} : refund'[s] = refund[s]
    <3> DEFINE x == [step |-> "end", tx |-> NoHash, by |-> NoHash]
    <3>1. refund \in [RowRefund -> Txs!RefundState] /\ refund' = [refund EXCEPT ![r] = x]
      BY <1>1, <1>2 DEF RowsTyped, Txs!End
    <3>2. x \in Txs!RefundState /\ x.step = "end"
      BY DEF Txs!RefundState
    <3> HIDE DEF x
    <3>3. QED
      BY <3>1, <3>2
  <2>6. locked' \subseteq RowHash /\ clock' = clock /\ reported' = reported /\ posted' = posted
    BY <1>1, <1>2 DEF RowsTyped
  <2>7. RowsTyped'
    BY <1>2, <2>4, <2>5, <2>6 DEF RowsTyped
  <2>8. ASSUME NEW s \in RowRefund PROVE RefundKnown(s)'
    <3>1. CASE s = r
      BY <2>5, <3>1 DEF RefundKnown
    <3>2. CASE s # r
      <4>1. refund'[s] = refund[s] /\ RefundKnown(s)
            /\ (refund[s].step = "insert" => refund[s].tx \in locked' /\ refund[s].tx # h)
        BY <1>2, <1>4, <2>5, <3>2
      <4>2. refund[s].step = "insert" => refund[s].tx # by
        BY <1>6, <4>1 DEF RefundKnown
      <4>3. ASSUME refund[s].step = "insert", NEW i \in Txs!Ids', transactions'[i].hash = refund[s].tx
            PROVE  transactions'[i].type # "refund" /\ transactions'[i].status # "refunded"
        <5>1. i \in Txs!Ids
          BY <2>1, <2>4, <4>2, <4>3
        <5>2. transactions[i].hash = refund[s].tx /\ transactions[i].hash # h
          BY <2>2, <2>4, <4>1, <4>3, <5>1
        <5>3. transactions[i].type # "refund" /\ transactions[i].status # "refunded"
          BY <4>1, <4>3, <5>1, <5>2 DEF RefundKnown
        <5>4. QED
          BY <2>2, <2>4, <5>1, <5>2, <5>3
      <4>4. QED
        BY <2>4, <4>1, <4>3 DEF RefundKnown
    <3>3. QED
      BY <3>1, <3>2
  <2>9. LocksExclusive'
    BY <1>2, <2>5 DEF LocksExclusive
  <2>13. NothingElseReported' /\ reported[by] = 0 /\ posted[by] = "none"
    BY <1>2, <1>3, <1>6, <2>4, <2>6 DEF NothingElseReported
  <2>10. by # h /\ Txs!Refunds(by) = {}
    BY <1>2, <1>3, <1>6 DEF RefundRows, Txs!Refunds
  <2>11. Txs!Refunds(h)' = Txs!Refunds(h) \cup {n} /\ \A g : g # h => Txs!Refunds(g)' = Txs!Refunds(g)
    BY <2>1, <2>2, <2>4, <2>6, <2>13, SMTT(60) DEF Txs!Refunds
  <2>12. RefundRows' /\ StaysRefunded'
    <3>1. RefundRows'
      BY <1>2, <1>3, <2>1, <2>2, <2>4, <2>6 DEF RefundRows
    <3>2. StaysRefunded'
      BY <1>2, <2>1, <2>2, <2>4, <2>6, <2>13 DEF StaysRefunded
    <3>3. QED
      BY <3>1, <3>2
  <2>14. PICK k \in Txs!Ids : transactions[k].hash = h
    BY <1>3 DEF Txs!Recorded, Txs!IdOf
  <2>15. Txs!Refunds(h) = {}
    <3>1. Txs!Cardinality(Txs!Refunds(h)) = 0
      <4>1. transactions[k].status # "refunded"
        BY <1>3, <2>14
      <4>2. QED
        BY <1>2, <2>14, <4>1 DEF Txs!RefundedOnce
    <3>2. Txs!IsFiniteSet(Txs!Refunds(h))
      <4>1. Txs!Refunds(h) \subseteq 1..Len(transactions) /\ Len(transactions) \in Nat
        BY <1>2, RowsKnown DEF Txs!Refunds
      <4>2. Txs!IsFiniteSet(1..Len(transactions))
        BY <4>1, FS_Interval, TxsSizes
      <4>3. QED
        BY <4>1, <4>2, FS_Subset, TxsSizes
    <3>3. QED
      BY <3>1, <3>2, FS_EmptySet, TxsSizes
  <2>16. Txs!Cardinality(Txs!Refunds(h)') = 1
    <3>1. Txs!Refunds(h)' = {n}
      BY <2>11, <2>15
    <3>2. QED
      BY <3>1, FS_Singleton, TxsSizes
  <2>17. Txs!RefundedOnce'
    <3> SUFFICES ASSUME NEW i \in Txs!Ids', NEW g, g = transactions'[i].hash
                 PROVE  /\ Txs!Cardinality(Txs!Refunds(g)') =
                             IF transactions'[i].status = "refunded" /\ posted[g] # "refunded" THEN 1 ELSE 0
                        /\ transactions'[i].type = "refund" => Txs!Refunds(g)' = {}
      BY <2>6 DEF Txs!RefundedOnce
    <3>1. CASE i = n
      <4>1. g = by /\ transactions'[i].status = "completed"
        BY <2>1, <2>4, <3>1
      <4>2. Txs!Refunds(g)' = {}
        BY <2>10, <2>11, <4>1
      <4>3. QED
        BY <4>1, <4>2, FS_EmptySet, TxsSizes
    <3>2. CASE i \in Txs!Ids /\ g = h
      <4>1. transactions[i].hash = h /\ transactions'[i].type = transactions[i].type
        BY <2>2, <2>4, <3>2
      <4>2. transactions'[i].status = "refunded" /\ posted[g] # "refunded"
        BY <1>2, <1>3, <2>2, <2>4, <3>2, <4>1 DEF StaysRefunded
      <4>3. transactions'[i].type # "refund"
        BY <1>3, <3>2, <4>1
      <4>4. Txs!Cardinality(Txs!Refunds(g)') = 1
        BY <2>16, <3>2
      <4>5. QED
        BY <4>2, <4>3, <4>4
    <3>3. CASE i \in Txs!Ids /\ g # h
      <4>1. transactions[i].hash = g /\ transactions'[i].type = transactions[i].type
            /\ transactions'[i].status = transactions[i].status
        BY <2>2, <2>4, <3>3
      <4>2. Txs!Refunds(g)' = Txs!Refunds(g)
        BY <2>11, <3>3
      <4>3. QED
        BY <1>2, <3>3, <4>1, <4>2 DEF Txs!RefundedOnce
    <3>4. QED
      BY <2>4, <3>1, <3>2, <3>3
  <2>18. Txs!ReconciledOnce'
    BY <1>2, <2>1, <2>2, <2>4, <2>6, <2>13, SMTT(60) DEF Txs!ReconciledOnce
  <2>19. QED
    BY <2>7, <2>8, <2>9, <2>12, <2>13, <2>17, <2>18 DEF TransactionsInv
<1>7. QED
  BY <1>5, <1>6

LEMMA ReconcileKeepsTransactions ==
  ASSUME Txs!TransactionsAssumption, TransactionsInv, Txs!Reconcile, clock' = clock
  PROVE  TransactionsInv'
<1>1. /\ locked = {} /\ UNCHANGED <<clock, refund, locked, posted>>
      /\ transactions' = [i \in Txs!Ids |-> IF transactions[i].reconciled THEN transactions[i]
                                        ELSE Txs!Reconciled(transactions[i])]
      /\ reported' = [h \in RowHash |-> reported[h] + Txs!Cardinality(Txs!IdOf(h) \intersect Txs!Unreconciled(transactions))]
  BY DEF Txs!Reconcile
<1>2. RowsTyped /\ LocksExclusive /\ (\A s \in RowRefund : RefundKnown(s)) /\ RefundRows
      /\ NothingElseReported /\ StaysRefunded /\ Txs!RefundedOnce /\ Txs!ReconciledOnce
  BY DEF TransactionsInv
<1>3. Len(transactions) \in Nat /\ Txs!Ids = 1..Len(transactions)
      /\ \A i \in Txs!Ids : transactions[i] \in Txs!StoredRow
  BY <1>2, RowsKnown
<1>4. ASSUME NEW i \in Txs!Ids
      PROVE  /\ transactions'[i] \in Txs!StoredRow
             /\ transactions'[i].hash = transactions[i].hash
             /\ transactions'[i].type = transactions[i].type
             /\ transactions'[i].reference = transactions[i].reference
             /\ (transactions'[i].status = "refunded" <=> transactions[i].status = "refunded")
             /\ transactions'[i].reconciled
  <2>1. PICK o \in Txs!StoredRow : o = transactions[i]
    BY <1>3
  <2>2. CASE o.reconciled
    <3>1. transactions'[i] = o
      BY <1>1, <2>1, <2>2
    <3>2. QED
      BY <2>1, <2>2, <3>1
  <2>3. CASE ~o.reconciled
    <3>1. transactions'[i] = Txs!Reconciled(o)
      BY <1>1, <2>1, <2>3
    <3>2. /\ Txs!Reconciled(o) \in Txs!StoredRow /\ Txs!Reconciled(o).hash = o.hash /\ Txs!Reconciled(o).type = o.type
          /\ Txs!Reconciled(o).reference = o.reference /\ Txs!Reconciled(o).reconciled = TRUE
          /\ Txs!Reconciled(o).status = IF o.status = "completed" THEN "reconciled" ELSE o.status
      <4> DEFINE s == IF o.status = "completed" THEN "reconciled" ELSE o.status
      <4>1. s \in Txs!Status
        BY RowFields DEF Txs!Status
      <4>2. Txs!Reconciled(o) = [hash |-> o.hash, type |-> o.type, status |-> s,
                             reference |-> o.reference, reconciled |-> TRUE, at |-> o.at]
        BY DEF Txs!Reconciled
      <4> HIDE DEF s
      <4>3. [hash |-> o.hash, type |-> o.type, status |-> s,
             reference |-> o.reference, reconciled |-> TRUE, at |-> o.at] \in Txs!StoredRow
        BY <4>1, RowFields DEF Txs!StoredRow
      <4>4. /\ Txs!Reconciled(o).hash = o.hash /\ Txs!Reconciled(o).type = o.type
            /\ Txs!Reconciled(o).reference = o.reference /\ Txs!Reconciled(o).reconciled = TRUE
            /\ Txs!Reconciled(o).status = s
        BY <4>2
      <4>5. QED
        BY <4>2, <4>3, <4>4 DEF s
    <3>3. Txs!Reconciled(o).status = "refunded" <=> o.status = "refunded"
      BY <3>2
    <3>4. QED
      BY <2>1, <3>1, <3>2, <3>3
  <2>4. QED
    BY <2>2, <2>3
<1>5. transactions' \in Seq(Txs!StoredRow) /\ Txs!Ids' = Txs!Ids
  <2>1. transactions' = [i \in 1..Len(transactions) |-> transactions'[i]]
    BY <1>1, <1>3
  <2>2. transactions' \in Seq(Txs!StoredRow)
    BY <1>3, <1>4, <2>1
  <2>3. DOMAIN transactions' = Txs!Ids
    BY <1>1
  <2>4. QED
    BY <2>2, <2>3 DEF Txs!Ids
<1>6. \A h : Txs!IdOf(h)' = Txs!IdOf(h) /\ (Txs!Recorded(h)' <=> Txs!Recorded(h)) /\ Txs!Refunds(h)' = Txs!Refunds(h)
  <2>1. \A h : Txs!IdOf(h)' = Txs!IdOf(h) /\ (Txs!Recorded(h)' <=> Txs!Recorded(h))
    BY <1>4, <1>5 DEF Txs!IdOf, Txs!Recorded
  <2>2. \A i \in Txs!Ids : posted'[transactions'[i].hash] = posted[transactions[i].hash]
    BY <1>1, <1>4
  <2>3. \A h : Txs!Refunds(h)' = Txs!Refunds(h)
    BY <1>4, <1>5, <2>2 DEF Txs!Refunds
  <2>4. QED
    BY <2>1, <2>3
<1>7. ASSUME NEW i \in Txs!Ids
      PROVE  /\ transactions[i].hash \in RowHash
             /\ reported[transactions[i].hash] = (IF transactions[i].reconciled THEN 1 ELSE 0)
             /\ reported'[transactions[i].hash] = 1
  <2>1. PICK h : h = transactions[i].hash
    OBVIOUS
  <2>2. h \in RowHash /\ transactions[i].reconciled \in BOOLEAN /\ Txs!IdOf(h) = {i}
    BY <1>2, <1>3, <2>1, RowFields, RowFound
  <2>3. reported'[h] = reported[h] + Txs!Cardinality(Txs!IdOf(h) \intersect Txs!Unreconciled(transactions))
    BY <1>1, <2>2
  <2>4. reported[h] = IF transactions[i].reconciled THEN 1 ELSE 0
    BY <1>2, <2>1 DEF Txs!ReconciledOnce
  <2>5. CASE transactions[i].reconciled
    <3>1. Txs!IdOf(h) \intersect Txs!Unreconciled(transactions) = {}
      BY <2>2, <2>5 DEF Txs!Unreconciled
    <3>2. QED
      BY <2>1, <2>2, <2>3, <2>4, <2>5, <3>1, FS_EmptySet, TxsSizes
  <2>6. CASE ~transactions[i].reconciled
    <3>1. Txs!IdOf(h) \intersect Txs!Unreconciled(transactions) = {i}
      BY <2>2, <2>6 DEF Txs!Unreconciled, Txs!Ids
    <3>2. Txs!Cardinality({i}) = 1
      BY FS_Singleton, TxsSizes
    <3>3. QED
      BY <2>1, <2>2, <2>3, <2>4, <2>6, <3>1, <3>2
  <2>7. QED
    BY <2>5, <2>6
<1>8. ASSUME NEW h \in RowHash PROVE reported'[h] \in Nat /\ (~Txs!Recorded(h) => reported'[h] = 0)
  <2>1. reported'[h] = reported[h] + Txs!Cardinality(Txs!IdOf(h) \intersect Txs!Unreconciled(transactions))
        /\ reported[h] \in Nat
    BY <1>1, <1>2 DEF RowsTyped
  <2>2. Txs!Cardinality(Txs!IdOf(h) \intersect Txs!Unreconciled(transactions)) \in Nat
    <3>1. Txs!IsFiniteSet(1..Len(transactions)) /\ Txs!IdOf(h) \intersect Txs!Unreconciled(transactions) \subseteq 1..Len(transactions)
      BY <1>3, FS_Interval, TxsSizes DEF Txs!IdOf
    <3>2. QED
      BY <3>1, FS_Subset, FS_CardinalityType, TxsSizes
  <2>3. ASSUME ~Txs!Recorded(h) PROVE reported'[h] = 0
    <3>1. Txs!IdOf(h) \intersect Txs!Unreconciled(transactions) = {}
      BY <2>3 DEF Txs!Recorded
    <3>2. reported[h] = 0
      BY <1>2, <2>3 DEF NothingElseReported
    <3>3. QED
      BY <2>1, <3>1, <3>2, FS_EmptySet, TxsSizes
  <2>4. QED
    BY <2>1, <2>2, <2>3
<1>9. reported' \in [RowHash -> Nat]
  BY <1>1, <1>8
<1>10. RowsTyped'
  <2>1. \A i, j \in Txs!Ids' : transactions'[i].hash = transactions'[j].hash => i = j
    BY <1>2, <1>4, <1>5 DEF RowsTyped
  <2>2. QED
    BY <1>1, <1>2, <1>5, <1>9, <2>1 DEF RowsTyped
<1>11. ASSUME NEW r \in RowRefund PROVE RefundKnown(r)'
  <2>1. refund[r].step # "insert" /\ RefundKnown(r) /\ refund' = refund
    BY <1>1, <1>2 DEF RefundKnown
  <2>2. QED
    BY <1>6, <2>1 DEF RefundKnown
<1>12. LocksExclusive'
  BY <1>1, <1>2 DEF LocksExclusive
<1>13. RefundRows' /\ StaysRefunded'
  BY <1>1, <1>2, <1>4, <1>5, <1>6 DEF RefundRows, StaysRefunded
<1>14. NothingElseReported'
  BY <1>1, <1>2, <1>6, <1>8 DEF NothingElseReported
<1>15. Txs!RefundedOnce'
  <2> SUFFICES ASSUME NEW i \in Txs!Ids, NEW g, g = transactions[i].hash
               PROVE  /\ Txs!Cardinality(Txs!Refunds(g)') =
                           IF transactions'[i].status = "refunded" /\ posted[g] # "refunded" THEN 1 ELSE 0
                      /\ transactions'[i].type = "refund" => Txs!Refunds(g)' = {}
    BY <1>1, <1>4, <1>5 DEF Txs!RefundedOnce
  <2>1. transactions'[i].type = transactions[i].type /\ Txs!Refunds(g)' = Txs!Refunds(g)
        /\ (transactions'[i].status = "refunded" <=> transactions[i].status = "refunded")
    BY <1>4, <1>6
  <2>2. QED
    BY <1>2, <2>1 DEF Txs!RefundedOnce
<1>16. Txs!ReconciledOnce'
  BY <1>4, <1>5, <1>7 DEF Txs!ReconciledOnce
<1>17. QED
  BY <1>10, <1>11, <1>12, <1>13, <1>14, <1>15, <1>16 DEF TransactionsInv

\* A step of the rows is one of the refunds or one of the pages.
RowsStep ==
  \/ component = "pages" /\ Txs!PageNext /\ UNCHANGED refundVars
  \/ component # "pages" /\ Txs!RefundNext /\ UNCHANGED pageVars
  \/ UNCHANGED rowVars

LEMMA TransactionsStep ==
  ASSUME Txs!TransactionsAssumption, TransactionsInv, RowsStep
  PROVE  TransactionsInv'
<1>0. clock \in 0..RowTime /\ clock \in Nat /\ clock \in Int
  BY DEF TransactionsInv, RowsTyped, Txs!TransactionsAssumption
<1>1. CASE Txs!RefundNext /\ UNCHANGED pageVars
  <2>0. clock' = clock
    BY <1>1 DEF pageVars
  <2>1. CASE Txs!Reconcile
    BY <2>0, <2>1, ReconcileKeepsTransactions
  <2>2. ASSUME NEW h \in RowHash, NEW status \in Txs!Status, NEW type \in {"transfer", "refund"},
               NEW reference \in RowHash \cup {NoHash}, Txs!Record(h, type, status, reference)
        PROVE  TransactionsInv'
    <3> DEFINE item == Txs!NewRow(h, type, status, reference, clock)
    <3>1. item \in Txs!StoredRow /\ item.hash = h /\ item.status = status /\ item.reconciled = FALSE
      BY <1>0 DEF Txs!NewRow, Txs!StoredRow
    <3>2. /\ ~Txs!Recorded(h) /\ transactions' = Append(transactions, item)
          /\ posted' = [posted EXCEPT ![h] = status] /\ UNCHANGED <<refund, locked, reported>>
      BY <2>2 DEF Txs!Record
    <3> HIDE DEF item
    <3>3. QED
      BY <2>0, <3>1, <3>2, RowKeepsTransactions
  <2>3. CASE \E r \in RowRefund :
               \/ \E h, by \in RowHash : Txs!CheckOriginal(r, h, by)
               \/ Txs!CheckDuplicate(r) \/ Txs!LockRefused(r) \/ Txs!LockOriginal(r) \/ Txs!CommitRefund(r)
               \/ Txs!RollBack(r)
    BY <2>0, <2>3, CheckKeepsTransactions, DuplicateKeepsTransactions, LockKeepsTransactions,
       CommitKeepsTransactions
  <2>4. QED
    BY <1>1, <2>1, <2>2, <2>3 DEF Txs!RefundNext
<1>2. CASE Txs!PageNext /\ UNCHANGED refundVars
  <2>1. CASE Txs!Wait \/ Txs!ReadPage \/ \E i \in open : Txs!Commit(i)
    <3>1. UNCHANGED transactions /\ (clock' = clock \/ (clock < RowTime /\ clock' = clock + 1))
      BY <2>1 DEF Txs!Wait, Txs!ReadPage, Txs!Commit
    <3>2. clock' \in 0..RowTime
      BY <1>0, <3>1 DEF Txs!TransactionsAssumption
    <3>3. QED
      BY <1>2, <3>1, <3>2, UntouchedKeepsTransactions
  <2>2. ASSUME NEW h \in RowHash, NEW at \in 0..clock, Txs!Insert(h, at) PROVE TransactionsInv'
    <3> DEFINE item == Txs!NewRow(h, "transfer", "completed", NoHash, at)
    <3>1. /\ item \in Txs!StoredRow /\ item.hash = h /\ item.type = "transfer" /\ item.status = "completed"
          /\ item.reconciled = FALSE
      BY <1>0 DEF Txs!NewRow, Txs!StoredRow, Txs!Status
    <3>2. ~Txs!Recorded(h) /\ transactions' = Append(transactions, item) /\ clock' = clock
      BY <2>2 DEF Txs!Insert
    <3>3. UNCHANGED <<refund, locked, reported, posted>>
      BY <1>2 DEF refundVars
    <3> HIDE DEF item
    <3>4. QED
      BY <3>1, <3>2, <3>3, RowKeepsTransactions
  <2>3. QED
    BY <1>2, <2>1, <2>2 DEF Txs!PageNext
<1>3. CASE UNCHANGED rowVars
  <2>1. UNCHANGED <<transactions, refundVars>> /\ clock' = clock
    BY <1>3 DEF rowVars, pageVars
  <2>2. QED
    BY <1>0, <2>1, UntouchedKeepsTransactions
<1>4. QED
  BY <1>1, <1>2, <1>3 DEF RowsStep

\* What lies between a date rounded down and that date is rounded down like it.
LEMMA RoundedAlike ==
  ASSUME Txs!TransactionsAssumption, NEW t \in Nat, NEW u \in Nat
  PROVE  /\ Txs!Rounded(u) \in Nat /\ Txs!Rounded(u) <= u
         /\ t <= u /\ ~(t < Txs!Rounded(u)) => Txs!Rounded(t) = Txs!Rounded(u)
BY RoundedDown DEF Txs!TransactionsAssumption, Txs!Rounded

----
\* The invariant of a reader: it has seen nothing yet, or its cursor is the last row of a
\* page.
ReaderType == [state : {"none", "more", "done"}, direction : {"asc", "desc"}, at : Nat, id : Nat]
PagesTyped ==
  /\ open \subseteq Txs!Ids /\ reader \in ReaderType
  /\ row_shown \subseteq Txs!Ids /\ again \subseteq row_shown /\ ends \subseteq row_shown
  /\ began \subseteq Txs!Ids \ open
Unread ==
  reader.state = "none" =>
    reader.id = 0 /\ row_shown = {} /\ again = {} /\ ends = {} /\ began = {}
AtAnEnd ==
  reader.state = "more" =>
    /\ reader.id # 0 /\ reader.id \in ends
    /\ reader.at = Txs!Rounded(transactions[reader.id].at)

\* Newest first: what was shown does not come again, and a row from before the beginning
\* has been shown, or is still to come, or has the date of an end.
Downwards ==
  reader.direction = "desc" =>
    /\ again = {}
    /\ reader.state = "more" =>
         /\ \A i \in row_shown : ~Txs!After(i)
         /\ \A i \in began \ row_shown : Txs!After(i) \/ Txs!WithAnEnd(i)

\* Oldest first: a row from before the beginning has been shown or is still to come, and
\* what was shown and comes again has the date of the cursor.
Upwards ==
  reader.direction = "asc" =>
    /\ \A i \in again : Txs!WithAnEnd(i)
    /\ reader.state = "more" =>
         /\ \A i \in row_shown : Txs!After(i) => Txs!Rounded(transactions[i].at) = reader.at
         /\ \A i \in began \ row_shown : Txs!After(i)

AllRead ==
  reader.state = "done" => \A i \in began \ row_shown : reader.direction = "desc" /\ Txs!WithAnEnd(i)

PagesInv ==
  /\ component # "pages" => open = {} /\ reader.state = "none"
  /\ PagesTyped /\ Unread /\ AtAnEnd /\ Downwards /\ Upwards /\ AllRead

LEMMA PagesHold == ASSUME PagesInv PROVE Txs!PagesComplete
BY DEF PagesInv, PagesTyped, ReaderType, Downwards, Upwards, AllRead, Txs!PagesComplete

LEMMA PagesInit == ASSUME Txs!Init PROVE PagesInv
<1>1. PICK direction \in {"asc", "desc"} : reader = [state |-> "none", direction |-> direction, at |-> 0, id |-> 0]
  BY DEF Txs!Init
<1>2. open = {} /\ row_shown = {} /\ again = {} /\ ends = {} /\ began = {}
  BY DEF Txs!Init
<1>3. reader \in ReaderType /\ reader.state = "none" /\ reader.id = 0
  BY <1>1 DEF ReaderType
<1>4. QED
  BY <1>2, <1>3 DEF PagesInv, PagesTyped, Unread, AtAnEnd, Downwards, Upwards, AllRead

\* Steps that read no page: rows are added, and no row's date changes.
LEMMA RowsAdded ==
  ASSUME PagesInv, UNCHANGED <<component, reader, row_shown, again, ends, began>>,
         Txs!Ids \subseteq Txs!Ids', open' \subseteq Txs!Ids', began \cap open' = {},
         component = "pages" \/ open' = {},
         \A i \in Txs!Ids : transactions'[i].at = transactions[i].at
  PROVE  PagesInv'
<1>1. PagesTyped /\ Unread /\ AtAnEnd /\ Downwards /\ Upwards /\ AllRead
  BY DEF PagesInv
<1>2. PagesTyped' /\ Unread' /\ (component' # "pages" => open' = {} /\ reader'.state = "none")
  BY <1>1 DEF PagesInv, PagesTyped, Unread
<1>3. /\ \A i \in Txs!Ids : Txs!After(i)' <=> Txs!After(i)
      /\ \A i \in Txs!Ids : Txs!WithAnEnd(i) => Txs!WithAnEnd(i)'
  BY <1>1 DEF PagesTyped, Txs!After, Txs!Before, Txs!WithAnEnd, Txs!Rounded
<1>4. AtAnEnd'
  BY <1>1 DEF PagesTyped, AtAnEnd, Txs!Rounded
<1>5. Downwards'
  BY <1>1, <1>3 DEF PagesTyped, Downwards
<1>6. Upwards'
  <2>1. \A i \in row_shown : Txs!Rounded(transactions'[i].at) = Txs!Rounded(transactions[i].at)
    BY <1>1 DEF PagesTyped
  <2>2. QED
    BY <1>1, <1>3, <2>1 DEF PagesTyped, Upwards, Txs!Rounded
<1>7. AllRead'
  BY <1>1, <1>3 DEF PagesTyped, AllRead
<1>8. QED
  BY <1>2, <1>4, <1>5, <1>6, <1>7 DEF PagesInv

\* What the order of the rows and of the cursor means in each direction.
LEMMA RowOrder ==
  ASSUME RowsTyped, PagesTyped
  PROVE  /\ \A i \in Txs!Ids : transactions[i].at \in Nat /\ i \in Nat /\ i # 0
         /\ reader.at \in Nat /\ reader.id \in Nat
         /\ reader.direction = "desc" =>
              /\ \A i, j \in Txs!Ids : Txs!Ahead(i, j) <=>
                   \/ transactions[j].at < transactions[i].at
                   \/ transactions[i].at = transactions[j].at /\ j < i
              /\ \A i \in Txs!Ids : Txs!After(i) <=>
                   \/ reader.id = 0 \/ transactions[i].at < reader.at
                   \/ reader.at = transactions[i].at /\ i < reader.id
         /\ reader.direction = "asc" =>
              /\ \A i, j \in Txs!Ids : Txs!Ahead(i, j) <=>
                   \/ transactions[i].at < transactions[j].at
                   \/ transactions[i].at = transactions[j].at /\ i < j
              /\ \A i \in Txs!Ids : Txs!After(i) <=>
                   \/ reader.id = 0 \/ reader.at < transactions[i].at
                   \/ reader.at = transactions[i].at /\ reader.id < i
<1>1. \A i \in Txs!Ids : transactions[i].at \in Nat /\ i \in Nat /\ i # 0
  BY RowsKnown, RowFields
<1>2. reader.at \in Nat /\ reader.id \in Nat
  BY DEF PagesTyped, ReaderType
<1>3. QED
  BY <1>1, <1>2 DEF Txs!Ahead, Txs!After, Txs!Before

\* A page takes the first of the rows that are listed, or all of them.
LEMMA PageFirst ==
  ASSUME Txs!TransactionsAssumption, RowsTyped, PagesTyped
  PROVE  /\ Txs!Page \subseteq Txs!Listed /\ Txs!Listed \subseteq Txs!Ids \ open
         /\ Txs!Cardinality(Txs!Listed) <= RowLimit => Txs!Page = Txs!Listed
         /\ \A last \in Txs!Page : \A i \in Txs!Listed \ Txs!Page : Txs!Ahead(last, i)
<1> DEFINE Fore(i) == {j \in Txs!Listed : Txs!Ahead(j, i)}
<1>1. Txs!Page \subseteq Txs!Listed /\ Txs!Listed \subseteq Txs!Ids \ open
  BY DEF Txs!Page, Txs!Listed, Txs!Visible
<1>2. \A i \in Txs!Listed : i \in Txs!Page <=> Txs!Cardinality(Fore(i)) < RowLimit
  BY DEF Txs!Page
<1>3. RowLimit \in Nat /\ Txs!IsFiniteSet(Txs!Listed)
  <2>1. Txs!Ids = 1..Len(transactions) /\ Len(transactions) \in Nat
    BY RowsKnown
  <2>2. IsFiniteSet(1..Len(transactions))
    BY <2>1, FS_Interval
  <2>3. QED
    BY <1>1, <2>1, <2>2, FS_Subset, TxsSizes DEF Txs!TransactionsAssumption
<1>4. \A i : Txs!IsFiniteSet(Fore(i)) /\ Txs!Cardinality(Fore(i)) \in Nat
  <2>1. \A i : Fore(i) \subseteq Txs!Listed
    OBVIOUS
  <2>2. QED
    BY <1>3, <2>1, FS_Subset, FS_CardinalityType, TxsSizes
<1>5. /\ \A i \in Txs!Ids : transactions[i].at \in Nat /\ i \in Nat
      /\ reader.direction \in {"asc", "desc"}
  BY RowOrder DEF PagesTyped, ReaderType
<1>6. /\ \A i \in Txs!Ids : ~Txs!Ahead(i, i)
      /\ \A i, j, k \in Txs!Ids : Txs!Ahead(i, j) /\ Txs!Ahead(j, k) => Txs!Ahead(i, k)
      /\ \A i, j \in Txs!Ids : i = j \/ Txs!Ahead(i, j) \/ Txs!Ahead(j, i)
  <2>1. CASE reader.direction = "asc"
    BY <1>5, <2>1, SMTT(60) DEF Txs!Ahead, Txs!Before
  <2>2. CASE reader.direction = "desc"
    BY <1>5, <2>2, SMTT(60) DEF Txs!Ahead, Txs!Before
  <2>3. QED
    BY <1>5, <2>1, <2>2
<1>7. ASSUME Txs!Cardinality(Txs!Listed) <= RowLimit, NEW i \in Txs!Listed PROVE i \in Txs!Page
  <2>1. Fore(i) \subseteq Txs!Listed /\ Fore(i) # Txs!Listed
    BY <1>1, <1>6
  <2>2. Txs!Cardinality(Fore(i)) < Txs!Cardinality(Txs!Listed) /\ Txs!Cardinality(Txs!Listed) \in Nat
    <3> HIDE DEF Fore
    <3>1. QED
      BY <1>3, <2>1, FS_Subset, FS_CardinalityType, TxsSizes
  <2>3. Txs!Cardinality(Fore(i)) < RowLimit
    <3> HIDE DEF Fore
    <3>1. QED
      BY <1>3, <1>4, <1>7, <2>2
  <2>4. QED
    BY <1>2, <2>3
<1>8. ASSUME NEW last \in Txs!Page, NEW i \in Txs!Listed \ Txs!Page, ~Txs!Ahead(last, i) PROVE FALSE
  <2>1. last \in Txs!Ids /\ i \in Txs!Ids /\ last # i /\ last \in Txs!Listed
    BY <1>1, <1>8
  <2>2. Txs!Ahead(i, last)
    BY <1>6, <1>8, <2>1
  <2>3. Fore(i) \subseteq Fore(last)
    BY <1>1, <1>6, <2>1, <2>2
  <2>4. Txs!Cardinality(Fore(i)) <= Txs!Cardinality(Fore(last))
    <3> HIDE DEF Fore
    <3>1. QED
      BY <1>4, <2>3, FS_Subset, TxsSizes
  <2>5. Txs!Cardinality(Fore(last)) < RowLimit /\ ~(Txs!Cardinality(Fore(i)) < RowLimit)
    BY <1>2, <1>8, <2>1
  <2>6. QED
    <3> HIDE DEF Fore
    <3>1. QED
      BY <1>3, <1>4, <2>4, <2>5
<1>9. QED
  BY <1>1, <1>7, <1>8

LEMMA PageKeeps ==
  ASSUME Txs!TransactionsAssumption, RowsTyped, PagesInv, component = "pages", component' = component,
         Txs!ReadPage
  PROVE  PagesInv'
<1>1. PagesTyped /\ Unread /\ AtAnEnd /\ Downwards /\ Upwards /\ AllRead
  BY DEF PagesInv
<1>2. /\ reader.state \in {"none", "more"} /\ UNCHANGED <<transactions, open>> /\ Txs!Ids' = Txs!Ids
      /\ began' = IF reader.state = "none" THEN Txs!Ids \ open ELSE began
      /\ row_shown' = row_shown \cup Txs!Page /\ again' = again \cup (row_shown \cap Txs!Page)
      /\ began' \subseteq Txs!Ids \ open
  BY <1>1 DEF Txs!ReadPage, Txs!Visible, Txs!Ids, PagesTyped
<1>3. /\ Txs!Page \subseteq Txs!Listed /\ Txs!Listed \subseteq Txs!Ids \ open
      /\ Txs!Cardinality(Txs!Listed) <= RowLimit => Txs!Page = Txs!Listed
      /\ \A last \in Txs!Page : \A i \in Txs!Listed \ Txs!Page : Txs!Ahead(last, i)
      /\ \A i \in Txs!Ids \ open : i \in Txs!Listed <=> Txs!After(i)
  BY <1>1, PageFirst DEF Txs!Listed, Txs!Visible
<1>4. /\ \A i \in Txs!Ids : transactions[i].at \in Nat /\ i \in Nat /\ i # 0
      /\ reader.at \in Nat /\ reader.id \in Nat
      /\ reader.state \in {"none", "more", "done"} /\ reader.direction \in {"asc", "desc"}
      /\ row_shown \subseteq Txs!Ids /\ ends \subseteq row_shown /\ again \subseteq row_shown
  BY <1>1, RowOrder DEF PagesTyped, ReaderType
\* Before the page: a row from before the beginning was shown, or is listed, or has the
\* date of an end; and what is listed again has the date of an end too.
<1>5. \A i \in began' \ row_shown : i \in Txs!Listed \/ (reader.direction = "desc" /\ Txs!WithAnEnd(i))
  <2>1. CASE reader.state = "none"
    <3>1. \A i : Txs!After(i)
      BY <1>1, <2>1 DEF Unread, Txs!After
    <3>2. QED
      BY <1>2, <1>3, <3>1
  <2>2. CASE reader.state = "more"
    BY <1>1, <1>2, <1>3, <1>4, <2>2 DEF Downwards, Upwards
  <2>3. QED
    BY <1>2, <2>1, <2>2
<1>6. ASSUME NEW i \in row_shown \cap Txs!Page PROVE reader.direction = "asc" /\ Txs!WithAnEnd(i)
  <2>1. CASE reader.state = "none"
    BY <1>1, <1>6, <2>1 DEF Unread
  <2>2. CASE reader.state = "more"
    <3>1. Txs!After(i)
      BY <1>3, <1>4, <1>6
    <3>2. reader.direction = "asc"
      BY <1>1, <1>4, <1>6, <2>2, <3>1 DEF Downwards
    <3>3. QED
      BY <1>1, <1>6, <2>2, <3>1, <3>2 DEF Upwards, AtAnEnd, Txs!WithAnEnd
  <2>3. QED
    BY <1>2, <2>1, <2>2
<1>7. ends \subseteq ends' /\ reader'.direction = reader.direction
  <2>1. [reader EXCEPT !.state = "done"].direction = reader.direction
    <3>1. \A x \in ReaderType : [x EXCEPT !.state = "done"].direction = x.direction
      BY DEF ReaderType
    <3>2. QED
      BY <1>1, <3>1 DEF PagesTyped
  <2>2. \/ reader' = [reader EXCEPT !.state = "done"] /\ ends' = ends
        \/ \E at, last : /\ ends' = ends \cup {last}
                        /\ reader' = [state |-> "more", direction |-> reader.direction, at |-> at, id |-> last]
    BY Zenon DEF Txs!ReadPage
  <2>3. CASE reader' = [reader EXCEPT !.state = "done"] /\ ends' = ends
    BY <2>1, <2>3
  <2>4. CASE \E at, last : /\ ends' = ends \cup {last}
                          /\ reader' = [state |-> "more", direction |-> reader.direction, at |-> at, id |-> last]
    BY <2>4
  <2>5. QED
    BY <2>2, <2>3, <2>4, Zenon
<1>8. \A i : Txs!WithAnEnd(i) => Txs!WithAnEnd(i)'
  BY <1>2, <1>7 DEF Txs!WithAnEnd, Txs!Rounded
<1>9. /\ reader.direction = "desc" => again' = {}
      /\ reader.direction = "asc" => \A i \in again' : Txs!WithAnEnd(i)'
  BY <1>1, <1>2, <1>6, <1>8 DEF Downwards, Upwards
<1>10. CASE Txs!Cardinality(Txs!Listed) <= RowLimit /\ reader' = [reader EXCEPT !.state = "done"] /\ UNCHANGED ends
  <2>1. reader' \in ReaderType /\ reader'.state = "done"
    BY <1>1, <1>10 DEF PagesTyped, ReaderType
  <2>2. PagesTyped'
    <3>1. /\ row_shown' \subseteq Txs!Ids' /\ again' \subseteq row_shown' /\ ends' \subseteq row_shown'
          /\ open' \subseteq Txs!Ids' /\ began' \subseteq Txs!Ids' \ open'
      BY <1>1, <1>2, <1>3, <1>4, <1>10 DEF PagesTyped
    <3>2. QED
      BY <2>1, <3>1 DEF PagesTyped
  <2>3. AllRead'
    BY <1>2, <1>3, <1>5, <1>7, <1>8, <1>10 DEF AllRead
  <2>4. QED
    BY <1>7, <1>9, <2>1, <2>2, <2>3 DEF PagesInv, Unread, AtAnEnd, Downwards, Upwards
<1>11. ASSUME NEW last \in Txs!Page, \A i \in Txs!Page : ~Txs!Ahead(last, i),
              reader' = [state |-> "more", direction |-> reader.direction,
                         at |-> Txs!Rounded(transactions[last].at), id |-> last],
              ends' = ends \cup {last}
       PROVE  PagesInv'
  <2>1. PICK r \in Nat : r = Txs!Rounded(transactions[last].at)
    BY <1>3, <1>4, RoundedAlike
  <2>2. /\ r <= transactions[last].at
        /\ \A i \in Txs!Ids : r <= transactions[i].at /\ transactions[i].at <= transactions[last].at =>
             Txs!Rounded(transactions[i].at) = r
        /\ \A i \in Txs!Ids : transactions[last].at <= transactions[i].at /\ Txs!Rounded(transactions[i].at) <= transactions[last].at =>
             Txs!Rounded(transactions[i].at) = r
    <3>1. last \in Txs!Ids
      BY <1>3
    <3>2. \A i \in Txs!Ids : transactions[i].at \in Nat /\ Txs!Rounded(transactions[i].at) \in Nat
      BY <1>4, RoundedAlike
    <3>3. ASSUME NEW i \in Txs!Ids, r <= transactions[i].at, transactions[i].at <= transactions[last].at
          PROVE  Txs!Rounded(transactions[i].at) = r
      <4>1. ~(transactions[i].at < r)
        BY <1>4, <3>3
      <4>2. QED
        BY <1>4, <2>1, <3>1, <3>3, <4>1, RoundedAlike
    <3>4. ASSUME NEW i \in Txs!Ids, transactions[last].at <= transactions[i].at,
                 Txs!Rounded(transactions[i].at) <= transactions[last].at
          PROVE  Txs!Rounded(transactions[i].at) = r
      <4>1. ~(transactions[last].at < Txs!Rounded(transactions[i].at))
        BY <1>4, <3>1, <3>2, <3>4
      <4>2. QED
        BY <1>4, <2>1, <3>1, <3>4, <4>1, RoundedAlike
    <3>5. r <= transactions[last].at
      BY <1>4, <2>1, <3>1, RoundedAlike
    <3>6. QED
      BY <3>3, <3>4, <3>5
  <2>3. reader' \in ReaderType /\ reader'.state = "more" /\ reader'.at = r /\ reader'.id = last /\ last \in Txs!Ids
        /\ last # 0
    BY <1>3, <1>4, <1>11, <2>1 DEF ReaderType
  <2>4. PagesTyped'
    <3>1. /\ row_shown' \subseteq Txs!Ids' /\ again' \subseteq row_shown' /\ ends' \subseteq row_shown'
          /\ open' \subseteq Txs!Ids' /\ began' \subseteq Txs!Ids' \ open'
      BY <1>1, <1>2, <1>3, <1>4, <1>11 DEF PagesTyped
    <3>2. QED
      BY <2>3, <3>1 DEF PagesTyped
  <2>5. AtAnEnd'
    BY <1>2, <1>11, <2>3 DEF AtAnEnd, Txs!Rounded
  <2>6. \A i \in Txs!Ids : Txs!Rounded(transactions[i].at) = r => Txs!WithAnEnd(i)'
    BY <1>2, <1>11, <2>1 DEF Txs!WithAnEnd, Txs!Rounded
  <2>7. Txs!After(last)
    BY <1>3
  <2>8. Downwards'
    <3>1. SUFFICES ASSUME reader.direction = "desc" PROVE Downwards'
      BY <1>7 DEF Downwards
    <3>2. \A i, j \in Txs!Ids : Txs!Ahead(i, j) <=>
            transactions[j].at < transactions[i].at \/ (transactions[i].at = transactions[j].at /\ j < i)
      BY <1>1, <3>1, RowOrder
    <3>3. \A i \in Txs!Ids : Txs!After(i) <=>
            reader.id = 0 \/ transactions[i].at < reader.at \/ (reader.at = transactions[i].at /\ i < reader.id)
      BY <1>1, <3>1, RowOrder
    <3>4. \A i \in Txs!Ids : Txs!After(i)' <=> transactions[i].at < r \/ (r = transactions[i].at /\ i < last)
      BY <1>2, <1>7, <2>3, <3>1 DEF Txs!After, Txs!Before
    <3>5. ASSUME NEW i \in row_shown', Txs!After(i)' PROVE FALSE
      <4>1. i \in Txs!Ids /\ transactions[i].at \in Nat /\ transactions[last].at \in Nat /\ r \in Nat
            /\ i \in Nat /\ last \in Nat
        BY <1>2, <1>3, <1>4, <2>3
      <4>2. CASE i \in Txs!Page
        <5>1. ~Txs!Ahead(last, i)
          BY <1>11, <4>2
        <5>2. QED
          BY <2>2, <2>3, <3>2, <3>4, <3>5, <4>1, <5>1
      <4>3. CASE i \in row_shown
        <5>1. ~Txs!After(i) /\ reader.state = "more"
          BY <1>1, <1>2, <3>1, <4>3 DEF Downwards, Unread
        <5>2. QED
          BY <1>4, <2>2, <2>3, <2>7, <3>3, <3>4, <3>5, <4>1, <5>1
      <4>4. QED
        BY <1>2, <4>2, <4>3
    <3>6. ASSUME NEW i \in began' \ row_shown' PROVE Txs!After(i)' \/ Txs!WithAnEnd(i)'
      <4>1. i \in Txs!Ids /\ transactions[i].at \in Nat /\ transactions[last].at \in Nat /\ r \in Nat
            /\ i \in Nat /\ last \in Nat
        BY <1>2, <1>4, <2>3
      <4>2. CASE Txs!WithAnEnd(i)
        BY <1>8, <4>2
      <4>3. CASE i \in Txs!Listed
        <5>1. Txs!Ahead(last, i)
          BY <1>2, <1>3, <4>3
        <5>2. QED
          BY <2>2, <2>3, <2>6, <3>2, <3>4, <4>1, <5>1
      <4>4. QED
        BY <1>2, <1>5, <4>2, <4>3
    <3>7. QED
      BY <1>9, <3>1, <3>5, <3>6 DEF Downwards
  <2>9. Upwards'
    <3>1. SUFFICES ASSUME reader.direction = "asc" PROVE Upwards'
      BY <1>7 DEF Upwards
    <3>2. \A i, j \in Txs!Ids : Txs!Ahead(i, j) <=>
            transactions[i].at < transactions[j].at \/ (transactions[i].at = transactions[j].at /\ i < j)
      BY <1>1, <3>1, RowOrder
    <3>3. \A i \in Txs!Ids : Txs!After(i) <=>
            reader.id = 0 \/ reader.at < transactions[i].at \/ (reader.at = transactions[i].at /\ reader.id < i)
      BY <1>1, <3>1, RowOrder
    <3>4. \A i \in Txs!Ids : Txs!After(i)' <=> r < transactions[i].at \/ (r = transactions[i].at /\ last < i)
      BY <1>2, <1>7, <2>3, <3>1 DEF Txs!After, Txs!Before
    <3>5. ASSUME NEW i \in row_shown', Txs!After(i)' PROVE Txs!Rounded(transactions[i].at) = r
      <4>1. i \in Txs!Ids /\ transactions[i].at \in Nat /\ transactions[last].at \in Nat /\ r \in Nat
            /\ i \in Nat /\ last \in Nat /\ r <= transactions[i].at
        BY <1>2, <1>3, <1>4, <2>3, <3>4, <3>5
      <4>2. CASE transactions[i].at <= transactions[last].at
        BY <2>2, <4>1, <4>2
      <4>3. CASE ~(transactions[i].at <= transactions[last].at)
        <5>1. transactions[last].at < transactions[i].at
          BY <4>1, <4>3
        <5>2. i \in row_shown
          BY <1>2, <1>11, <2>3, <3>2, <4>1, <5>1
        <5>3. reader.state = "more" /\ reader.id # 0
          BY <1>1, <1>2, <5>2 DEF Unread, AtAnEnd
        <5>4. reader.at <= transactions[last].at
          BY <1>4, <2>3, <2>7, <3>3, <4>1, <5>3
        <5>5. Txs!After(i)
          BY <1>4, <3>3, <4>1, <5>1, <5>4
        <5>6. Txs!Rounded(transactions[i].at) = reader.at
          BY <1>1, <3>1, <5>2, <5>3, <5>5 DEF Upwards
        <5>7. QED
          BY <2>2, <4>1, <5>1, <5>4, <5>6
      <4>4. QED
        BY <4>2, <4>3
    <3>6. ASSUME NEW i \in began' \ row_shown' PROVE Txs!After(i)'
      <4>1. i \in Txs!Ids /\ transactions[i].at \in Nat /\ transactions[last].at \in Nat /\ r \in Nat
            /\ i \in Nat /\ last \in Nat
        BY <1>2, <1>4, <2>3
      <4>2. i \in Txs!Listed \ Txs!Page
        BY <1>2, <1>5, <3>1
      <4>3. Txs!Ahead(last, i)
        BY <1>3, <4>2
      <4>4. QED
        BY <2>2, <2>3, <3>2, <3>4, <4>1, <4>3
    <3>7. \A i \in row_shown' : Txs!After(i)' => Txs!Rounded(transactions[i].at)' = reader'.at
      BY <1>2, <2>3, <3>5 DEF Txs!Rounded
    <3>8. QED
      BY <1>9, <3>1, <3>6, <3>7 DEF Upwards
  <2>10. QED
    BY <2>3, <2>4, <2>5, <2>8, <2>9 DEF PagesInv, Unread, AllRead
<1>12. QED
  BY <1>10, <1>11 DEF Txs!ReadPage

LEMMA PagesStep ==
  ASSUME Txs!TransactionsAssumption, TransactionsInv, PagesInv, RowsStep, component' = component
  PROVE  PagesInv'
<1>1. RowsTyped /\ PagesTyped
  BY DEF TransactionsInv, PagesInv
<1>2. CASE component = "pages" /\ Txs!PageNext
  <2>1. CASE Txs!ReadPage
    BY <1>1, <1>2, <2>1, PageKeeps
  <2>2. CASE Txs!Wait \/ \E i \in open : Txs!Commit(i)
    <3>1. UNCHANGED <<transactions, reader, row_shown, again, ends, began>> /\ open' \subseteq open
      BY <2>2 DEF Txs!Wait, Txs!Commit
    <3>2. Txs!Ids' = Txs!Ids /\ open' \subseteq Txs!Ids' /\ began \cap open' = {}
      BY <1>1, <3>1 DEF PagesTyped, Txs!Ids
    <3>3. QED
      BY <1>2, <3>1, <3>2, RowsAdded
  <2>3. CASE \E h \in RowHash, at \in 0..clock : Txs!Insert(h, at)
    <3>1. PICK h \in RowHash, at \in 0..clock : Txs!Insert(h, at)
      BY <2>3
    <3> DEFINE n == Len(transactions) + 1
               item == Txs!NewRow(h, "transfer", "completed", NoHash, at)
    <3>2. /\ transactions' = Append(transactions, item) /\ open' = open \cup {n}
          /\ UNCHANGED <<reader, row_shown, again, ends, began>>
      BY <3>1 DEF Txs!Insert
    <3> HIDE DEF item
    <3>3. Len(transactions) \in Nat /\ Txs!Ids = 1..Len(transactions) /\ transactions \in Seq(Txs!StoredRow)
      BY <1>1, RowsKnown DEF RowsTyped
    <3>4. /\ DOMAIN transactions' = 1..n /\ \A i \in Txs!Ids : transactions'[i] = transactions[i]
      BY <3>2, <3>3
    <3>5. Txs!Ids' = Txs!Ids \cup {n} /\ n \notin Txs!Ids
      BY <3>3, <3>4 DEF Txs!Ids
    <3> HIDE DEF n
    <3>6. open' \subseteq Txs!Ids' /\ began \cap open' = {}
      BY <1>1, <3>2, <3>5 DEF PagesTyped
    <3>7. QED
      BY <1>2, <3>2, <3>4, <3>5, <3>6, RowsAdded
  <2>4. QED
    BY <1>2, <2>1, <2>2, <2>3 DEF Txs!PageNext
<1>3. CASE component # "pages" /\ UNCHANGED pageVars
  BY <1>3 DEF pageVars, PagesInv, PagesTyped, Unread, AtAnEnd, Downwards, Upwards, AllRead
<1>4. CASE UNCHANGED rowVars
  <2>1. UNCHANGED <<transactions, open, reader, row_shown, again, ends, began>>
    BY <1>4 DEF rowVars, pageVars
  <2>2. Txs!Ids' = Txs!Ids /\ open' \subseteq Txs!Ids' /\ began \cap open' = {}
    BY <1>1, <2>1 DEF PagesTyped, Txs!Ids
  <2>3. component = "pages" \/ open' = {}
    BY <2>1 DEF PagesInv
  <2>4. QED
    BY <2>1, <2>2, <2>3, RowsAdded
<1>5. QED
  BY <1>2, <1>3, <1>4 DEF RowsStep

LEMMA TransactionsHold ==
  ASSUME TransactionsInv, PagesInv
  PROVE  Txs!RefundedOnce /\ Txs!ReconciledOnce /\ Txs!PagesComplete
BY PagesHold DEF TransactionsInv

----
(* Guards *)

\* Finite sets and their sizes are the library's.
LEMMA GrdSizes ==
  /\ \A S : Grd!IsFiniteSet(S) <=> IsFiniteSet(S)
  /\ \A S : Grd!Cardinality(S) = Cardinality(S)
BY Zenon DEF Grd!IsFiniteSet, Grd!Cardinality, IsFiniteSet, Cardinality

\* The inductive invariant of the idempotency key: the requests that are guarded and
\* that are under way or were handled are one at most, ...
Involved(r) == r \in handled \/ keyed[r] \in {"handle", "answered"}
OneGuarded ==
  \A q, r \in GuardRequest : q \notin unguarded /\ r \notin unguarded /\ Involved(q) /\ Involved(r) => q = r

\* ... and what was handled and is guarded is cached or about to be.
HandledCached == \A r \in handled \ unguarded : keyed[r] = "answered" \/ key # Grd!Nobody

KeyTypes ==
  /\ key \in GuardRequest \cup {Grd!Nobody}
  /\ keyed \in [GuardRequest -> {"none", "handle", "handle_uncached", "answered", "done", "failed", "repeated"}]
  /\ handled \subseteq GuardRequest /\ unguarded \subseteq GuardRequest

KeyInv ==
  /\ KeyTypes /\ OneGuarded /\ HandledCached
  /\ \A r \in GuardRequest : keyed[r] = "handle_uncached" => r \in unguarded

LEMMA KeyInit == ASSUME Grd!GuardsAssumption, Grd!Init PROVE KeyInv
<1>1. key = Grd!Nobody /\ keyed = [r \in GuardRequest |-> "none"] /\ handled = {} /\ unguarded = {}
  BY DEF Grd!Init
<1>2. QED
  BY <1>1 DEF KeyInv, KeyTypes, OneGuarded, HandledCached, Involved

LEMMA KeyStep ==
  ASSUME Grd!GuardsAssumption, KeyInv, Grd!KeyNext \/ UNCHANGED keyVars
  PROVE  KeyInv'
<1>1. KeyTypes /\ OneGuarded /\ HandledCached /\ Grd!IsFiniteSet(GuardRequest) /\ Grd!Nobody \notin GuardRequest
      /\ \A r \in GuardRequest : keyed[r] = "handle_uncached" => r \in unguarded
  BY DEF KeyInv, Grd!GuardsAssumption
<1>2. CASE UNCHANGED keyVars
  BY <1>1, <1>2 DEF keyVars, KeyInv, KeyTypes, OneGuarded, HandledCached, Involved
<1>3. CASE Grd!ForgetKey
  BY <1>1, <1>3 DEF Grd!ForgetKey, KeyInv, KeyTypes, OneGuarded, HandledCached, Involved
<1>4. ASSUME NEW r \in GuardRequest, Grd!ReadKey(r) PROVE KeyInv'
  <2>1. CASE key = Grd!Nobody
    <3>1. /\ keyed[r] = "none" /\ keyed' = [keyed EXCEPT ![r] = "handle"]
          /\ key' = key /\ handled' = handled
          /\ unguarded' = unguarded \cup (IF Grd!UnderWay(r) # {} THEN {r} ELSE {})
      BY <1>4, <2>1 DEF Grd!ReadKey, Grd!Keyed
    <3>2. KeyTypes'
      BY <1>1, <3>1 DEF KeyTypes
    <3>3. HandledCached'
      BY <1>1, <3>1, <3>2 DEF HandledCached, KeyTypes
    <3>4. keyed'[r] = "handle" /\ \A q \in GuardRequest \ {r} : keyed'[q] = keyed[q]
      BY <1>1, <3>1 DEF KeyTypes
    <3>5. OneGuarded'
      <4>1. CASE Grd!UnderWay(r) # {}
        <5>1. unguarded' = unguarded \cup {r}
          BY <3>1, <4>1
        <5>2. QED
          BY <1>1, <3>1, <3>4, <5>1 DEF OneGuarded, Involved
      <4>2. CASE Grd!UnderWay(r) = {}
        <5>1. unguarded' = unguarded
          BY <3>1, <4>2
        <5>2. \A q \in GuardRequest \ {r} : q \notin unguarded => ~Involved(q)
          BY <1>1, <2>1, <4>2 DEF Grd!UnderWay, Grd!Keyed, HandledCached, Involved
        <5>3. \A q \in GuardRequest \ {r} : q \notin unguarded' => ~Involved(q)'
          BY <3>1, <3>4, <5>1, <5>2 DEF Involved
        <5>4. QED
          BY <5>3 DEF OneGuarded
      <4>3. QED
        BY <4>1, <4>2
    <3>6. \A q \in GuardRequest : keyed'[q] = "handle_uncached" => q \in unguarded'
      BY <1>1, <3>1, <3>4
    <3>7. QED
      BY <3>2, <3>3, <3>5, <3>6 DEF KeyInv
  <2>2. CASE key # Grd!Nobody
    <3>1. /\ keyed[r] = "none" /\ keyed' = [keyed EXCEPT ![r] = "repeated"]
          /\ key' = key /\ handled' = handled /\ unguarded' = unguarded
      BY <1>4, <2>2 DEF Grd!ReadKey, Grd!Keyed
    <3>2. KeyTypes'
      BY <1>1, <3>1 DEF KeyTypes
    <3>3. keyed'[r] = "repeated" /\ \A q \in GuardRequest \ {r} : keyed'[q] = keyed[q]
      BY <1>1, <3>1 DEF KeyTypes
    <3>4. QED
      BY <1>1, <2>2, <3>1, <3>2, <3>3 DEF KeyInv, KeyTypes, OneGuarded, HandledCached, Involved
  <2>3. QED
    BY <2>1, <2>2
<1>5. ASSUME NEW r \in GuardRequest, Grd!ReadKeyFails(r) PROVE KeyInv'
  <2>1. /\ keyed[r] = "none" /\ keyed' = [keyed EXCEPT ![r] = "handle_uncached"]
        /\ key' = key /\ handled' = handled /\ unguarded' = unguarded \cup {r}
    BY <1>5 DEF Grd!ReadKeyFails, Grd!Keyed
  <2>2. KeyTypes'
    BY <1>1, <2>1 DEF KeyTypes
  <2>3. keyed'[r] = "handle_uncached" /\ \A q \in GuardRequest \ {r} : keyed'[q] = keyed[q]
    BY <1>1, <2>1 DEF KeyTypes
  <2>4. OneGuarded' /\ HandledCached'
    BY <1>1, <2>1, <2>3 DEF OneGuarded, HandledCached, Involved, KeyTypes
  <2>5. QED
    BY <1>1, <2>1, <2>2, <2>3, <2>4 DEF KeyInv
<1>6. ASSUME NEW r \in GuardRequest, Grd!Handle(r) PROVE KeyInv'
  <2>1. /\ keyed[r] \in {"handle", "handle_uncached"} /\ key' = key /\ unguarded' = unguarded
        /\ \/ /\ handled' = handled \cup {r}
              /\ keyed' = [keyed EXCEPT ![r] = IF keyed[r] = "handle" THEN "answered" ELSE "done"]
           \/ keyed' = [keyed EXCEPT ![r] = "failed"] /\ handled' = handled
    BY <1>6 DEF Grd!Handle, Grd!Keyed
  <2>2. KeyTypes'
    BY <1>1, <2>1 DEF KeyTypes
  <2>3. \A q \in GuardRequest \ {r} : keyed'[q] = keyed[q]
    BY <1>1, <2>1 DEF KeyTypes
  <2>4. /\ keyed'[r] \in {"answered", "done", "failed"} /\ (keyed'[r] = "answered" => keyed[r] = "handle")
        /\ (keyed'[r] = "done" => keyed[r] = "handle_uncached")
        /\ (keyed'[r] = "failed" => handled' = handled)
        /\ handled \subseteq handled' /\ handled' \subseteq handled \cup {r}
    BY <1>1, <2>1 DEF KeyTypes
  <2>5. r \notin unguarded => keyed[r] = "handle"
    BY <1>1, <2>1
  <2>6. ASSUME NEW q \in GuardRequest, q \notin unguarded', Involved(q)' PROVE Involved(q)
    <3>1. CASE q = r
      BY <2>1, <2>5, <2>6, <3>1 DEF Involved
    <3>2. CASE q # r
      BY <2>3, <2>4, <2>6, <3>2 DEF Involved
    <3>3. QED
      BY <3>1, <3>2
  <2>7. OneGuarded'
    BY <1>1, <2>1, <2>6 DEF OneGuarded
  <2>8. ASSUME NEW q \in handled', q \notin unguarded' PROVE keyed'[q] = "answered" \/ key' # Grd!Nobody
    <3>1. CASE q = r
      <4>1. CASE handled' = handled /\ r \in handled
        <5>1. keyed[r] = "handle" /\ (keyed[r] = "answered" \/ key # Grd!Nobody)
          BY <1>1, <2>1, <2>5, <2>8, <3>1, <4>1 DEF HandledCached
        <5>2. QED
          BY <2>1, <5>1
      <4>2. CASE ~(handled' = handled /\ r \in handled)
        <5>1. keyed'[r] # "failed" /\ keyed[r] = "handle"
          BY <2>1, <2>4, <2>5, <2>8, <3>1, <4>2
        <5>2. QED
          BY <2>4, <3>1, <5>1
      <4>3. QED
        BY <4>1, <4>2
    <3>2. CASE q # r
      <4>1. q \in handled /\ q \notin unguarded /\ q \in GuardRequest
        BY <1>1, <2>1, <2>4, <2>8, <3>2 DEF KeyTypes
      <4>2. QED
        BY <1>1, <2>1, <2>3, <3>2, <4>1 DEF HandledCached
    <3>3. QED
      BY <3>1, <3>2
  <2>9. \A q \in GuardRequest : keyed'[q] = "handle_uncached" => q \in unguarded'
    BY <1>1, <2>1, <2>3, <2>4
  <2>10. HandledCached'
    BY <2>8 DEF HandledCached
  <2>11. QED
    BY <2>2, <2>7, <2>9, <2>10 DEF KeyInv
<1>7. ASSUME NEW r \in GuardRequest, Grd!StoreAnswer(r) PROVE KeyInv'
  <2>1. /\ keyed[r] = "answered" /\ keyed' = [keyed EXCEPT ![r] = "done"] /\ handled' = handled
        /\ \/ key' = r /\ unguarded' = unguarded
           \/ key' = key /\ unguarded' = unguarded \cup {r}
    BY <1>7 DEF Grd!StoreAnswer, Grd!Keyed
  <2>2. KeyTypes'
    BY <1>1, <2>1 DEF KeyTypes
  <2>3. keyed'[r] = "done" /\ \A q \in GuardRequest \ {r} : keyed'[q] = keyed[q]
    BY <1>1, <2>1 DEF KeyTypes
  <2>4. unguarded \subseteq unguarded' /\ (key' # Grd!Nobody \/ (r \in unguarded' /\ key' = key))
    BY <1>1, <2>1
  <2>5. ASSUME NEW q \in GuardRequest, q \notin unguarded', Involved(q)' PROVE Involved(q) /\ q \notin unguarded
    BY <2>1, <2>3, <2>4, <2>5 DEF Involved
  <2>6. OneGuarded'
    BY <1>1, <2>5 DEF OneGuarded
  <2>7. HandledCached'
    BY <1>1, <2>1, <2>3, <2>4 DEF HandledCached, KeyTypes
  <2>8. QED
    BY <1>1, <2>2, <2>3, <2>4, <2>6, <2>7 DEF KeyInv
<1>8. QED
  BY <1>2, <1>3, <1>4, <1>5, <1>6, <1>7 DEF Grd!KeyNext

LEMMA KeyHolds == ASSUME KeyInv PROVE Grd!HandledOncePerKey
<1>1. \A q, r \in handled \ unguarded : q = r
  BY DEF KeyInv, KeyTypes, OneGuarded, Involved
<1>2. Grd!Cardinality(handled \ unguarded) <= 1
  BY <1>1, AtMostOne, GrdSizes
<1>3. QED
  BY <1>2 DEF Grd!HandledOncePerKey

----
\* The inductive invariant of the counter of failed logins.
LoginTypes ==
  /\ counter \in [count : Nat, expires : BOOLEAN, stuck : BOOLEAN, failures : Nat]
  /\ login \in [GuardRequest -> [step : {"none", "fail", "expire", "judge"}, count : Nat]]

LoginInv == LoginTypes /\ Grd!FailuresExpire

LEMMA LoginInit == ASSUME Grd!Init PROVE LoginInv
<1>1. /\ counter = [count |-> 0, expires |-> FALSE, stuck |-> FALSE, failures |-> 0]
      /\ login = [r \in GuardRequest |-> [step |-> "none", count |-> 0]]
  BY DEF Grd!Init
<1>2. QED
  BY <1>1 DEF LoginInv, LoginTypes, Grd!FailuresExpire

LEMMA LoginStep ==
  ASSUME LoginInv, Grd!LoginNext \/ UNCHANGED loginVars
  PROVE  LoginInv'
<1>1. LoginTypes /\ Grd!FailuresExpire
  BY DEF LoginInv
<1>2. PICK n, f \in Nat, e, s \in BOOLEAN :
        counter = [count |-> n, expires |-> e, stuck |-> s, failures |-> f]
  BY <1>1 DEF LoginTypes
<1>3. n > 0 => e \/ s \/ \E r \in GuardRequest : login[r].step = "expire"
  BY <1>1, <1>2 DEF Grd!FailuresExpire, Grd!LoginAt
<1>4. CASE UNCHANGED loginVars
  BY <1>1, <1>4 DEF loginVars, LoginInv, LoginTypes, Grd!FailuresExpire, Grd!LoginAt
<1>5. CASE Grd!ForgetFailures
  <2>1. login' = login /\ (counter' = counter \/ (counter' \in [count : {0}, expires : BOOLEAN, stuck : BOOLEAN, failures : Nat]))
    BY <1>2, <1>5 DEF Grd!ForgetFailures
  <2>2. QED
    BY <1>1, <2>1 DEF LoginInv, LoginTypes, Grd!FailuresExpire, Grd!LoginAt
<1>6. ASSUME NEW r \in GuardRequest, Grd!TryLogin(r) PROVE LoginInv'
  <2>1. login[r].step = "none" /\ counter' = [count |-> n, expires |-> e, stuck |-> s, failures |-> f + 1]
        /\ login' = [login EXCEPT ![r].step = "fail"]
    BY <1>2, <1>6 DEF Grd!TryLogin, Grd!LoginAt
  <2>2. LoginTypes'
    BY <1>1, <2>1 DEF LoginTypes
  <2>3. \A q \in GuardRequest : login[q].step = "expire" => login'[q].step = "expire"
    BY <1>1, <2>1 DEF LoginTypes
  <2>4. QED
    BY <1>3, <2>1, <2>2, <2>3 DEF LoginInv, Grd!FailuresExpire, Grd!LoginAt
<1>7. ASSUME NEW r \in GuardRequest, login[r].step = "fail",
             counter' = [count |-> n + 1, expires |-> e, stuck |-> s, failures |-> f],
             login' = [login EXCEPT ![r] = [step |-> IF n = 0 THEN "expire" ELSE "judge", count |-> n + 1]]
      PROVE  LoginInv'
  <2>2. LoginTypes'
    BY <1>1, <1>7 DEF LoginTypes
  <2>3. \A q \in GuardRequest : login[q].step = "expire" => login'[q].step = "expire"
    BY <1>1, <1>7 DEF LoginTypes
  <2>4. n = 0 => login'[r].step = "expire"
    BY <1>1, <1>7 DEF LoginTypes
  <2>5. n = 0 \/ n > 0
    OBVIOUS
  <2>6. QED
    BY <1>3, <1>7, <2>2, <2>3, <2>4, <2>5 DEF LoginInv, Grd!FailuresExpire, Grd!LoginAt
\* A request that Redis failed is done with; the counter is not less excused.
<1>11. ASSUME NEW r \in GuardRequest, login[r].step = "fail", Grd!EndLogin(r),
              NEW m \in Nat, NEW b \in BOOLEAN,
              counter' = [count |-> m, expires |-> e, stuck |-> b, failures |-> f],
              (m = n /\ b = s) \/ (m = n + 1 /\ (s \/ n = 0 => b))
       PROVE  LoginInv'
  <2>1. login' = [login EXCEPT ![r] = [step |-> "none", count |-> 0]]
    BY <1>11 DEF Grd!EndLogin
  <2>2. LoginTypes'
    BY <1>1, <1>11, <2>1 DEF LoginTypes
  <2>3. \A q \in GuardRequest : login[q].step = "expire" => login'[q].step = "expire"
    BY <1>1, <1>11, <2>1 DEF LoginTypes
  <2>4. counter'.count = m /\ counter'.expires = e /\ counter'.stuck = b
    BY <1>11
  <2>5. m > 0 => e \/ b \/ \E q \in GuardRequest : login[q].step = "expire"
    <3>1. n = 0 \/ n > 0
      OBVIOUS
    <3>2. QED
      BY <1>3, <1>11, <3>1
  <2>6. QED
    BY <2>2, <2>3, <2>4, <2>5 DEF LoginInv, Grd!FailuresExpire, Grd!LoginAt
<1>12. ASSUME NEW r \in GuardRequest, Grd!Increment(r) PROVE LoginInv'
  <2>1. /\ login[r].step = "fail" /\ counter.count = n /\ n + 1 \in Nat
        /\ TRUE \in BOOLEAN /\ (s \/ n = 0 => TRUE)
    BY <1>2, <1>12 DEF Grd!Increment, Grd!LoginAt
  <2>2. CASE /\ counter' = [counter EXCEPT !.count = @ + 1]
             /\ login' = [login EXCEPT ![r] = [step |-> IF counter.count = 0 THEN "expire" ELSE "judge",
                                               count |-> counter.count + 1]]
    <3>1. counter' = [count |-> n + 1, expires |-> e, stuck |-> s, failures |-> f]
      BY <1>2, <2>2
    <3>2. login' = [login EXCEPT ![r] = [step |-> IF n = 0 THEN "expire" ELSE "judge", count |-> n + 1]]
      BY <2>1, <2>2
    <3>3. QED
      BY <1>7, <2>1, <3>1, <3>2
  <2>3. CASE Grd!EndLogin(r) /\ counter' = [counter EXCEPT !.count = @ + 1, !.stuck = @ \/ counter.count = 0]
    <3>1. CASE s \/ n = 0
      <4>1. (counter.stuck \/ counter.count = 0) = TRUE
        BY <1>2, <2>1, <3>1
      <4>2. counter' = [counter EXCEPT !.count = @ + 1, !.stuck = TRUE]
        BY Zenon, <2>3, <4>1
      <4>3. counter' = [count |-> n + 1, expires |-> e, stuck |-> TRUE, failures |-> f]
        BY <1>2, <4>2
      <4>4. QED
        BY Zenon, <1>11, <2>1, <2>3, <4>3
    <3>2. CASE ~(s \/ n = 0)
      <4>1. (counter.stuck \/ counter.count = 0) = FALSE /\ s = FALSE
        BY <1>2, <2>1, <3>2
      <4>2. counter' = [counter EXCEPT !.count = @ + 1, !.stuck = FALSE]
        BY Zenon, <2>3, <4>1
      <4>3. counter' = [count |-> n + 1, expires |-> e, stuck |-> s, failures |-> f]
        BY <1>2, <4>1, <4>2
      <4>4. QED
        BY Zenon, <1>11, <2>1, <2>3, <3>2, <4>3
    <3>3. QED
      BY <3>1, <3>2
  <2>4. CASE Grd!EndLogin(r) /\ counter' = counter
    <3>1. (n = n /\ s = s) \/ (n = n + 1 /\ (s \/ n = 0 => s))
      BY Zenon
    <3>2. QED
      BY Zenon, <1>2, <1>11, <2>1, <2>4, <3>1
  <2>5. QED
    BY Zenon, <1>12, <2>2, <2>3, <2>4 DEF Grd!Increment
<1>8. ASSUME NEW r \in GuardRequest, Grd!SetExpiry(r) PROVE LoginInv'
  <2>0. PICK b \in BOOLEAN : b = (n > 0)
    <3>1. CASE n > 0
      <4>1. TRUE = (n > 0)
        BY <3>1
      <4>2. QED
        BY Zenon, <4>1
    <3>2. CASE ~(n > 0)
      <4>1. FALSE = (n > 0)
        BY <3>2
      <4>2. QED
        BY Zenon, <4>1
    <3>3. QED
      BY <3>1, <3>2
  <2>1. \/ /\ counter' = [count |-> n, expires |-> b, stuck |-> s, failures |-> f]
           /\ login' = [login EXCEPT ![r].step = "judge"]
        \/ /\ \/ counter' = [count |-> n, expires |-> e, stuck |-> b, failures |-> f]
              \/ counter' = [count |-> n, expires |-> b, stuck |-> s, failures |-> f]
           /\ login' = [login EXCEPT ![r] = [step |-> "none", count |-> 0]]
    <3>1. (counter.count > 0) = b
      BY <1>2, <2>0
    <3>2. \/ /\ counter' = [counter EXCEPT !.expires = b]
             /\ login' = [login EXCEPT ![r].step = "judge"]
          \/ /\ \/ counter' = [counter EXCEPT !.stuck = b]
                \/ counter' = [counter EXCEPT !.expires = b]
             /\ login' = [login EXCEPT ![r] = [step |-> "none", count |-> 0]]
      BY Zenon, <1>8, <3>1 DEF Grd!SetExpiry, Grd!EndLogin
    <3>3. QED
      BY <1>2, <3>2
  <2>2. LoginTypes'
    BY <1>1, <2>1 DEF LoginTypes
  <2>3. counter'.count > 0 => counter'.expires \/ counter'.stuck
    <3>1. counter'.count = n /\ (counter'.expires = b \/ counter'.stuck = b)
      BY <2>1
    <3>2. n > 0 => b
      BY <2>0
    <3>3. QED
      BY <3>1, <3>2
  <2>4. QED
    BY <2>2, <2>3 DEF LoginInv, Grd!FailuresExpire
<1>9. ASSUME NEW r \in GuardRequest, Grd!Judge(r) PROVE LoginInv'
  <2>1. login[r].step = "judge" /\ counter' = counter
        /\ login' = [login EXCEPT ![r] = [step |-> "none", count |-> 0]]
    BY <1>9 DEF Grd!Judge, Grd!EndLogin, Grd!LoginAt
  <2>2. LoginTypes'
    BY <1>1, <2>1 DEF LoginTypes
  <2>3. \A q \in GuardRequest : login[q].step = "expire" => login'[q].step = "expire"
    BY <1>1, <2>1 DEF LoginTypes
  <2>4. QED
    BY <1>1, <2>1, <2>2, <2>3 DEF LoginInv, Grd!FailuresExpire, Grd!LoginAt
<1>10. QED
  BY <1>4, <1>5, <1>6, <1>8, <1>9, <1>12 DEF Grd!LoginNext

----
\* The inductive invariant of the window: as long as requests are served in order, a
\* stamp that was pruned is out of the window of every script that admits from now on,
\* since a stamp came a window later, or the stamps after it have reached the limit.
After(at) == {u \in stamps : u.at > at}
PrunedForGood ==
  \A s \in Grd!Counted \ stamps :
    \/ \E u \in stamps : u.at >= s.at + WindowSize
    \/ Grd!Cardinality(After(s.at)) >= WindowLimit

TimedStamp == [at : Int, id : Nat, counted : BOOLEAN]
WindowTypes ==
  /\ stamps \subseteq Grd!Counted /\ admitted \subseteq TimedStamp /\ Grd!IsFiniteSet(admitted)
  /\ now \in Nat /\ arrived \in [GuardRequest -> Int] /\ inOrder \in BOOLEAN

WindowInv == WindowTypes /\ (inOrder => PrunedForGood) /\ Grd!WindowWithinLimit

LEMMA WindowInit == ASSUME Grd!GuardsAssumption, Grd!Init PROVE WindowInv
<1>1. /\ now = 0 /\ stamps = {} /\ arrived = [r \in GuardRequest |-> -1]
      /\ admitted = {} /\ inOrder = TRUE /\ Grd!Counted = {}
  BY DEF Grd!Init, Grd!Counted
<1>2. WindowTypes
  <2>1. Grd!IsFiniteSet(admitted)
    BY <1>1, FS_EmptySet, GrdSizes
  <2>2. QED
    BY <1>1, <2>1 DEF WindowTypes
<1>3. PrunedForGood
  BY <1>1 DEF PrunedForGood
<1>4. ASSUME NEW t \in 0..WindowTime PROVE Grd!Cardinality({s \in Grd!Counted : t - WindowSize < s.at /\ s.at <= t}) <= WindowLimit
  <2>1. {s \in Grd!Counted : t - WindowSize < s.at /\ s.at <= t} = {}
    BY <1>1
  <2>2. QED
    BY <2>1, FS_EmptySet, GrdSizes DEF Grd!GuardsAssumption
<1>5. QED
  BY <1>2, <1>3, <1>4 DEF WindowInv, Grd!WindowWithinLimit

LEMMA StampsCounted ==
  ASSUME WindowTypes, NEW S, S \subseteq admitted
  PROVE  Grd!IsFiniteSet(S) /\ Grd!Cardinality(S) \in Nat
<1>1. Grd!IsFiniteSet(admitted)
  BY DEF WindowTypes
<1>2. Grd!IsFiniteSet(S)
  BY <1>1, FS_Subset, GrdSizes
<1>3. QED
  BY <1>2, FS_CardinalityType, GrdSizes

\* What is let through is typed, and is counted or not.
LEMMA LetThroughTyped ==
  ASSUME WindowTypes, NEW t \in Int
  PROVE  /\ Grd!StampAt(t, TRUE) \in TimedStamp /\ Grd!StampAt(t, TRUE).at = t
         /\ Grd!LetThrough(t, TRUE) \/ Grd!LetThrough(t, FALSE)
              => admitted' \subseteq TimedStamp /\ Grd!IsFiniteSet(admitted')
         /\ Grd!LetThrough(t, TRUE) => Grd!Counted' = Grd!Counted \cup {Grd!StampAt(t, TRUE)}
         /\ Grd!LetThrough(t, FALSE) => Grd!Counted' = Grd!Counted
<1>1. Grd!Cardinality(admitted) \in Nat
  BY StampsCounted
<1>2. PICK x, y : x = Grd!StampAt(t, TRUE) /\ y = Grd!StampAt(t, FALSE)
  OBVIOUS
<1>3. x \in TimedStamp /\ y \in TimedStamp /\ x.counted /\ ~y.counted /\ x.at = t
  BY <1>1, <1>2 DEF TimedStamp, Grd!StampAt
<1>4. ASSUME NEW z \in TimedStamp, admitted' = admitted \cup {z}
      PROVE  admitted' \subseteq TimedStamp /\ Grd!IsFiniteSet(admitted')
  <2>1. Grd!IsFiniteSet(admitted) /\ admitted \subseteq TimedStamp
    BY DEF WindowTypes
  <2>2. QED
    BY <1>4, <2>1, FS_AddElement, GrdSizes
<1>5. /\ Grd!LetThrough(t, TRUE) => admitted' = admitted \cup {x}
      /\ Grd!LetThrough(t, FALSE) => admitted' = admitted \cup {y}
  BY Zenon, <1>2 DEF Grd!LetThrough
<1>6. Grd!LetThrough(t, TRUE) => Grd!Counted' = Grd!Counted \cup {x}
  BY <1>3, <1>5 DEF Grd!Counted
<1>7. Grd!LetThrough(t, FALSE) => Grd!Counted' = Grd!Counted
  BY <1>3, <1>5 DEF Grd!Counted
<1>8. QED
  BY <1>2, <1>3, <1>4, <1>5, <1>6, <1>7

\* A step that neither adds nor prunes a stamp, and counts nothing.
LEMMA WindowStays ==
  ASSUME WindowInv, UNCHANGED <<stamps, inOrder>>, Grd!Counted' = Grd!Counted,
         admitted' \subseteq TimedStamp, Grd!IsFiniteSet(admitted'),
         now' \in Nat, arrived' \in [GuardRequest -> Int]
  PROVE  WindowInv'
<1>1. WindowTypes'
  BY DEF WindowInv, WindowTypes
<1>2. (inOrder' => PrunedForGood') /\ Grd!WindowWithinLimit'
  BY DEF WindowInv, PrunedForGood, After, Grd!WindowWithinLimit
<1>3. QED
  BY <1>1, <1>2 DEF WindowInv

\* The script of request r, which arrived at t; if it counts the request, what it keeps
\* is all that is in its window.
ScriptRan(r, t, stamp) ==
  /\ \/ Grd!Cardinality(Grd!Kept(t)) >= WindowLimit /\ stamps' = Grd!Kept(t) /\ Grd!Counted' = Grd!Counted
     \/ /\ ~(Grd!Cardinality(Grd!Kept(t)) >= WindowLimit)
        /\ stamps' = Grd!Kept(t) \cup {stamp} /\ Grd!Counted' = Grd!Counted \cup {stamp}
  /\ inOrder' = (inOrder /\ \A s \in stamps : s.at <= t)
  /\ arrived' = [arrived EXCEPT ![r] = -1] /\ now' = now

LEMMA ScriptKeepsWindow ==
  ASSUME Grd!GuardsAssumption, WindowInv, NEW r \in GuardRequest, ScriptRan(r, arrived[r], Grd!StampAt(arrived[r], TRUE)),
         admitted' \subseteq TimedStamp, Grd!IsFiniteSet(admitted')
  PROVE  WindowInv'
<1>0. PICK t : t = arrived[r]
  OBVIOUS
<1> DEFINE stamp == Grd!StampAt(t, TRUE)
<1>1. /\ \/ Grd!Cardinality(Grd!Kept(t)) >= WindowLimit /\ stamps' = Grd!Kept(t) /\ Grd!Counted' = Grd!Counted
         \/ /\ ~(Grd!Cardinality(Grd!Kept(t)) >= WindowLimit)
            /\ stamps' = Grd!Kept(t) \cup {stamp} /\ Grd!Counted' = Grd!Counted \cup {stamp}
      /\ inOrder' = (inOrder /\ \A s \in stamps : s.at <= t)
      /\ arrived' = [arrived EXCEPT ![r] = -1] /\ now' = now
  BY <1>0 DEF ScriptRan
<1>2. WindowTypes /\ (inOrder => PrunedForGood) /\ Grd!WindowWithinLimit
      /\ WindowSize \in Nat \ {0} /\ WindowLimit \in Nat \ {0} /\ WindowTime \in Nat
  BY DEF WindowInv, Grd!GuardsAssumption
<1>3. t \in Int /\ stamp \in TimedStamp /\ stamp.at = t
  <2>1. t \in Int
    BY <1>0, <1>2 DEF WindowTypes
  <2>2. QED
    BY <1>2, <2>1, LetThroughTyped
<1> HIDE DEF stamp
<1>4. \A s \in Grd!Counted : s.at \in Int
  BY <1>2 DEF WindowTypes, TimedStamp, Grd!Counted
<1>5. Grd!Kept(t) \subseteq stamps /\ stamps \subseteq Grd!Counted
      /\ \A s \in stamps : s \in Grd!Kept(t) <=> s.at > t - WindowSize
  BY <1>2 DEF Grd!Kept, WindowTypes
<1>6. WindowTypes'
  <2>1. stamps' \subseteq Grd!Counted'
    BY <1>1, <1>5
  <2>2. arrived' \in [GuardRequest -> Int] /\ inOrder' \in BOOLEAN /\ now' \in Nat
    BY <1>1, <1>2 DEF WindowTypes
  <2>3. QED
    BY <2>1, <2>2 DEF WindowTypes
<1>7. ASSUME inOrder' PROVE PrunedForGood' /\ Grd!WindowWithinLimit'
  <2>1. inOrder /\ PrunedForGood /\ \A s \in stamps : s.at <= t
    BY <1>1, <1>2, <1>7
  <2>2. Grd!Cardinality(Grd!Kept(t)) \in Nat /\ Grd!IsFiniteSet(Grd!Kept(t))
    BY <1>2, <1>5, StampsCounted DEF Grd!Counted
  <2>3. CASE Grd!Cardinality(Grd!Kept(t)) >= WindowLimit /\ stamps' = Grd!Kept(t) /\ Grd!Counted' = Grd!Counted
    \* The stamps kept are all after what is pruned now or goes by a stamp pruned now.
    <3>1. ASSUME NEW s \in Grd!Counted, s.at <= t - WindowSize
          PROVE  Grd!Cardinality(After(s.at)') >= WindowLimit
      <4>1. After(s.at)' = Grd!Kept(t)
        <5>1. s.at \in Int /\ \A u \in Grd!Kept(t) : u.at \in Int /\ u.at > t - WindowSize
          BY <1>4, <1>5
        <5>2. \A u \in Grd!Kept(t) : u.at > s.at
          BY <1>2, <1>3, <3>1, <5>1
        <5>3. stamps' = Grd!Kept(t)
          BY <2>3
        <5>4. QED
          BY <5>2, <5>3 DEF After
      <4>2. QED
        BY <2>3, <4>1
    <3>2. ASSUME NEW s \in Grd!Counted' \ stamps', ~(s.at <= t - WindowSize)
          PROVE  \/ \E u \in stamps' : u.at >= s.at + WindowSize
                 \/ Grd!Cardinality(After(s.at)') >= WindowLimit
      <4>1. s \in Grd!Counted \ stamps /\ s.at \in Int /\ s.at > t - WindowSize
        BY <1>2, <1>3, <1>4, <1>5, <2>3, <3>2
      <4>2. CASE \E u \in stamps : u.at >= s.at + WindowSize
        <5>1. PICK u \in stamps : u.at >= s.at + WindowSize
          BY <4>2
        <5>2. u.at \in Int /\ u.at > t
          BY <1>2, <1>3, <1>4, <1>5, <4>1, <5>1
        <5>3. QED
          BY <1>3, <2>1, <5>1, <5>2
      <4>3. CASE Grd!Cardinality(After(s.at)) >= WindowLimit
        <5>1. After(s.at)' = After(s.at)
          BY <1>2, <1>3, <1>4, <1>5, <2>3, <4>1 DEF After
        <5>2. QED
          BY <4>3, <5>1
      <4>4. QED
        BY <2>1, <4>1, <4>2, <4>3 DEF PrunedForGood
    <3>3. PrunedForGood'
      BY <2>3, <3>1, <3>2 DEF PrunedForGood
    <3>4. Grd!WindowWithinLimit'
      BY <1>2, <2>1, <2>3 DEF Grd!WindowWithinLimit
    <3>5. QED
      BY <3>3, <3>4
  <2>4. CASE /\ ~(Grd!Cardinality(Grd!Kept(t)) >= WindowLimit)
             /\ stamps' = Grd!Kept(t) \cup {stamp} /\ Grd!Counted' = Grd!Counted \cup {stamp}
    \* No stamp in the window was pruned before.
    <3>1. ASSUME NEW s \in Grd!Counted, s.at > t - WindowSize PROVE s \in Grd!Kept(t)
      <4>1. s.at \in Int
        BY <1>4
      <4>2. CASE s \in stamps
        BY <1>5, <3>1, <4>2
      <4>3. CASE s \notin stamps
        <5>1. CASE \E u \in stamps : u.at >= s.at + WindowSize
          <6>1. PICK u \in stamps : u.at >= s.at + WindowSize
            BY <5>1
          <6>2. u.at \in Int /\ u.at <= t
            BY <1>4, <1>5, <2>1
          <6>3. QED
            BY <1>2, <1>3, <3>1, <4>1, <6>1, <6>2
        <5>2. CASE Grd!Cardinality(After(s.at)) >= WindowLimit
          <6>1. After(s.at) \subseteq Grd!Kept(t)
            BY <1>2, <1>3, <1>4, <1>5, <3>1, <4>1 DEF After
          <6>2. Grd!Cardinality(After(s.at)) <= Grd!Cardinality(Grd!Kept(t)) /\ Grd!Cardinality(After(s.at)) \in Nat
            <7>1. Grd!Cardinality(After(s.at)) <= Grd!Cardinality(Grd!Kept(t))
              BY <2>2, <6>1, FS_Subset, GrdSizes
            <7>2. After(s.at) \subseteq admitted
              BY <1>5, <6>1 DEF Grd!Counted
            <7>3. QED
              BY <1>2, <7>1, <7>2, StampsCounted
          <6>3. QED
            BY <1>2, <2>2, <2>4, <5>2, <6>2
        <5>3. QED
          BY <2>1, <4>3, <5>1, <5>2 DEF PrunedForGood
      <4>4. QED
        BY <4>2, <4>3
    <3>2. stamp \in stamps'
      BY <2>4
    <3>3. ASSUME NEW s \in Grd!Counted' \ stamps' PROVE \E u \in stamps' : u.at >= s.at + WindowSize
      <4>1. s \in Grd!Counted /\ s \notin Grd!Kept(t) /\ s.at \in Int
        BY <1>4, <2>4, <3>3
      <4>2. ~(s.at > t - WindowSize)
        BY <3>1, <4>1
      <4>3. stamp.at >= s.at + WindowSize
        BY <1>2, <1>3, <4>1, <4>2
      <4>4. QED
        BY <3>2, <4>3
    <3>4. PrunedForGood'
      BY <3>3 DEF PrunedForGood
    <3>5. ASSUME NEW w \in 0..WindowTime
          PROVE  Grd!Cardinality({s \in Grd!Counted' : w - WindowSize < s.at /\ s.at <= w}) <= WindowLimit
      <4> DEFINE In(A) == {s \in A : w - WindowSize < s.at /\ s.at <= w}
      <4>0. w \in Int /\ Grd!IsFiniteSet(In(Grd!Counted')) /\ Grd!Cardinality(In(Grd!Counted')) \in Nat
        <5>1. Grd!IsFiniteSet(admitted') /\ In(Grd!Counted') \subseteq admitted'
          BY <1>6 DEF WindowTypes, Grd!Counted
        <5>2. Grd!IsFiniteSet(In(Grd!Counted'))
          BY <5>1, FS_Subset, GrdSizes
        <5>3. QED
          BY <1>2, <5>2, FS_CardinalityType, GrdSizes
      <4>1. CASE t <= w
        <5>1. In(Grd!Counted') \subseteq Grd!Kept(t) \cup {stamp}
          <6>1. ASSUME NEW s \in In(Grd!Counted'), s # stamp PROVE s \in Grd!Kept(t)
            <7>1. s \in Grd!Counted /\ s.at > w - WindowSize /\ s.at \in Int
              BY <1>4, <2>4, <4>0, <6>1
            <7>2. s.at > t - WindowSize
              BY <1>2, <1>3, <4>0, <4>1, <7>1
            <7>3. QED
              BY <3>1, <7>1, <7>2
          <6>2. QED
            BY <6>1
        <5> HIDE DEF In
        <5>2. Grd!IsFiniteSet(Grd!Kept(t) \cup {stamp}) /\ Grd!Cardinality(Grd!Kept(t) \cup {stamp}) <= Grd!Cardinality(Grd!Kept(t)) + 1
              /\ Grd!Cardinality(Grd!Kept(t) \cup {stamp}) \in Nat
          <6>1. CASE stamp \in Grd!Kept(t)
            <7>1. Grd!Kept(t) \cup {stamp} = Grd!Kept(t)
              BY <6>1
            <7>2. QED
              BY <2>2, <7>1
          <6>2. CASE stamp \notin Grd!Kept(t)
            <7>1. /\ Grd!IsFiniteSet(Grd!Kept(t) \cup {stamp})
                  /\ Grd!Cardinality(Grd!Kept(t) \cup {stamp}) = Grd!Cardinality(Grd!Kept(t)) + 1
              BY <2>2, <6>2, FS_AddElement, GrdSizes
            <7>2. QED
              BY <2>2, <7>1
          <6>3. QED
            BY <6>1, <6>2
        <5>3. Grd!Cardinality(In(Grd!Counted')) <= Grd!Cardinality(Grd!Kept(t) \cup {stamp})
          BY <5>1, <5>2, FS_Subset, GrdSizes
        <5>4. QED
          BY <1>2, <2>2, <2>4, <4>0, <5>2, <5>3 DEF In
      <4>2. CASE ~(t <= w)
        <5>1. In(Grd!Counted') = In(Grd!Counted)
          BY <1>3, <2>4, <4>2
        <5>2. QED
          BY <1>2, <2>1, <5>1 DEF Grd!WindowWithinLimit
      <4>3. QED
        BY <4>1, <4>2
    <3>6. QED
      BY <3>4, <3>5 DEF Grd!WindowWithinLimit
  <2>5. QED
    BY <1>1, <2>3, <2>4
<1>8. Grd!WindowWithinLimit' /\ (inOrder' => PrunedForGood')
  BY <1>7 DEF Grd!WindowWithinLimit
<1>9. QED
  BY <1>6, <1>8 DEF WindowInv

LEMMA RunScriptKeeps ==
  ASSUME Grd!GuardsAssumption, WindowInv, NEW r \in GuardRequest, Grd!RunScript(r)
  PROVE  WindowInv'
<1>0. PICK t, stamp : t = arrived[r] /\ stamp = Grd!StampAt(t, TRUE)
  OBVIOUS
<1>1. WindowTypes /\ t \in Int /\ WindowLimit \in Nat /\ Grd!Cardinality(Grd!Kept(t)) \in Nat
  <2>1. WindowTypes /\ WindowLimit \in Nat
    BY DEF WindowInv, Grd!GuardsAssumption
  <2>2. Grd!Kept(t) \subseteq admitted
    BY <2>1 DEF WindowTypes, Grd!Kept, Grd!Counted
  <2>3. QED
    BY <1>0, <2>1, <2>2, StampsCounted DEF WindowTypes
<1>2. arrived' = [arrived EXCEPT ![r] = -1] /\ now' = now
  BY DEF Grd!RunScript
<1>3. CASE Grd!LetThrough(t, FALSE) /\ UNCHANGED <<stamps, inOrder>>
  <2>1. admitted' \subseteq TimedStamp /\ Grd!IsFiniteSet(admitted') /\ Grd!Counted' = Grd!Counted
    BY <1>1, <1>3, LetThroughTyped
  <2>2. arrived' \in [GuardRequest -> Int] /\ now' \in Nat
    BY <1>1, <1>2 DEF WindowTypes
  <2>3. QED
    BY <1>3, <2>1, <2>2, WindowStays
<1>4. CASE /\ stamps' = Grd!Kept(t) \cup IF Grd!Cardinality(Grd!Kept(t)) < WindowLimit THEN {stamp} ELSE {}
           /\ inOrder' = (inOrder /\ \A s \in stamps : s.at <= t)
           /\ \/ Grd!Cardinality(Grd!Kept(t)) < WindowLimit /\ Grd!LetThrough(t, TRUE)
              \/ ~(Grd!Cardinality(Grd!Kept(t)) < WindowLimit) /\ Grd!LetThrough(t, FALSE)
              \/ ~(Grd!Cardinality(Grd!Kept(t)) < WindowLimit) /\ admitted' = admitted
  <2>1. CASE Grd!Cardinality(Grd!Kept(t)) < WindowLimit
    <3>1. stamps' = Grd!Kept(t) \cup {stamp} /\ Grd!LetThrough(t, TRUE)
      BY <1>4, <2>1
    <3>2. /\ admitted' \subseteq TimedStamp /\ Grd!IsFiniteSet(admitted')
          /\ Grd!Counted' = Grd!Counted \cup {stamp}
      BY <1>0, <1>1, <3>1, LetThroughTyped
    <3>3. ~(Grd!Cardinality(Grd!Kept(t)) >= WindowLimit)
      BY <1>1, <2>1
    <3>4. QED
      BY <1>0, <1>2, <1>4, <3>1, <3>2, <3>3, ScriptKeepsWindow DEF ScriptRan
  <2>2. CASE ~(Grd!Cardinality(Grd!Kept(t)) < WindowLimit)
    <3>1. stamps' = Grd!Kept(t) /\ (Grd!LetThrough(t, FALSE) \/ admitted' = admitted)
      BY <1>4, <2>2
    <3>2. admitted' \subseteq TimedStamp /\ Grd!IsFiniteSet(admitted') /\ Grd!Counted' = Grd!Counted
      <4>1. CASE Grd!LetThrough(t, FALSE)
        BY <1>1, <4>1, LetThroughTyped
      <4>2. CASE admitted' = admitted
        BY <1>1, <4>2 DEF WindowTypes, Grd!Counted
      <4>3. QED
        BY <3>1, <4>1, <4>2
    <3>3. Grd!Cardinality(Grd!Kept(t)) >= WindowLimit
      BY <1>1, <2>2
    <3>4. QED
      BY <1>0, <1>2, <1>4, <3>1, <3>2, <3>3, ScriptKeepsWindow DEF ScriptRan
  <2>3. QED
    BY <2>1, <2>2
<1>5. QED
  BY Zenon, <1>0, <1>3, <1>4 DEF Grd!RunScript

LEMMA WindowStep ==
  ASSUME Grd!GuardsAssumption, WindowInv, Grd!WindowNext \/ UNCHANGED windowVars
  PROVE  WindowInv'
<1>1. CASE \E r \in GuardRequest : Grd!RunScript(r)
  BY <1>1, RunScriptKeeps
<1>2. CASE Grd!Tick \/ (\E r \in GuardRequest : Grd!Arrive(r)) \/ UNCHANGED windowVars
  <2>1. /\ UNCHANGED <<stamps, inOrder>>
        /\ now' = now \/ now' = now + 1
        /\ arrived' = arrived \/ \E r \in GuardRequest : arrived' = [arrived EXCEPT ![r] = now]
        /\ admitted' = admitted \/ Grd!LetThrough(now, FALSE)
    BY <1>2 DEF Grd!Tick, Grd!Arrive, windowVars
  <2>2. WindowTypes
    BY DEF WindowInv
  <2>3. now' \in Nat /\ arrived' \in [GuardRequest -> Int]
    BY <2>1, <2>2 DEF WindowTypes
  <2>4. admitted' \subseteq TimedStamp /\ Grd!IsFiniteSet(admitted') /\ Grd!Counted' = Grd!Counted
    <3>1. CASE Grd!LetThrough(now, FALSE)
      <4>1. now \in Int
        BY <2>2 DEF WindowTypes
      <4>2. QED
        BY <2>2, <3>1, <4>1, LetThroughTyped
    <3>2. CASE admitted' = admitted
      BY <2>2, <3>2 DEF WindowTypes, Grd!Counted
    <3>3. QED
      BY <2>1, <3>1, <3>2
  <2>5. QED
    BY <2>1, <2>3, <2>4, WindowStays
<1>3. QED
  BY <1>1, <1>2 DEF Grd!WindowNext

----
(* Cached balance *)

\* The types of the cache, ...
CachedEntry == [account : Bal!Account, balance : Nat, left : Nat \ {0}, excused : BOOLEAN]
ReaderState == [step : {"none", "look", "ask", "fill"}, account : Bal!Account \cup {"none"},
                balance : Int, excused : BOOLEAN]
WriterState == [step : {"none", "delete"}, account : Bal!Account \cup {"none"}]
CacheTypes ==
  /\ cache_balance \in [Bal!Account -> Nat] /\ stellar_public_key \in Bal!Account
  /\ entry \in CachedEntry \cup {Bal!NoEntry}
  /\ reading \in [CacheReader -> ReaderState] /\ writing \in [CacheWriter -> WriterState]
  /\ \A r \in CacheReader : reading[r].step # "none" => reading[r].account \in Bal!Account
  /\ \A r \in CacheReader : reading[r].step = "fill" => reading[r].balance \in Nat
  /\ \A w \in CacheWriter : writing[w].step = "delete" => writing[w].account \in Bal!Account

\* ... and the inductive invariant: what is cached, and what is about to be, is excused,
\* is current, or will be deleted by the writer that changed the balance.
EntryCurrent ==
  entry \in CachedEntry =>
    entry.excused \/ ~(entry.balance < cache_balance[entry.account]) \/ Bal!Awaited(entry.account)
ReaderCurrent(r) ==
  reading[r].step = "fill" =>
    \/ reading[r].excused \/ ~(reading[r].balance < cache_balance[reading[r].account])
    \/ Bal!Awaited(reading[r].account)

CacheInv == CacheTypes /\ EntryCurrent /\ (\A r \in CacheReader : ReaderCurrent(r)) /\ ~stale

LEMMA EntryForm ==
  /\ Bal!NoEntry \notin CachedEntry /\ Bal!NoEntry.account = "none" /\ "none" \notin Bal!Account
  /\ Bal!Quiet \in ReaderState /\ Bal!Quiet.step = "none"
BY DEF Bal!NoEntry, CachedEntry, Bal!Account, Bal!Quiet, ReaderState

LEMMA CacheInit == ASSUME Bal!BalanceCacheAssumption, Bal!Init PROVE CacheInv
<1>1. /\ cache_balance = [x \in Bal!Account |-> 0] /\ stellar_public_key \in Bal!Account /\ entry = Bal!NoEntry
      /\ reading = [r \in CacheReader |-> Bal!Quiet]
      /\ writing = [w \in CacheWriter |-> [step |-> "none", account |-> "none"]]
  BY DEF Bal!Init
<1>2. stale = FALSE
  BY DEF Bal!Init
<1>3. \A r \in CacheReader : reading[r] = Bal!Quiet
  BY <1>1
<1>4. \A w \in CacheWriter : writing[w].step = "none" /\ writing[w] \in WriterState
  BY <1>1 DEF WriterState
<1>5. CacheTypes
  BY <1>1, <1>3, <1>4, EntryForm DEF CacheTypes
<1>6. EntryCurrent
  BY <1>1, EntryForm DEF EntryCurrent
<1>7. \A r \in CacheReader : ReaderCurrent(r)
  BY <1>3, EntryForm DEF ReaderCurrent
<1>8. QED
  BY <1>2, <1>5, <1>6, <1>7 DEF CacheInv

\* Steps of a reader that change nothing but the reader.
LEMMA ReaderMoves ==
  ASSUME CacheInv, NEW r \in CacheReader, NEW x \in ReaderState,
         reading' = [reading EXCEPT ![r] = x], UNCHANGED <<cache_balance, stellar_public_key, writing>>,
         entry' \in CachedEntry \cup {Bal!NoEntry}, EntryCurrent', ~stale',
         x.step # "none" => x.account \in Bal!Account, x.step = "fill" => x.balance \in Nat,
         x.step = "fill" => x.excused \/ ~(x.balance < cache_balance[x.account])
  PROVE  CacheInv'
<1>1. CacheTypes /\ \A q \in CacheReader : ReaderCurrent(q)
  BY DEF CacheInv
<1>2. /\ reading' \in [CacheReader -> ReaderState] /\ reading'[r] = x
      /\ \A q \in CacheReader \ {r} : reading'[q] = reading[q]
  BY <1>1 DEF CacheTypes
<1>3. CacheTypes'
  BY <1>1, <1>2 DEF CacheTypes
<1>4. \A holder : Bal!Awaited(holder)' <=> Bal!Awaited(holder)
  BY DEF Bal!Awaited, Bal!WriteAt
<1>5. ASSUME NEW q \in CacheReader PROVE ReaderCurrent(q)'
  <2>1. CASE q = r
    BY <1>2, <2>1 DEF ReaderCurrent
  <2>2. CASE q # r
    <3>1. reading'[q] = reading[q] /\ ReaderCurrent(q)
      BY <1>1, <1>2, <2>2
    <3>2. PICK holder : holder = reading[q].account
      OBVIOUS
    <3>3. Bal!Awaited(holder)' <=> Bal!Awaited(holder)
      BY <1>4
    <3>4. QED
      BY <3>1, <3>2, <3>3 DEF ReaderCurrent, Bal!Awaited, Bal!WriteAt
  <2>3. QED
    BY <2>1, <2>2
<1>6. QED
  BY <1>3, <1>5 DEF CacheInv

LEMMA EntryStays ==
  ASSUME CacheInv, UNCHANGED <<cache_balance, writing, entry>>
  PROVE  EntryCurrent' /\ entry' \in CachedEntry \cup {Bal!NoEntry}
<1>1. EntryCurrent /\ entry \in CachedEntry \cup {Bal!NoEntry}
  BY DEF CacheInv, CacheTypes
<1>2. QED
  BY <1>1 DEF EntryCurrent, Bal!Awaited, Bal!WriteAt

LEMMA ReadUserKeeps ==
  ASSUME CacheInv, NEW r \in CacheReader, Bal!ReadUser(r) PROVE CacheInv'
<1> DEFINE x == [step |-> "look", account |-> stellar_public_key, balance |-> -1, excused |-> FALSE]
<1>1. reading' = [reading EXCEPT ![r] = x] /\ UNCHANGED <<cache_balance, stellar_public_key, entry, writing, stale>>
  BY DEF Bal!ReadUser
<1>2. stellar_public_key \in Bal!Account /\ ~stale
  BY DEF CacheInv, CacheTypes
<1>3. x \in ReaderState /\ x.step = "look" /\ x.account \in Bal!Account
  BY <1>2 DEF ReaderState
<1> HIDE DEF x
<1>4. EntryCurrent' /\ entry' \in CachedEntry \cup {Bal!NoEntry} /\ ~stale'
  BY <1>1, <1>2, EntryStays
<1>5. QED
  BY <1>1, <1>3, <1>4, ReaderMoves

LEMMA LookUpKeeps ==
  ASSUME CacheInv, NEW r \in CacheReader, Bal!LookUp(r) PROVE CacheInv'
<1>1. /\ reading[r].step = "look" /\ UNCHANGED <<cache_balance, stellar_public_key, entry, writing>>
      /\ \/ reading' = [reading EXCEPT ![r] = Bal!Quiet]
         \/ reading' = [reading EXCEPT ![r].step = "ask"]
  BY Zenon DEF Bal!LookUp, Bal!ReadAt
<1>2. CacheTypes /\ EntryCurrent /\ ~stale
  BY DEF CacheInv
<1>3. \/ stale' = stale
      \/ entry # Bal!NoEntry /\ (stale' <=> stale \/ (~entry.excused /\ entry.balance < cache_balance[entry.account]
                                                      /\ ~Bal!Awaited(entry.account)))
  BY Zenon DEF Bal!LookUp
<1>4. entry # Bal!NoEntry => entry \in CachedEntry
  BY <1>2 DEF CacheTypes
<1>5. ~stale'
  BY <1>2, <1>3, <1>4 DEF EntryCurrent
<1>6. EntryCurrent' /\ entry' \in CachedEntry \cup {Bal!NoEntry}
  BY <1>1, EntryStays
<1>7. CASE reading' = [reading EXCEPT ![r] = Bal!Quiet]
  BY <1>1, <1>5, <1>6, <1>7, EntryForm, ReaderMoves
<1>8. CASE reading' = [reading EXCEPT ![r].step = "ask"]
  <2>1. PICK o \in ReaderState : o = reading[r]
    BY <1>2 DEF CacheTypes
  <2> DEFINE x == [o EXCEPT !.step = "ask"]
  <2>2. x \in ReaderState /\ x.step = "ask" /\ x.account = o.account
    BY DEF ReaderState
  <2>3. reading' = [reading EXCEPT ![r] = x]
    BY <1>8, <2>1
  <2> HIDE DEF x
  <2>4. x.account \in Bal!Account
    BY <1>1, <1>2, <2>1, <2>2 DEF CacheTypes
  <2>5. QED
    BY <1>1, <1>5, <1>6, <2>2, <2>3, <2>4, ReaderMoves
<1>9. QED
  BY <1>1, <1>7, <1>8

LEMMA AskKeeps ==
  ASSUME CacheInv, NEW r \in CacheReader, Bal!Ask(r) PROVE CacheInv'
<1>0. PICK a, b : a = reading[r].account /\ b = cache_balance[a]
  OBVIOUS
<1>1. reading[r].step = "ask" /\ UNCHANGED <<cache_balance, stellar_public_key, entry, writing, stale>>
  BY DEF Bal!Ask, Bal!ReadAt
<1>2. a \in Bal!Account /\ b \in Nat /\ ~stale
  BY <1>0, <1>1 DEF CacheInv, CacheTypes
<1>3. EntryCurrent' /\ entry' \in CachedEntry \cup {Bal!NoEntry} /\ ~stale'
  BY <1>1, <1>2, EntryStays
<1>4. ASSUME NEW value \in Nat, NEW ex \in BOOLEAN, ex \/ ~(value < b),
             reading' = [reading EXCEPT ![r] = Bal!Answer(r, value, ex)]
      PROVE  CacheInv'
  <2> DEFINE x == Bal!Answer(r, value, ex)
  <2>1. /\ x \in ReaderState /\ x.step = "fill" /\ x.account = a /\ x.balance = value
        /\ x.excused = ex
    BY <1>0, <1>2 DEF ReaderState, Bal!Answer
  <2> HIDE DEF x
  <2>2. x.excused \/ ~(x.balance < cache_balance[x.account])
    BY <1>0, <1>4, <2>1
  <2>3. reading' = [reading EXCEPT ![r] = x]
    BY <1>4 DEF x
  <2>4. QED
    BY <1>1, <1>2, <1>3, <2>1, <2>2, <2>3, ReaderMoves
<1>5. CASE reading' = [reading EXCEPT ![r] = Bal!Quiet]
  BY <1>1, <1>3, <1>5, EntryForm, ReaderMoves
<1>6. CASE reading' = [reading EXCEPT ![r] = Bal!Answer(r, b, FALSE)]
  <2>1. ~(b < b) /\ FALSE \in BOOLEAN
    BY <1>2
  <2>2. QED
    BY Zenon, <1>2, <1>4, <1>6, <2>1
<1>7. CASE reading' = [reading EXCEPT ![r] = Bal!Answer(r, 0, TRUE)]
  <2>1. 0 \in Nat /\ TRUE \in BOOLEAN
    OBVIOUS
  <2>2. QED
    BY Zenon, <1>4, <1>7, <2>1
<1>8. \/ reading' = [reading EXCEPT ![r] = Bal!Answer(r, b, FALSE)]
      \/ reading' = [reading EXCEPT ![r] = Bal!Quiet]
      \/ reading' = [reading EXCEPT ![r] = Bal!Answer(r, 0, TRUE)]
  BY Zenon, <1>0 DEF Bal!Ask
<1>9. QED
  BY Zenon, <1>5, <1>6, <1>7, <1>8

LEMMA FillKeeps ==
  ASSUME Bal!BalanceCacheAssumption, CacheInv, NEW r \in CacheReader, Bal!Fill(r) PROVE CacheInv'
<1>0. PICK o : o = reading[r]
  OBVIOUS
<1> DEFINE e == [account |-> o.account, balance |-> o.balance, left |-> CacheTtl, excused |-> o.excused]
<1>1. /\ o.step = "fill" /\ reading' = [reading EXCEPT ![r] = Bal!Quiet]
      /\ UNCHANGED <<cache_balance, stellar_public_key, writing, stale>>
      /\ entry' = e \/ entry' = entry
  BY <1>0 DEF Bal!Fill, Bal!ReadAt
<1>2. CacheTypes /\ ReaderCurrent(r) /\ ~stale
  BY DEF CacheInv
<1>3. o \in ReaderState /\ o.account \in Bal!Account /\ o.balance \in Nat
  BY <1>0, <1>1, <1>2 DEF CacheTypes
<1>4. e \in CachedEntry /\ e.account = o.account /\ e.balance = o.balance /\ e.excused = o.excused
  BY <1>3 DEF CachedEntry, ReaderState, Bal!BalanceCacheAssumption
<1> HIDE DEF e
<1>5. CASE entry' = e
  <2>1. \/ o.excused \/ ~(o.balance < cache_balance[o.account]) \/ Bal!Awaited(o.account)
    BY <1>0, <1>1, <1>2 DEF ReaderCurrent
  <2>2. Bal!Awaited(o.account) => Bal!Awaited(o.account)'
    BY <1>1 DEF Bal!Awaited, Bal!WriteAt
  <2>3. EntryCurrent'
    <3>1. cache_balance' = cache_balance /\ entry' = e
      BY <1>1, <1>5
    <3>2. PICK ac : ac = o.account
      OBVIOUS
    <3>3. e.excused \/ ~(e.balance < cache_balance'[ac]) \/ Bal!Awaited(ac)'
      BY <1>4, <2>1, <2>2, <3>1, <3>2
    <3>4. entry'.account = ac
      BY <1>4, <3>1, <3>2
    <3>5. QED
      BY <3>1, <3>3, <3>4 DEF EntryCurrent, Bal!Awaited, Bal!WriteAt
  <2>4. QED
    BY <1>1, <1>2, <1>4, <1>5, <2>3, EntryForm, ReaderMoves
<1>6. CASE entry' = entry
  <2>1. EntryCurrent' /\ entry' \in CachedEntry \cup {Bal!NoEntry}
    BY <1>1, <1>6, EntryStays
  <2>2. QED
    BY <1>1, <1>2, <2>1, EntryForm, ReaderMoves
<1>7. QED
  BY <1>1, <1>5, <1>6

\* An entry's time goes by.
LEMMA TickKeeps ==
  ASSUME CacheInv, Bal!Tick PROVE CacheInv'
<1>1. /\ entry # Bal!NoEntry /\ UNCHANGED <<cache_balance, stellar_public_key, reading, writing, stale>>
      /\ entry' = IF entry.left = 1 THEN Bal!NoEntry ELSE [entry EXCEPT !.left = entry.left - 1]
  BY DEF Bal!Tick
<1>2. CacheTypes /\ EntryCurrent /\ (\A r \in CacheReader : ReaderCurrent(r)) /\ ~stale
  BY DEF CacheInv
<1>3. entry \in CachedEntry
  BY <1>1, <1>2 DEF CacheTypes
<1>4. \A holder : Bal!Awaited(holder)' <=> Bal!Awaited(holder)
  BY <1>1 DEF Bal!Awaited, Bal!WriteAt
<1>5. \/ entry' = Bal!NoEntry
      \/ /\ entry' \in CachedEntry /\ entry'.account = entry.account
         /\ entry'.balance = entry.balance /\ entry'.excused = entry.excused
  BY <1>1, <1>3 DEF CachedEntry
<1>6. CacheTypes'
  BY <1>1, <1>2, <1>5 DEF CacheTypes
<1>7. EntryCurrent'
  <2>1. CASE entry' = Bal!NoEntry
    BY <2>1, EntryForm DEF EntryCurrent
  <2>2. CASE /\ entry' \in CachedEntry /\ entry'.account = entry.account
             /\ entry'.balance = entry.balance /\ entry'.excused = entry.excused
    <3>1. entry.excused \/ ~(entry.balance < cache_balance[entry.account]) \/ Bal!Awaited(entry.account)
      BY <1>2, <1>3 DEF EntryCurrent
    <3>2. QED
      BY <1>1, <2>2, <3>1 DEF EntryCurrent, Bal!Awaited, Bal!WriteAt
  <2>3. QED
    BY <1>5, <2>1, <2>2
<1>8. ASSUME NEW r \in CacheReader PROVE ReaderCurrent(r)'
  BY <1>1, <1>2 DEF ReaderCurrent, Bal!Awaited, Bal!WriteAt
<1>9. QED
  BY <1>1, <1>2, <1>6, <1>7, <1>8 DEF CacheInv

LEMMA RelinkKeeps ==
  ASSUME CacheInv, Bal!Relink \/ UNCHANGED cacheVars PROVE CacheInv'
<1>1. UNCHANGED <<cache_balance, entry, reading, writing, stale>> /\ stellar_public_key' \in Bal!Account
  BY DEF Bal!Relink, cacheVars, CacheInv, CacheTypes
<1>2. QED
  BY <1>1 DEF CacheInv, CacheTypes, EntryCurrent, ReaderCurrent, Bal!Awaited, Bal!WriteAt

\* The cached entry, and the readers, are what they were but for an excuse; what is
\* about this account is excused or awaited.
EntryGoesOn(holder) ==
  /\ entry' \in CachedEntry \cup {Bal!NoEntry}
  /\ entry' \in CachedEntry =>
       /\ entry \in CachedEntry /\ entry'.account = entry.account
       /\ entry'.balance = entry.balance /\ (entry.excused => entry'.excused)
       /\ (entry.account = holder => entry'.excused \/ Bal!Awaited(holder)')
ReadersGoOn(holder) ==
  /\ reading' \in [CacheReader -> ReaderState]
  /\ \A r \in CacheReader :
       /\ reading'[r].step = reading[r].step /\ reading'[r].account = reading[r].account
       /\ reading'[r].balance = reading[r].balance
       /\ reading[r].excused => reading'[r].excused
       /\ reading[r].step = "fill" /\ reading[r].account = holder => reading'[r].excused \/ Bal!Awaited(holder)'

\* Readers that are late are excused, the others go on.
LEMMA ReadersExcused ==
  ASSUME CacheInv, NEW holder \in Bal!Account, Bal!ExcuseReaders(holder)
  PROVE  ReadersGoOn(holder)
<1>1. reading \in [CacheReader -> ReaderState]
  BY DEF CacheInv, CacheTypes
<1>2. reading' = [r \in CacheReader |->
        IF reading[r].step = "fill" /\ reading[r].account = holder
        THEN [reading[r] EXCEPT !.excused = TRUE] ELSE reading[r]]
  BY DEF Bal!ExcuseReaders, Bal!Late, Bal!ReadAt
<1>3. ASSUME NEW r \in CacheReader
      PROVE  /\ reading'[r] \in ReaderState
             /\ reading'[r].step = reading[r].step /\ reading'[r].account = reading[r].account
             /\ reading'[r].balance = reading[r].balance
             /\ reading[r].excused => reading'[r].excused
             /\ reading[r].step = "fill" /\ reading[r].account = holder => reading'[r].excused
  <2>1. PICK o \in ReaderState : o = reading[r]
    BY <1>1
  <2>2. CASE o.step = "fill" /\ o.account = holder
    <3>1. reading'[r] = [o EXCEPT !.excused = TRUE]
      BY <1>2, <2>1, <2>2
    <3>2. LET q == [o EXCEPT !.excused = TRUE]
          IN  /\ q \in ReaderState /\ q.step = o.step /\ q.account = o.account
              /\ q.balance = o.balance /\ q.excused = TRUE
      BY DEF ReaderState
    <3>3. QED
      BY <2>1, <3>1, <3>2
  <2>3. CASE ~(o.step = "fill" /\ o.account = holder)
    <3>1. reading'[r] = o
      BY <1>2, <2>1, <2>3
    <3>2. QED
      BY <2>1, <2>3, <3>1
  <2>4. QED
    BY <2>2, <2>3
<1>4. reading' \in [CacheReader -> ReaderState]
  BY <1>2, <1>3
<1>5. QED
  BY <1>3, <1>4 DEF ReadersGoOn

LEMMA EntryExcused ==
  ASSUME CacheInv, NEW holder \in Bal!Account,
         entry' = IF entry.account = holder THEN [entry EXCEPT !.excused = TRUE] ELSE entry
  PROVE  EntryGoesOn(holder)
<1> USE DEF EntryGoesOn
<1>1. entry \in CachedEntry \cup {Bal!NoEntry}
  BY DEF CacheInv, CacheTypes
<1>2. CASE entry = Bal!NoEntry
  BY <1>2, EntryForm
<1>3. CASE entry \in CachedEntry /\ entry.account = holder
  <2>1. PICK o \in CachedEntry : o = entry
    BY <1>3
  <2>2. LET q == [o EXCEPT !.excused = TRUE]
        IN  /\ q \in CachedEntry /\ q.account = o.account /\ q.balance = o.balance
            /\ q.excused = TRUE
    BY DEF CachedEntry
  <2>3. entry' = [o EXCEPT !.excused = TRUE]
    BY <1>3, <2>1
  <2>4. QED
    BY <1>3, <2>1, <2>2, <2>3
<1>4. CASE entry \in CachedEntry /\ entry.account # holder
  <2>1. entry' = entry
    BY <1>4
  <2>2. QED
    BY <1>4, <2>1
<1>5. QED
  BY <1>1, <1>2, <1>3, <1>4

\* Whatever happens to one account: what is about another one is as it was, what is
\* about this one is excused or awaited.
LEMMA AccountExcused ==
  ASSUME CacheInv, NEW holder \in Bal!Account,
         cache_balance' \in [Bal!Account -> Nat], \A x \in Bal!Account \ {holder} : cache_balance'[x] = cache_balance[x],
         stellar_public_key' = stellar_public_key, stale' = stale,
         writing' \in [CacheWriter -> WriterState],
         \A w \in CacheWriter : writing'[w].step = "delete" => writing'[w].account \in Bal!Account,
         \A x \in Bal!Account \ {holder} : Bal!Awaited(x) => Bal!Awaited(x)',
         EntryGoesOn(holder), ReadersGoOn(holder)
  PROVE  CacheInv'
<1> USE DEF EntryGoesOn, ReadersGoOn
<1>1. CacheTypes /\ EntryCurrent /\ (\A r \in CacheReader : ReaderCurrent(r)) /\ ~stale
  BY DEF CacheInv
<1>2. CacheTypes'
  BY <1>1 DEF CacheTypes
<1>3. EntryCurrent'
  <2> SUFFICES ASSUME entry' \in CachedEntry, NEW ac, ac = entry'.account
               PROVE  entry'.excused \/ ~(entry'.balance < cache_balance'[ac]) \/ Bal!Awaited(ac)'
    BY DEF EntryCurrent, Bal!Awaited, Bal!WriteAt
  <2>1. entry \in CachedEntry /\ ac = entry.account /\ entry'.balance = entry.balance
        /\ (entry.excused => entry'.excused) /\ ac \in Bal!Account
    BY DEF CachedEntry
  <2>2. entry.excused \/ ~(entry.balance < cache_balance[ac]) \/ Bal!Awaited(ac)
    BY <1>1, <2>1 DEF EntryCurrent
  <2>3. CASE ac = holder
    BY <2>1, <2>3
  <2>4. CASE ac # holder
    BY <2>1, <2>2, <2>4
  <2>5. QED
    BY <2>3, <2>4
<1>4. ASSUME NEW r \in CacheReader PROVE ReaderCurrent(r)'
  <2> SUFFICES ASSUME reading'[r].step = "fill", NEW ac, ac = reading'[r].account
               PROVE  reading'[r].excused \/ ~(reading'[r].balance < cache_balance'[ac]) \/ Bal!Awaited(ac)'
    BY DEF ReaderCurrent, Bal!Awaited, Bal!WriteAt
  <2>1. reading[r].step = "fill" /\ ac = reading[r].account /\ reading'[r].balance = reading[r].balance
        /\ (reading[r].excused => reading'[r].excused)
    OBVIOUS
  <2>2. ac \in Bal!Account /\ (reading[r].excused \/ ~(reading[r].balance < cache_balance[ac]) \/ Bal!Awaited(ac))
    BY <1>1, <2>1 DEF ReaderCurrent, CacheTypes
  <2>3. CASE ac = holder
    BY <2>1, <2>3
  <2>4. CASE ac # holder
    BY <2>1, <2>2, <2>4
  <2>5. QED
    BY <2>3, <2>4
<1>5. QED
  BY <1>1, <1>2, <1>3, <1>4 DEF CacheInv

LEMMA AwardKeeps ==
  ASSUME CacheInv, NEW holder \in Bal!Account, Bal!AwardPoints(holder) PROVE CacheInv'
<1>1. /\ cache_balance' = [cache_balance EXCEPT ![holder] = cache_balance[holder] + 1]
      /\ entry' = (IF entry.account = holder THEN [entry EXCEPT !.excused = TRUE] ELSE entry)
      /\ Bal!ExcuseReaders(holder) /\ UNCHANGED <<stellar_public_key, writing, stale>>
  BY DEF Bal!AwardPoints, Bal!Excuse
<1>2. CacheTypes
  BY DEF CacheInv
<1>3. cache_balance' \in [Bal!Account -> Nat] /\ \A x \in Bal!Account \ {holder} : cache_balance'[x] = cache_balance[x]
  BY <1>1, <1>2 DEF CacheTypes
<1>4. writing' \in [CacheWriter -> WriterState]
      /\ \A w \in CacheWriter : writing'[w].step = "delete" => writing'[w].account \in Bal!Account
  BY <1>1, <1>2 DEF CacheTypes
<1>5. \A x \in Bal!Account \ {holder} : Bal!Awaited(x) => Bal!Awaited(x)'
  BY <1>1 DEF Bal!Awaited, Bal!WriteAt
<1>6. EntryGoesOn(holder)
  BY <1>1, EntryExcused
<1>7. stale' = stale /\ stellar_public_key' = stellar_public_key /\ Bal!ExcuseReaders(holder)
  BY <1>1
<1>8. QED
  BY <1>3, <1>4, <1>5, <1>6, <1>7, ReadersExcused, AccountExcused

LEMMA TransferKeeps ==
  ASSUME CacheInv, NEW w \in CacheWriter, NEW holder \in Bal!Account, Bal!Transfer(w, holder) PROVE CacheInv'
<1> DEFINE x == [step |-> "delete", account |-> holder]
<1>1. /\ writing[w].step = "none" /\ cache_balance' = [cache_balance EXCEPT ![holder] = cache_balance[holder] + 1]
      /\ writing' = [writing EXCEPT ![w] = x]
      /\ UNCHANGED <<stellar_public_key, entry, reading, stale>>
  BY DEF Bal!Transfer, Bal!WriteAt
<1>2. CacheTypes
  BY DEF CacheInv
<1>3. cache_balance' \in [Bal!Account -> Nat] /\ \A y \in Bal!Account \ {holder} : cache_balance'[y] = cache_balance[y]
  BY <1>1, <1>2 DEF CacheTypes
<1>4. x \in WriterState /\ x.step = "delete" /\ x.account = holder
  BY DEF WriterState
<1> HIDE DEF x
<1>5. /\ writing' \in [CacheWriter -> WriterState] /\ writing'[w] = x
      /\ \A v \in CacheWriter \ {w} : writing'[v] = writing[v]
  BY <1>1, <1>2, <1>4 DEF CacheTypes
<1>6. \A v \in CacheWriter : writing'[v].step = "delete" => writing'[v].account \in Bal!Account
  BY <1>2, <1>4, <1>5 DEF CacheTypes
<1>7. Bal!Awaited(holder)'
  BY <1>4, <1>5 DEF Bal!Awaited, Bal!WriteAt
<1>8. \A y \in Bal!Account \ {holder} : Bal!Awaited(y) => Bal!Awaited(y)'
  BY <1>1, <1>5 DEF Bal!Awaited, Bal!WriteAt
<1>9. EntryGoesOn(holder) /\ ReadersGoOn(holder)
  BY <1>1, <1>2, <1>7 DEF CacheTypes, EntryGoesOn, ReadersGoOn
<1>10. QED
  BY <1>1, <1>3, <1>5, <1>6, <1>8, <1>9, AccountExcused

LEMMA DeleteKeeps ==
  ASSUME CacheInv, NEW w \in CacheWriter, Bal!DeleteEntry(w) PROVE CacheInv'
<1>0. PICK holder : holder = writing[w].account
  OBVIOUS
<1> DEFINE x == [step |-> "none", account |-> "none"]
<1>1. /\ writing[w].step = "delete" /\ writing' = [writing EXCEPT ![w] = x]
      /\ Bal!ExcuseReaders(holder)
      /\ \/ entry' = Bal!NoEntry
         \/ entry' = IF entry.account = holder THEN [entry EXCEPT !.excused = TRUE] ELSE entry
      /\ UNCHANGED <<cache_balance, stellar_public_key, stale>>
  BY <1>0 DEF Bal!DeleteEntry, Bal!WriteAt, Bal!Excuse
<1>2. CacheTypes
  BY DEF CacheInv
<1>3. holder \in Bal!Account
  BY <1>0, <1>1, <1>2 DEF CacheTypes
<1>4. x \in WriterState /\ x.step = "none"
  BY DEF WriterState
<1> HIDE DEF x
<1>5. /\ writing' \in [CacheWriter -> WriterState] /\ writing'[w] = x
      /\ \A v \in CacheWriter \ {w} : writing'[v] = writing[v]
  BY <1>1, <1>2, <1>4 DEF CacheTypes
<1>6. \A v \in CacheWriter : writing'[v].step = "delete" => writing'[v].account \in Bal!Account
  BY <1>2, <1>4, <1>5 DEF CacheTypes
<1>7. \A y \in Bal!Account \ {holder} : Bal!Awaited(y) => Bal!Awaited(y)'
  BY <1>0, <1>5 DEF Bal!Awaited, Bal!WriteAt
<1>8. EntryGoesOn(holder)
  <2>1. CASE entry' = Bal!NoEntry
    BY <2>1, EntryForm DEF EntryGoesOn
  <2>2. CASE entry' = IF entry.account = holder THEN [entry EXCEPT !.excused = TRUE] ELSE entry
    BY <1>3, <2>2, EntryExcused
  <2>3. QED
    BY <1>1, <2>1, <2>2
<1>9. cache_balance' \in [Bal!Account -> Nat] /\ \A y \in Bal!Account \ {holder} : cache_balance'[y] = cache_balance[y]
  BY <1>1, <1>2 DEF CacheTypes
<1>10. QED
  BY <1>1, <1>3, <1>5, <1>6, <1>7, <1>8, <1>9, ReadersExcused, AccountExcused

LEMMA CacheStep ==
  ASSUME Bal!BalanceCacheAssumption, CacheInv, Bal!Next \/ UNCHANGED cacheVars
  PROVE  CacheInv'
BY TickKeeps, RelinkKeeps, AwardKeeps, TransferKeeps, DeleteKeeps, ReadUserKeeps, LookUpKeeps,
   AskKeeps, FillKeeps DEF Bal!Next

----
(* Migrations *)

LEMMA MigSizes ==
  /\ \A S : Mig!IsFiniteSet(S) <=> IsFiniteSet(S)
  /\ \A S : Mig!Cardinality(S) = Cardinality(S)
BY Zenon DEF Mig!IsFiniteSet, Mig!Cardinality, IsFiniteSet, Cardinality

\* While runs do not overlap and each applies one migration, what is applied is what comes
\* first, in the order of the dates, ...
Before(m) == {n \in Mig!Migration : n < m}
InOrder ==
  \A m \in Mig!Applied :
    /\ schema_migrations[m] <= migration_time /\ Before(m) \subseteq Mig!Applied
    /\ \A n \in Before(m) : schema_migrations[n] < schema_migrations[m]

\* ... and a run applies what comes next, or rolls back what came last, at a later date.
RunInOrder(r) ==
  /\ run[r].step = "up" =>
       \A m \in run[r].todo : m \notin Mig!Applied /\ Before(m) \subseteq Mig!Applied \cup run[r].todo
  /\ run[r].step = "down" => \A m \in run[r].todo : m \in Mig!Applied /\ \A n \in Mig!Applied : n <= m
  /\ run[r].at <= migration_time /\ (run[r].at # 0 => \A n \in Mig!Applied : schema_migrations[n] < run[r].at)
OneRun == \A q, r \in MigrationRun : run[q] # Mig!Quiet /\ run[r] # Mig!Quiet => q = r

Ordered == OneRun /\ InOrder /\ \A r \in MigrationRun : RunInOrder(r)
MigrationsInv == Mig!TypeOK /\ Mig!SchemaAsRecorded /\ Mig!LastRolledBack /\ (mixed \/ Ordered)

RunState == [step : {"none", "up", "down"}, todo : SUBSET Mig!Migration, at : 0..MigrationTime]

LEMMA QuietRun ==
  ASSUME Mig!MigrationsAssumption
  PROVE  Mig!Quiet \in RunState /\ Mig!Quiet.step = "none" /\ Mig!Quiet.at = 0 /\ Mig!Quiet.todo = {}
BY DEF Mig!MigrationsAssumption, Mig!Quiet, RunState

LEMMA RunRecord ==
  ASSUME Mig!MigrationsAssumption, NEW step \in {"none", "up", "down"}, NEW todo \in SUBSET Mig!Migration
  PROVE  [step |-> step, todo |-> todo, at |-> 0] \in RunState
BY DEF Mig!MigrationsAssumption, RunState

LEMMA MigrationsInit ==
  ASSUME Mig!MigrationsAssumption, Mig!Init
  PROVE  MigrationsInv
<1>1. /\ Mig!Applied = {} /\ \A r \in MigrationRun : run[r] = Mig!Quiet
      /\ 0 \in 0..MigrationTime /\ run \in [MigrationRun -> RunState]
  BY QuietRun DEF Mig!Init, Mig!Applied, Mig!MigrationsAssumption
<1>2. Mig!TypeOK
  BY <1>1 DEF Mig!Init, Mig!TypeOK, RunState
<1>3. Mig!SchemaAsRecorded /\ Mig!LastRolledBack
  BY <1>1 DEF Mig!Init, Mig!SchemaAsRecorded, Mig!LastRolledBack
<1>4. Ordered
  BY <1>1, QuietRun DEF Mig!Init, Ordered, OneRun, InOrder, RunInOrder
<1>5. QED
  BY <1>2, <1>3, <1>4 DEF MigrationsInv

\* A run that moves while the tables stay as they are.
LEMMA RunMoves ==
  ASSUME MigrationsInv, NEW r \in MigrationRun, NEW x \in RunState, run' = [run EXCEPT ![r] = x],
         UNCHANGED <<schema, schema_migrations, migration_files, torn>>,
         migration_time' \in 0..MigrationTime, migration_time' >= migration_time, mixed' \in BOOLEAN, mixed => mixed',
         ~mixed' => /\ x = Mig!Quiet \/ \A q \in MigrationRun \ {r} : run[q] = Mig!Quiet
                    /\ x.step = "up" => \A m \in x.todo : m \notin Mig!Applied /\ Before(m) \subseteq Mig!Applied \cup x.todo
                    /\ x.step = "down" => \A m \in x.todo : m \in Mig!Applied /\ \A n \in Mig!Applied : n <= m
                    /\ x.at <= migration_time'
                    /\ x.at # 0 => \A n \in Mig!Applied : schema_migrations[n] < x.at
  PROVE  MigrationsInv'
<1>1. Mig!TypeOK /\ Mig!SchemaAsRecorded /\ Mig!LastRolledBack /\ run \in [MigrationRun -> RunState]
  BY DEF MigrationsInv, Mig!TypeOK, RunState
<1>2. run' \in [MigrationRun -> RunState] /\ run'[r] = x /\ \A q \in MigrationRun \ {r} : run'[q] = run[q]
  BY <1>1
<1>3. Mig!TypeOK'
  BY <1>1, <1>2 DEF Mig!TypeOK, RunState
<1>4. Mig!Applied' = Mig!Applied /\ Mig!SchemaAsRecorded' /\ Mig!LastRolledBack'
  BY <1>1 DEF Mig!Applied, Mig!SchemaAsRecorded, Mig!LastRolledBack
<1>5. ASSUME ~mixed' PROVE Ordered'
  <2>1. Ordered
    BY <1>5 DEF MigrationsInv
  <2>2. OneRun'
    BY <1>2, <1>5, <2>1 DEF OneRun, Ordered
  <2>3. \A m \in Mig!Applied : schema_migrations[m] \in 0..MigrationTime
    BY <1>1 DEF Mig!Applied, Mig!TypeOK
  <2>4. migration_time \in 0..MigrationTime
    BY <1>1 DEF Mig!TypeOK
  <2>5. InOrder'
    BY <1>4, <2>1, <2>3, <2>4 DEF Ordered, InOrder, Before
  <2>6. RunInOrder(r)'
    BY <1>2, <1>4, <1>5 DEF RunInOrder, Before
  <2>7. ASSUME NEW q \in MigrationRun \ {r} PROVE RunInOrder(q)'
    <3>1. RunInOrder(q) /\ run[q].at \in 0..MigrationTime
      BY <1>1, <2>1 DEF Ordered, RunState
    <3>2. QED
      BY <1>2, <1>4, <2>4, <3>1 DEF RunInOrder, Before
  <2>8. QED
    BY <2>2, <2>5, <2>6, <2>7 DEF Ordered
<1>6. QED
  BY <1>3, <1>4, <1>5 DEF MigrationsInv

\* A run that commits: the tables change, and the run ends.
LEMMA RunCommits ==
  ASSUME Mig!MigrationsAssumption, MigrationsInv, NEW r \in MigrationRun, run' = [run EXCEPT ![r] = Mig!Quiet],
         UNCHANGED <<migration_files, migration_time>>, schema' = Mig!Applied', schema' \subseteq Mig!Migration,
         schema_migrations' \in [Mig!Migration -> 0..MigrationTime],
         torn' \in BOOLEAN, mixed' \in BOOLEAN, mixed => mixed', run[r] # Mig!Quiet,
         ~mixed' => ~torn' /\ InOrder'
  PROVE  MigrationsInv'
<1>1. run' \in [MigrationRun -> RunState] /\ run'[r] = Mig!Quiet /\ \A q \in MigrationRun \ {r} : run'[q] = run[q]
  BY QuietRun DEF MigrationsInv, Mig!TypeOK, RunState
<1>2. Mig!TypeOK'
  BY <1>1 DEF MigrationsInv, Mig!TypeOK, RunState
<1>3. Mig!SchemaAsRecorded' /\ Mig!LastRolledBack'
  BY DEF Mig!SchemaAsRecorded, Mig!LastRolledBack
<1>4. ASSUME ~mixed' PROVE Ordered'
  <2>1. \A q \in MigrationRun : run'[q] = Mig!Quiet
    BY <1>1, <1>4 DEF MigrationsInv, Ordered, OneRun
  <2>2. migration_time' \in Nat
    BY <1>2 DEF Mig!TypeOK
  <2>3. QED
    BY <1>4, <2>1, <2>2, QuietRun DEF Ordered, OneRun, RunInOrder
<1>5. QED
  BY <1>2, <1>3, <1>4 DEF MigrationsInv

LEMMA FindPendingKeeps ==
  ASSUME Mig!MigrationsAssumption, MigrationsInv, NEW r \in MigrationRun, NEW force \in BOOLEAN, Mig!FindPending(r, force)
  PROVE  MigrationsInv'
<1>1. PICK found \in SUBSET Mig!Migration : found = (1..migration_files) \ Mig!Applied
  <2>1. migration_files \in 0..MigrationFiles /\ MigrationFiles \in Nat
    BY DEF MigrationsInv, Mig!TypeOK, Mig!MigrationsAssumption
  <2>2. 1..migration_files \subseteq Mig!Migration
    BY <2>1 DEF Mig!Migration
  <2>3. QED
    BY <2>2
<1>2. PICK x \in RunState : x = [step |-> "up", todo |-> found, at |-> 0]
  BY RunRecord
<1>3. run' = [run EXCEPT ![r] = x]
  BY <1>1, <1>2, Zenon DEF Mig!FindPending
<1>4. /\ mixed' \in BOOLEAN /\ (mixed => mixed') /\ migration_time' = migration_time /\ migration_time \in 0..MigrationTime
      /\ ~mixed' => \A q \in MigrationRun \ {r} : run[q] = Mig!Quiet
  BY DEF Mig!FindPending, Mig!Overlap, MigrationsInv, Mig!TypeOK
<1>5. \A m \in found : m \notin Mig!Applied /\ Before(m) \subseteq Mig!Applied \cup found
  BY <1>1 DEF Before, MigrationsInv, Mig!TypeOK, Mig!Migration
<1>6. UNCHANGED <<schema, schema_migrations, migration_files, torn>>
  BY DEF Mig!FindPending
<1>7. x.step = "up" /\ x.todo = found /\ x.at = 0 /\ x.at <= migration_time' /\ migration_time' >= migration_time
  BY <1>2, <1>4
<1>8. QED
  BY <1>3, <1>4, <1>5, <1>6, <1>7, RunMoves

LEMMA FindLastKeeps ==
  ASSUME Mig!MigrationsAssumption, MigrationsInv, NEW r \in MigrationRun, Mig!FindLast(r)
  PROVE  MigrationsInv'
<1>1. PICK m \in Mig!Latest : run' = [run EXCEPT ![r] = [step |-> "down", todo |-> {m}, at |-> 0]]
  BY DEF Mig!FindLast
<1>2. m \in Mig!Applied /\ m \in Mig!Migration /\ \A n \in Mig!Applied : schema_migrations[n] <= schema_migrations[m]
  BY DEF Mig!Latest, Mig!Applied
<1>3. PICK x \in RunState : x = [step |-> "down", todo |-> {m}, at |-> 0]
  BY <1>2, RunRecord
<1>4. /\ mixed' \in BOOLEAN /\ (mixed => mixed') /\ migration_time' = migration_time /\ migration_time \in 0..MigrationTime
      /\ ~mixed' => \A q \in MigrationRun \ {r} : run[q] = Mig!Quiet
      /\ UNCHANGED <<schema, schema_migrations, migration_files, torn>>
  BY DEF Mig!FindLast, Mig!Overlap, MigrationsInv, Mig!TypeOK
<1>5. ASSUME ~mixed', NEW n \in Mig!Applied PROVE n <= m
  <2>1. n \in Mig!Migration /\ m \in Nat /\ n \in Nat
    BY <1>2 DEF Mig!Applied, Mig!Migration
  <2>2. InOrder
    BY <1>4, <1>5 DEF MigrationsInv, Ordered
  <2>3. m < n => schema_migrations[m] < schema_migrations[n]
    BY <1>2, <2>2 DEF InOrder, Before
  <2>4. schema_migrations[m] \in Nat /\ schema_migrations[n] \in Nat
    BY <1>2, <2>1 DEF MigrationsInv, Mig!TypeOK
  <2>5. QED
    BY <1>2, <2>1, <2>3, <2>4
<1>6. run' = [run EXCEPT ![r] = x]
  BY <1>1, <1>3, Zenon
<1>7. x.step = "down" /\ x.todo = {m} /\ x.at = 0 /\ x.at <= migration_time' /\ migration_time' >= migration_time
  BY <1>3, <1>4
<1>8. QED
  BY <1>2, <1>4, <1>5, <1>6, <1>7, RunMoves

LEMMA BeginKeeps ==
  ASSUME Mig!MigrationsAssumption, MigrationsInv, NEW r \in MigrationRun, Mig!Begin(r)
  PROVE  MigrationsInv'
<1>1. /\ run[r].step \in {"up", "down"} /\ migration_time < MigrationTime /\ migration_time' = migration_time + 1
      /\ run' = [run EXCEPT ![r].at = migration_time + 1]
      /\ UNCHANGED <<schema, schema_migrations, migration_files, torn, mixed>>
  BY DEF Mig!Begin
<1>2. run \in [MigrationRun -> RunState] /\ migration_time \in 0..MigrationTime /\ mixed \in BOOLEAN /\ migration_time' \in 0..MigrationTime
  BY <1>1 DEF MigrationsInv, Mig!TypeOK, RunState, Mig!MigrationsAssumption
<1>3. PICK at \in 0..MigrationTime : at = migration_time + 1
  BY <1>1, <1>2
<1>7. PICK x \in RunState : x = [run[r] EXCEPT !.at = at]
  BY <1>2 DEF RunState
<1>8. x.step = run[r].step /\ x.todo = run[r].todo /\ x.at = migration_time'
  BY <1>1, <1>2, <1>3, <1>7 DEF RunState
<1>4. run' = [run EXCEPT ![r] = x]
  BY <1>1, <1>3, <1>7, Zenon
<1>5. run[r] # Mig!Quiet
  BY <1>1, QuietRun
<1>6. ASSUME ~mixed' PROVE /\ \A q \in MigrationRun \ {r} : run[q] = Mig!Quiet
                           /\ RunInOrder(r) /\ \A n \in Mig!Applied : schema_migrations[n] < migration_time'
  <2>1. OneRun /\ InOrder /\ RunInOrder(r)
    BY <1>1, <1>6 DEF MigrationsInv, Ordered
  <2>2. \A n \in Mig!Applied : schema_migrations[n] \in Nat /\ schema_migrations[n] <= migration_time
    BY <2>1 DEF InOrder, MigrationsInv, Mig!TypeOK, Mig!Applied
  <2>3. QED
    BY <1>1, <1>2, <1>5, <2>1, <2>2 DEF OneRun
<1>9. migration_time' >= migration_time /\ migration_time' <= migration_time'
  BY <1>1, <1>2
<1>10. ~mixed' => /\ x = Mig!Quiet \/ \A q \in MigrationRun \ {r} : run[q] = Mig!Quiet
                  /\ x.step = "up" => \A m \in x.todo : m \notin Mig!Applied /\ Before(m) \subseteq Mig!Applied \cup x.todo
                  /\ x.step = "down" => \A m \in x.todo : m \in Mig!Applied /\ \A n \in Mig!Applied : n <= m
                  /\ x.at <= migration_time'
                  /\ x.at # 0 => \A n \in Mig!Applied : schema_migrations[n] < x.at
  BY <1>8, <1>6, <1>9 DEF RunInOrder
<1>11. mixed' \in BOOLEAN /\ (mixed => mixed')
  BY <1>1, <1>2
<1>12. QED
  BY <1>1, <1>2, <1>4, <1>9, <1>10, <1>11, RunMoves

LEMMA RollBackRunKeeps ==
  ASSUME Mig!MigrationsAssumption, MigrationsInv, NEW r \in MigrationRun, Mig!RollBackRun(r)
  PROVE  MigrationsInv'
<1>1. /\ run' = [run EXCEPT ![r] = Mig!Quiet]
      /\ UNCHANGED <<schema, schema_migrations, migration_files, migration_time, torn, mixed>>
  BY DEF Mig!RollBackRun, Mig!End
<1>2. migration_time' \in 0..MigrationTime /\ migration_time' >= migration_time /\ mixed' \in BOOLEAN /\ 0 <= migration_time'
  BY <1>1 DEF MigrationsInv, Mig!TypeOK
<1>3. QED
  BY <1>1, <1>2, QuietRun, RunMoves

LEMMA CommitUpKeeps ==
  ASSUME Mig!MigrationsAssumption, MigrationsInv, NEW r \in MigrationRun, Mig!CommitUp(r)
  PROVE  MigrationsInv'
<1>1. PICK x \in RunState : x = run[r]
  BY DEF MigrationsInv, Mig!TypeOK, RunState
<1>2. /\ x.step = "up" /\ x.at # 0 /\ x.todo \cap Mig!Applied = {}
      /\ schema' = schema \union x.todo /\ mixed' = (mixed \/ Mig!Cardinality(x.todo) > 1)
      /\ run' = [run EXCEPT ![r] = Mig!Quiet] /\ UNCHANGED <<migration_files, migration_time, torn>>
      /\ x # Mig!Quiet
  BY <1>1, QuietRun DEF Mig!CommitUp, Mig!At, Mig!End
<1>3. schema_migrations' = [m \in Mig!Migration |-> IF m \in x.todo THEN x.at ELSE schema_migrations[m]]
  BY <1>1, Zenon DEF Mig!CommitUp
<1>4. x.at \in 0..MigrationTime /\ x.todo \subseteq Mig!Migration /\ schema_migrations \in [Mig!Migration -> 0..MigrationTime]
  BY DEF RunState, MigrationsInv, Mig!TypeOK
<1>5. schema_migrations' \in [Mig!Migration -> 0..MigrationTime]
  BY <1>3, <1>4
<1>6. Mig!Applied' = Mig!Applied \cup x.todo /\ Mig!Applied = schema
  BY <1>2, <1>3, <1>4 DEF Mig!Applied, MigrationsInv, Mig!SchemaAsRecorded
<1>7. ASSUME ~mixed' PROVE ~torn' /\ InOrder'
  <2>1. /\ InOrder /\ ~torn' /\ x.at <= migration_time
        /\ \A m \in x.todo : m \notin Mig!Applied /\ Before(m) \subseteq Mig!Applied \cup x.todo
        /\ \A n \in Mig!Applied : schema_migrations[n] < x.at
    BY <1>1, <1>2, <1>7 DEF MigrationsInv, Ordered, RunInOrder, Mig!LastRolledBack
  <2>2. \A m, n \in x.todo : m = n
    <3>1. Mig!IsFiniteSet(x.todo)
      <4>1. Mig!IsFiniteSet(Mig!Migration)
        BY FS_Interval, MigSizes DEF Mig!Migration, Mig!MigrationsAssumption
      <4>2. QED
        BY <1>4, <4>1, FS_Subset, MigSizes
    <3>2. Mig!Cardinality(x.todo) \in Nat /\ ~(Mig!Cardinality(x.todo) > 1)
      BY <1>2, <1>7, <3>1, FS_CardinalityType, MigSizes
    <3>3. Mig!Cardinality(x.todo) = 0 \/ Mig!Cardinality(x.todo) = 1
      BY <3>2
    <3>4. QED
      BY <3>1, <3>3, FS_EmptySet, FS_Singleton, MigSizes
  <2>3. ASSUME NEW m \in x.todo
        PROVE  /\ schema_migrations'[m] <= migration_time' /\ Before(m) \subseteq Mig!Applied'
               /\ \A n \in Before(m) : schema_migrations'[n] < schema_migrations'[m]
    <3>1. schema_migrations'[m] = x.at /\ Before(m) \subseteq Mig!Applied'
      BY <1>3, <1>4, <1>6, <2>1
    <3>2. m \notin Before(m)
      BY DEF Before, Mig!Migration
    <3>3. ASSUME NEW n \in Before(m) PROVE schema_migrations'[n] < x.at
      <4>1. n \in Mig!Applied /\ n \notin x.todo /\ n \in Mig!Migration
        BY <2>1, <2>2, <3>2 DEF Before
      <4>2. QED
        BY <1>3, <2>1, <4>1
    <3>4. QED
      BY <1>2, <2>1, <3>1, <3>3
  <2>4. ASSUME NEW m \in Mig!Applied
        PROVE  /\ schema_migrations'[m] <= migration_time' /\ Before(m) \subseteq Mig!Applied'
               /\ \A n \in Before(m) : schema_migrations'[n] < schema_migrations'[m]
    <3>1. \A n \in Mig!Applied : schema_migrations'[n] = schema_migrations[n]
      BY <1>3, <2>1 DEF Mig!Applied
    <3>2. QED
      BY <1>2, <1>6, <2>1, <3>1 DEF InOrder
  <2>5. QED
    BY <1>6, <2>1, <2>3, <2>4 DEF InOrder, Before, Mig!Migration
<1>8. schema' \subseteq Mig!Migration /\ torn' \in BOOLEAN /\ mixed' \in BOOLEAN
  BY <1>2, <1>4 DEF MigrationsInv, Mig!TypeOK
<1>9. QED
  BY <1>1, <1>2, <1>5, <1>6, <1>7, <1>8, RunCommits

LEMMA CommitDownKeeps ==
  ASSUME Mig!MigrationsAssumption, MigrationsInv, NEW r \in MigrationRun, Mig!CommitDown(r)
  PROVE  MigrationsInv'
<1>1. PICK x \in RunState : x = run[r]
  BY DEF MigrationsInv, Mig!TypeOK, RunState
<1>2. /\ x.step = "down" /\ schema' = schema \ x.todo /\ mixed' = mixed
      /\ torn' = (torn \/ \E m \in x.todo \cap Mig!Applied : m # Mig!Max(Mig!Applied))
      /\ run' = [run EXCEPT ![r] = Mig!Quiet] /\ UNCHANGED <<migration_files, migration_time>> /\ x # Mig!Quiet
  BY <1>1, QuietRun DEF Mig!CommitDown, Mig!At, Mig!End
<1>3. schema_migrations' = [m \in Mig!Migration |-> IF m \in x.todo THEN 0 ELSE schema_migrations[m]]
  BY <1>1, Zenon DEF Mig!CommitDown
<1>4. schema_migrations \in [Mig!Migration -> 0..MigrationTime] /\ 0 \in 0..MigrationTime
  BY DEF MigrationsInv, Mig!TypeOK, Mig!MigrationsAssumption
<1>5. schema_migrations' \in [Mig!Migration -> 0..MigrationTime]
  BY <1>3, <1>4
<1>6. Mig!Applied' = Mig!Applied \ x.todo /\ Mig!Applied = schema
  BY <1>2, <1>3 DEF Mig!Applied, MigrationsInv, Mig!SchemaAsRecorded
<1>7. ASSUME ~mixed' PROVE ~torn' /\ InOrder'
  <2>1. InOrder /\ ~torn /\ \A m \in x.todo : m \in Mig!Applied /\ \A n \in Mig!Applied : n <= m
    BY <1>1, <1>2, <1>7 DEF MigrationsInv, Ordered, RunInOrder, Mig!LastRolledBack
  <2>2. \A m \in x.todo : m = Mig!Max(Mig!Applied)
    <3>1. TAKE m \in x.todo
    <3>2. m \in Mig!Applied /\ Mig!Applied \subseteq Nat /\ \A n \in Mig!Applied : m >= n
      BY <2>1 DEF Mig!Applied, Mig!Migration
    <3>3. Mig!Max(Mig!Applied) \in Mig!Applied /\ \A n \in Mig!Applied : Mig!Max(Mig!Applied) >= n
      BY <3>2 DEF Mig!Max
    <3>4. Mig!Max(Mig!Applied) <= m /\ Mig!Max(Mig!Applied) >= m /\ m \in Nat /\ Mig!Max(Mig!Applied) \in Nat
      BY <3>2, <3>3
    <3>5. QED
      BY <3>4
  <2>3. \A m \in Mig!Applied' : \A n \in Before(m) : n \notin x.todo /\ m \in Mig!Applied /\ m \notin x.todo
    BY <1>6, <2>1 DEF Before, Mig!Applied, Mig!Migration
  <2>4. \A n \in Mig!Migration \ x.todo : schema_migrations'[n] = schema_migrations[n]
    BY <1>3
  <2>5. InOrder'
    BY <1>2, <1>6, <2>1, <2>3, <2>4 DEF InOrder, Before, Mig!Applied
  <2>6. QED
    BY <1>2, <2>1, <2>2, <2>5
<1>8. schema' \subseteq Mig!Migration /\ torn' \in BOOLEAN /\ mixed' \in BOOLEAN
  BY <1>2, <1>6 DEF MigrationsInv, Mig!TypeOK, Mig!Applied
<1>9. QED
  BY <1>1, <1>2, <1>5, <1>6, <1>7, <1>8, RunCommits

LEMMA MigrationsStep ==
  ASSUME Mig!MigrationsAssumption, MigrationsInv, [Mig!Next]_migrationVars
  PROVE  MigrationsInv'
<1>1. CASE Mig!AddFile \/ UNCHANGED migrationVars
  <2>1. /\ UNCHANGED <<schema, schema_migrations, run, migration_time, torn, mixed>> /\ migration_files' \in 0..MigrationFiles
    BY <1>1 DEF Mig!AddFile, migrationVars, MigrationsInv, Mig!TypeOK, Mig!MigrationsAssumption
  <2>2. Mig!Applied' = Mig!Applied
    BY <2>1 DEF Mig!Applied
  <2>3. QED
    BY <2>1, <2>2 DEF MigrationsInv, Mig!TypeOK, Mig!SchemaAsRecorded, Mig!LastRolledBack, Ordered, OneRun,
      InOrder, RunInOrder
<1>2. QED
  BY <1>1, FindPendingKeeps, BeginKeeps, CommitUpKeeps, RollBackRunKeeps, FindLastKeeps,
    CommitDownKeeps DEF Mig!Next

----
(* Encrypted fields *)

LEMMA EncSizes ==
  /\ \A S : Enc!IsFiniteSet(S) <=> IsFiniteSet(S)
  /\ \A S : Enc!Cardinality(S) = Cardinality(S)
BY Zenon DEF Enc!IsFiniteSet, Enc!Cardinality, IsFiniteSet, Cardinality

ScriptState ==
  [step : {"none", "read", "write", "done"}, rotation : BOOLEAN, dry : BOOLEAN, dual : BOOLEAN,
   cursor : 0..FieldRows, batch : SUBSET Enc!Row, read : [Enc!Row -> Enc!Values], updated : Nat, failed : Nat]

FieldTypes ==
  /\ Enc!TypeOK /\ field_run \in ScriptState
  /\ field_run.step # "write" => field_run.batch = {}

\* In a rotation begun when all servers had the new key none of them has only the old one.
Rotating == field_run.rotation /\ field_run.dual => \A s \in FieldServer : keys[s] # "old"

\* A row that needs no update in a rotation, ...
Settled(r) == row[r] \in {"none", "new"} \/ (row[r] = "plain" /\ r \in FieldLookalike)

\* ... as are those that a clean run has passed; those of the batch are as they were read,
\* or were deleted or written with the new key meanwhile.
Clean ==
  /\ field_run.rotation /\ field_run.dual /\ field_run.failed = 0
  /\ field_run.dry => field_run.updated = 0
Scanned ==
  Clean => \A r \in Enc!Row :
    /\ (field_run.step = "done" \/ r <= field_run.cursor) /\ r \notin field_run.batch => Settled(r)
    /\ r \in field_run.batch => row[r] \in {field_run.read[r], "none", "new"}

\* Once the operator has seen a clean dry run nothing is under the old key, nor will be.
Checked ==
  /\ verified => /\ \A s \in FieldServer : keys[s] # "old" /\ \A r \in Enc!Row : row[r] # "old"
                 /\ FieldServer # {} /\ field_run.step \in {"read", "write"} => field_run.rotation
  /\ \A s \in FieldServer : keys[s] = "new" => verified

FieldsInv == FieldTypes /\ Rotating /\ Scanned /\ Checked

LEMMA ScriptStarts ==
  ASSUME Enc!FieldEncryptionAssumption, NEW step \in {"none", "read"}, NEW rotation \in BOOLEAN,
         NEW dry \in BOOLEAN, NEW dual \in BOOLEAN, NEW read, read = [r \in Enc!Row |-> "none"]
  PROVE  [step |-> step, rotation |-> rotation, dry |-> dry, dual |-> dual, cursor |-> 0,
          batch |-> {}, read |-> read, updated |-> 0, failed |-> 0] \in ScriptState
<1>1. 0 \in 0..FieldRows /\ 0 \in Nat /\ {} \subseteq Enc!Row
  BY DEF Enc!FieldEncryptionAssumption
<1>2. read \in [Enc!Row -> Enc!Values]
  BY DEF Enc!Values
<1>3. QED
  BY <1>1, <1>2 DEF ScriptState

LEMMA NoScriptFields ==
  ASSUME Enc!FieldEncryptionAssumption
  PROVE  /\ Enc!NoScript \in ScriptState
         /\ Enc!NoScript.step = "none" /\ ~Enc!NoScript.rotation /\ Enc!NoScript.batch = {}
<1>1. Enc!NoScript \in ScriptState
  BY ScriptStarts, Zenon DEF Enc!NoScript
<1>2. QED
  BY <1>1 DEF Enc!NoScript

LEMMA FieldsInit ==
  ASSUME Enc!FieldEncryptionAssumption, Enc!Init
  PROVE  FieldsInv
<1>1. /\ field_run = Enc!NoScript /\ field_run \in ScriptState /\ field_run.step = "none" /\ ~field_run.rotation
      /\ field_run.batch = {}
  BY NoScriptFields DEF Enc!Init
<1>2. /\ row \in [Enc!Row -> Enc!Values] /\ inserted \in 0..FieldRows /\ 0 \in 0..FieldFailures
      /\ keys \in [FieldServer -> {"old", "dual", "new"}] /\ \A s \in FieldServer : keys[s] = "old"
      /\ verified = FALSE /\ failures = 0
  BY DEF Enc!Init, Enc!Values, Enc!FieldEncryptionAssumption
<1>3. Enc!TypeOK
  BY <1>1, <1>2 DEF Enc!TypeOK, ScriptState
<1>4. QED
  BY <1>1, <1>2, <1>3 DEF FieldsInv, FieldTypes, Rotating, Scanned, Clean, Checked

\* A row that a server writes or deletes.
LEMMA RowWritten ==
  ASSUME FieldsInv, NEW r \in Enc!Row, NEW v \in {"none", "new", "old"}, row' = [row EXCEPT ![r] = v],
         v = "old" => \E s \in FieldServer : keys[s] = "old",
         inserted' \in 0..FieldRows, UNCHANGED <<keys, field_run, verified, failures>>
  PROVE  FieldsInv'
<1>1. row' \in [Enc!Row -> Enc!Values] /\ row'[r] = v /\ \A q \in Enc!Row \ {r} : row'[q] = row[q]
  BY DEF FieldsInv, FieldTypes, Enc!TypeOK, Enc!Values
<1>2. FieldTypes' /\ Rotating'
  BY <1>1 DEF FieldsInv, FieldTypes, Enc!TypeOK, Rotating
<1>3. Scanned'
  <2>1. Clean' = Clean /\ (Clean => v # "old")
    BY DEF Clean, FieldsInv, Rotating
  <2>2. \A q \in Enc!Row : Clean /\ Settled(q) => Settled(q)'
    BY <1>1, <2>1 DEF Settled
  <2>3. Settled(r)' \/ v = "old"
    BY <1>1 DEF Settled
  <2>4. QED
    BY <1>1, <2>1, <2>2, <2>3 DEF FieldsInv, Scanned
<1>4. Checked'
  BY <1>1 DEF FieldsInv, Checked
<1>5. QED
  BY <1>2, <1>3, <1>4 DEF FieldsInv

LEMMA InsertKeeps ==
  ASSUME Enc!FieldEncryptionAssumption, FieldsInv, NEW s \in FieldServer, Enc!Insert(s)
  PROVE  FieldsInv'
<1>1. inserted \in 0..FieldRows /\ inserted < FieldRows /\ inserted' = inserted + 1 /\ FieldRows \in Nat
  BY DEF Enc!Insert, FieldsInv, FieldTypes, Enc!TypeOK, Enc!FieldEncryptionAssumption
<1>2. PICK r \in Enc!Row : r = inserted + 1
  BY <1>1 DEF Enc!Row
<1>3. PICK v \in {"old", "new"} : v = Enc!Primary(s)
  BY DEF Enc!Primary
<1>4. v = "old" => keys[s] = "old"
  BY <1>3 DEF Enc!Primary
<1>5. row' = [row EXCEPT ![r] = v] /\ UNCHANGED <<keys, field_run, verified, failures>>
  BY <1>2, <1>3, Zenon DEF Enc!Insert
<1>6. inserted' \in 0..FieldRows
  BY <1>1
<1>7. v \in {"none", "new", "old"} /\ (v = "old" => \E q \in FieldServer : keys[q] = "old")
  BY <1>4
<1>8. QED
  BY <1>5, <1>6, <1>7, RowWritten

LEMMA RowDeleteKeeps ==
  ASSUME FieldsInv, NEW r \in Enc!Row, Enc!Delete(r)
  PROVE  FieldsInv'
<1>1. row' = [row EXCEPT ![r] = "none"] /\ UNCHANGED <<inserted, keys, field_run, verified, failures>>
  BY DEF Enc!Delete
<1>2. inserted' \in 0..FieldRows
  BY <1>1 DEF FieldsInv, FieldTypes, Enc!TypeOK
<1>3. QED
  BY <1>1, <1>2, RowWritten

LEMMA KeysChange ==
  ASSUME FieldsInv, NEW s \in FieldServer, Enc!ActivateDual(s) \/ Enc!Retire(s)
  PROVE  FieldsInv'
<1>1. PICK k \in {"dual", "new"} : keys' = [keys EXCEPT ![s] = k] /\ (k = "new" => verified)
  BY DEF Enc!ActivateDual, Enc!Retire
<1>2. UNCHANGED <<row, inserted, field_run, verified, failures>>
  BY DEF Enc!ActivateDual, Enc!Retire
<1>3. /\ keys' \in [FieldServer -> {"old", "dual", "new"}] /\ keys'[s] = k
      /\ \A q \in FieldServer \ {s} : keys'[q] = keys[q]
  BY <1>1 DEF FieldsInv, FieldTypes, Enc!TypeOK
<1>4. FieldTypes' /\ Rotating'
  BY <1>1, <1>2, <1>3 DEF FieldsInv, FieldTypes, Enc!TypeOK, Rotating
<1>5. Scanned'
  BY <1>2 DEF FieldsInv, Scanned, Clean, Settled
<1>6. Checked'
  BY <1>1, <1>2, <1>3 DEF FieldsInv, Checked
<1>7. QED
  BY <1>4, <1>5, <1>6 DEF FieldsInv

LEMMA StartKeeps ==
  ASSUME Enc!FieldEncryptionAssumption, FieldsInv, NEW rotation \in BOOLEAN, NEW dry \in BOOLEAN,
         Enc!Start(rotation, dry)
  PROVE  FieldsInv'
<1>1. PICK x \in ScriptState :
        /\ field_run' = x
        /\ x = [step |-> "read", rotation |-> rotation, dry |-> dry, dual |-> Enc!AllDual, cursor |-> 0,
                batch |-> {}, read |-> [r \in Enc!Row |-> "none"], updated |-> 0, failed |-> 0]
  <2>1. PICK dual \in BOOLEAN : dual = Enc!AllDual
    BY DEF Enc!AllDual
  <2>2. PICK read : read = [r \in Enc!Row |-> "none"]
    OBVIOUS
  <2>3. field_run' = [[step |-> "none", rotation |-> FALSE, dry |-> FALSE, dual |-> FALSE, cursor |-> 0,
                    batch |-> {}, read |-> read, updated |-> 0, failed |-> 0]
                     EXCEPT !.step = "read", !.rotation = rotation, !.dry = dry, !.dual = dual]
    BY <2>1, <2>2, Zenon DEF Enc!Start, Enc!NoScript
  <2>4. field_run' = [step |-> "read", rotation |-> rotation, dry |-> dry, dual |-> dual, cursor |-> 0,
                   batch |-> {}, read |-> read, updated |-> 0, failed |-> 0]
    BY <2>3
  <2>5. PICK x \in ScriptState :
          x = [step |-> "read", rotation |-> rotation, dry |-> dry, dual |-> dual, cursor |-> 0,
               batch |-> {}, read |-> read, updated |-> 0, failed |-> 0]
    BY <2>2, ScriptStarts
  <2>6. QED
    BY <2>1, <2>2, <2>4, <2>5, Zenon
<1>2. /\ x.step = "read" /\ x.rotation = rotation /\ x.dual = Enc!AllDual /\ x.cursor = 0 /\ x.batch = {}
  BY <1>1
<1>3. /\ ~rotation => \A s \in FieldServer : keys[s] = "old"
      /\ UNCHANGED <<row, inserted, keys, verified, failures>>
  BY DEF Enc!Start
<1>4. FieldTypes'
  BY <1>1, <1>2, <1>3 DEF FieldsInv, FieldTypes, Enc!TypeOK, ScriptState
<1>5. Rotating' /\ Checked'
  BY <1>1, <1>2, <1>3 DEF FieldsInv, Rotating, Checked, Enc!AllDual
<1>6. Scanned'
  BY <1>1, <1>2 DEF Scanned, Enc!Row
<1>7. QED
  BY <1>4, <1>5, <1>6 DEF FieldsInv

\* The last of a batch is after the cursor, and no row that is there is left out before it.
LEMMA BatchIsNext ==
  ASSUME Enc!FieldEncryptionAssumption, NEW cursor \in 0..FieldRows, Enc!After(cursor) # {}, NEW batch,
         batch = Enc!FirstOf(Enc!After(cursor))
  PROVE  /\ batch \subseteq Enc!After(cursor) /\ Enc!Max(batch) \in 0..FieldRows
         /\ \A r \in Enc!Row : cursor < r /\ r <= Enc!Max(batch) /\ r \notin batch => row[r] = "none"
<1>1. /\ FieldRows \in Nat /\ FieldBatch \in Nat /\ 0 < FieldBatch /\ Enc!IsFiniteSet(Enc!Row)
      /\ Enc!After(cursor) \subseteq Enc!Row /\ Enc!Row \subseteq 0..FieldRows /\ Enc!Row \subseteq Nat
  <2>1. FieldRows \in Nat /\ FieldBatch \in Nat /\ 0 < FieldBatch
    BY DEF Enc!FieldEncryptionAssumption
  <2>2. Enc!IsFiniteSet(Enc!Row) /\ Enc!Row \subseteq 0..FieldRows /\ Enc!Row \subseteq Nat
    BY <2>1, FS_Interval, EncSizes DEF Enc!Row
  <2>3. Enc!After(cursor) \subseteq Enc!Row
    BY DEF Enc!After
  <2>4. QED
    BY <2>1, <2>2, <2>3
<1>2. batch \subseteq Enc!After(cursor)
  BY DEF Enc!FirstOf
<1>3. batch # {}
  <2>1. PICK f \in Enc!After(cursor) : \A q \in Enc!After(cursor) : f <= q
    BY <1>1, HasSmallest
  <2>2. \A q \in Enc!After(cursor) : ~(q < f)
    <3>1. \A q \in Enc!After(cursor) : q \in Nat /\ f \in Nat
      BY <1>1, <2>1
    <3>2. QED
      BY <2>1, <3>1
  <2>3. Enc!Cardinality({q \in Enc!After(cursor) : q < f}) < FieldBatch
    <3>1. {q \in Enc!After(cursor) : q < f} = {}
      BY <2>2
    <3>2. QED
      BY <1>1, <3>1, FS_EmptySet, EncSizes
  <2>4. QED
    BY <2>1, <2>3 DEF Enc!FirstOf
<1>4. PICK m \in batch : \A q \in batch : q <= m
  BY <1>1, <1>2, <1>3, HasLargest
<1>5. Enc!Max(batch) \in batch /\ \A q \in batch : Enc!Max(batch) >= q
  <2>1. m \in batch /\ \A q \in batch : m >= q
    BY <1>1, <1>2, <1>4
  <2>2. QED
    BY <2>1, Zenon DEF Enc!Max
<1>6. ASSUME NEW r \in Enc!Row, cursor < r, r <= Enc!Max(batch), r \notin batch, row[r] # "none" PROVE FALSE
  <2>1. r \in Enc!After(cursor)
    BY <1>6 DEF Enc!After
  <2>2. ~(Enc!Cardinality({q \in Enc!After(cursor) : q < r}) < FieldBatch)
    BY <1>6, <2>1 DEF Enc!FirstOf
  <2>3. Enc!Cardinality({q \in Enc!After(cursor) : q < Enc!Max(batch)}) < FieldBatch /\ Enc!Max(batch) \in Enc!After(cursor)
    BY <1>5 DEF Enc!FirstOf
  <2>4. {q \in Enc!After(cursor) : q < r} \subseteq {q \in Enc!After(cursor) : q < Enc!Max(batch)}
    <3>1. \A q \in Enc!After(cursor) : q \in Nat /\ r \in Nat /\ Enc!Max(batch) \in Nat
      BY <1>1, <2>3
    <3>2. \A q \in Enc!After(cursor) : q < r => q < Enc!Max(batch)
      BY <1>6, <3>1
    <3>3. QED
      BY <3>2
  <2>5. Enc!IsFiniteSet({q \in Enc!After(cursor) : q < Enc!Max(batch)})
    BY <1>1, FS_Subset, EncSizes
  <2>6. /\ Enc!Cardinality({q \in Enc!After(cursor) : q < r}) <= Enc!Cardinality({q \in Enc!After(cursor) : q < Enc!Max(batch)})
        /\ Enc!Cardinality({q \in Enc!After(cursor) : q < r}) \in Nat
        /\ Enc!Cardinality({q \in Enc!After(cursor) : q < Enc!Max(batch)}) \in Nat
    BY <2>4, <2>5, PartCounted, EncSizes
  <2>7. QED
    BY <1>1, <2>2, <2>3, <2>6
<1>7. QED
  BY <1>1, <1>2, <1>5, <1>6

LEMMA ReadBatchKeeps ==
  ASSUME Enc!FieldEncryptionAssumption, FieldsInv, Enc!ReadBatch
  PROVE  FieldsInv'
<1>1. /\ field_run \in ScriptState /\ field_run.step = "read" /\ field_run.batch = {} /\ Enc!TypeOK
      /\ UNCHANGED <<row, inserted, keys, failures>>
  BY DEF Enc!ReadBatch, FieldsInv, FieldTypes
<1>2. CASE Enc!After(field_run.cursor) = {}
  <2>1. PICK x \in ScriptState : x = [field_run EXCEPT !.step = "done"]
    BY <1>1 DEF ScriptState
  <2>2. field_run' = x
    BY <1>2, <2>1, Zenon DEF Enc!ReadBatch
  <2>3. /\ x.step = "done" /\ x.rotation = field_run.rotation /\ x.dual = field_run.dual /\ x.dry = field_run.dry
        /\ x.updated = field_run.updated /\ x.failed = field_run.failed /\ x.batch = {}
    BY <1>1, <2>1 DEF ScriptState
  <2>4. \A r \in Enc!Row : Clean => Settled(r)
    <3>1. TAKE r \in Enc!Row
    <3>2. r > field_run.cursor => Settled(r)
      BY <1>2 DEF Enc!After, Settled
    <3>3. r \in Nat /\ field_run.cursor \in Nat
      BY <1>1 DEF ScriptState, Enc!Row
    <3>4. QED
      BY <1>1, <3>2, <3>3 DEF FieldsInv, Scanned
  <2>5. /\ verified' \in BOOLEAN /\ (verified => verified')
        /\ verified' => verified \/ (Clean /\ field_run.rotation /\ field_run.dual)
    BY <1>1 DEF Enc!ReadBatch, Clean, Enc!TypeOK
  <2>6. FieldTypes' /\ Rotating'
    BY <1>1, <2>2, <2>3, <2>5 DEF FieldsInv, FieldTypes, Enc!TypeOK, Rotating, ScriptState
  <2>7. Scanned'
    BY <1>1, <2>2, <2>3, <2>4 DEF Scanned, Clean, Settled
  <2>8. \A r \in Enc!Row : Settled(r) => row[r] # "old"
    BY DEF Settled
  <2>9. Checked'
    BY <1>1, <2>2, <2>3, <2>4, <2>5, <2>8 DEF FieldsInv, Checked, Rotating
  <2>10. QED
    BY <2>6, <2>7, <2>9 DEF FieldsInv
<1>3. CASE Enc!After(field_run.cursor) # {}
  <2>1. PICK batch : batch = Enc!FirstOf(Enc!After(field_run.cursor))
    OBVIOUS
  <2>2. field_run.cursor \in 0..FieldRows
    BY <1>1 DEF ScriptState
  <2>3. /\ batch \subseteq Enc!After(field_run.cursor) /\ Enc!Max(batch) \in 0..FieldRows
        /\ \A r \in Enc!Row : field_run.cursor < r /\ r <= Enc!Max(batch) /\ r \notin batch => row[r] = "none"
    BY <1>3, <2>1, <2>2, BatchIsNext
  <2>4. batch \subseteq Enc!Row /\ row \in [Enc!Row -> Enc!Values]
    BY <1>1, <2>3 DEF Enc!After, Enc!TypeOK
  <2>5. PICK m \in 0..FieldRows : m = Enc!Max(batch)
    BY <2>3
  <2>6. PICK x \in ScriptState :
          x = [field_run EXCEPT !.step = "write", !.batch = batch, !.read = row, !.cursor = m]
    BY <1>1, <2>4 DEF ScriptState
  <2>7. field_run' = x /\ verified' = verified
    <3>1. Enc!NextBatch = x
      BY <2>1, <2>5, <2>6, Zenon DEF Enc!NextBatch
    <3>2. field_run' = x
      BY <1>3, <3>1, Zenon DEF Enc!ReadBatch
    <3>3. verified' = verified
      BY <1>1, <1>3 DEF Enc!ReadBatch, Enc!TypeOK
    <3>4. QED
      BY <3>2, <3>3
  <2>8. /\ x.step = "write" /\ x.rotation = field_run.rotation /\ x.dual = field_run.dual /\ x.dry = field_run.dry
        /\ x.updated = field_run.updated /\ x.failed = field_run.failed /\ x.batch = batch /\ x.read = row
        /\ x.cursor = m
    BY <1>1, <2>6 DEF ScriptState
  <2>9. FieldTypes' /\ Rotating' /\ Checked'
    BY <1>1, <2>7, <2>8 DEF FieldsInv, FieldTypes, Enc!TypeOK, Rotating, Checked, ScriptState
  <2>10. Scanned'
    <3>1. SUFFICES ASSUME Clean', NEW r \in Enc!Row
                   PROVE  /\ r <= m /\ r \notin batch => Settled(r)'
                          /\ r \in batch => row'[r] \in {row[r], "none", "new"}
      BY <2>7, <2>8 DEF Scanned
    <3>2. Clean
      BY <2>7, <2>8, <3>1 DEF Clean
    <3>3. r <= field_run.cursor => Settled(r)
      BY <1>1, <3>2 DEF FieldsInv, Scanned
    <3>4. r <= m /\ r \notin batch => r <= field_run.cursor \/ row[r] = "none"
      BY <2>2, <2>3, <2>5 DEF Enc!Row
    <3>5. QED
      BY <1>1, <3>3, <3>4 DEF Settled
  <2>11. QED
    BY <2>9, <2>10 DEF FieldsInv
<1>4. QED
  BY <1>2, <1>3

\* The script x is done with row r of its batch; its counts apart, it goes on as it was.
RowLeft(x, r) ==
  /\ x.batch = field_run.batch \ {r} /\ x.step = (IF field_run.batch = {r} THEN "read" ELSE field_run.step)
  /\ x.rotation = field_run.rotation /\ x.dual = field_run.dual /\ x.dry = field_run.dry
  /\ x.cursor = field_run.cursor /\ x.read = field_run.read

\* A row of the batch is done with: its value, and the counts, are settled in a clean run.
LEMMA RowDone ==
  ASSUME Enc!FieldEncryptionAssumption, FieldsInv, NEW r \in field_run.batch, NEW x \in ScriptState,
         field_run' = x, RowLeft(x, r),
         x.updated = field_run.updated \/ (x.updated = field_run.updated + 1 /\ Enc!ToUpdate(r)),
         x.failed = field_run.failed \/ x.failed = field_run.failed + 1,
         NEW v \in Enc!Values, row' = [row EXCEPT ![r] = v],
         v = row[r] \/ (v = Enc!Target /\ ~field_run.dry),
         Clean' => v \in {"none", "new"} \/ (v = row[r] /\ ~Enc!ToUpdate(r)),
         failures' \in 0..FieldFailures, UNCHANGED <<inserted, keys, verified>>
  PROVE  FieldsInv'
<1> USE DEF RowLeft
<1>1. /\ row' \in [Enc!Row -> Enc!Values] /\ row'[r] = v /\ \A q \in Enc!Row \ {r} : row'[q] = row[q]
      /\ field_run \in ScriptState /\ r \in Enc!Row
  BY DEF FieldsInv, FieldTypes, Enc!TypeOK
<1>2. field_run.step = "write"
  BY DEF FieldsInv, FieldTypes
<1>3. FieldTypes' /\ Rotating'
  BY <1>1, <1>2 DEF FieldsInv, FieldTypes, Enc!TypeOK, Rotating, ScriptState
<1>4. Clean' => Clean
  <2>1. /\ field_run.updated \in Nat /\ field_run.failed \in Nat
    BY <1>1 DEF ScriptState
  <2>2. QED
    BY <2>1 DEF Clean
<1>5. Scanned'
  <2>1. SUFFICES ASSUME Clean', NEW q \in Enc!Row
                 PROVE  /\ q <= field_run.cursor /\ q \notin field_run.batch \ {r} => Settled(q)'
                        /\ q \in field_run.batch \ {r} => row'[q] \in {field_run.read[q], "none", "new"}
    BY <1>2 DEF Scanned
  <2>2. /\ q <= field_run.cursor /\ q \notin field_run.batch => Settled(q)
        /\ q \in field_run.batch => row[q] \in {field_run.read[q], "none", "new"}
    BY <1>2, <1>4, <2>1 DEF FieldsInv, Scanned
  <2>3. CASE q # r
    BY <1>1, <2>2, <2>3 DEF Settled
  <2>4. CASE q = r
    <3>1. v \in {"none", "new"} => Settled(q)'
      BY <1>1, <2>4 DEF Settled
    <3>2. v = row[r] /\ ~Enc!ToUpdate(r) => Settled(q)'
      BY <1>1, <1>4, <2>1, <2>2, <2>4 DEF Settled, Enc!ToUpdate, Clean, ScriptState, Enc!Values
    <3>3. QED
      BY <2>1, <2>4, <3>1, <3>2
  <2>5. QED
    BY <2>3, <2>4
<1>6. Checked'
  <2>1. verified => v # "old" \/ FieldServer = {}
    BY <1>1, <1>2 DEF FieldsInv, Checked, Enc!Target
  <2>2. QED
    BY <1>1, <1>2, <2>1 DEF FieldsInv, Checked
<1>7. QED
  BY <1>3, <1>5, <1>6 DEF FieldsInv

LEMMA WithoutRow ==
  ASSUME FieldsInv, NEW r \in field_run.batch
  PROVE  /\ Enc!Without(r) \in ScriptState
         /\ RowLeft(Enc!Without(r), r) /\ Enc!Without(r).updated = field_run.updated
         /\ Enc!Without(r).failed = field_run.failed
<1>1. field_run \in ScriptState
  BY DEF FieldsInv, FieldTypes
<1>2. PICK step \in {"none", "read", "write", "done"} :
        step = IF field_run.batch = {r} THEN "read" ELSE field_run.step
  BY <1>1 DEF ScriptState
<1>3. PICK batch \in SUBSET Enc!Row : batch = field_run.batch \ {r}
  BY <1>1 DEF ScriptState
<1>4. PICK x \in ScriptState : x = [field_run EXCEPT !.batch = batch, !.step = step]
  BY <1>1 DEF ScriptState
<1>5. Enc!Without(r) = x
  BY <1>2, <1>3, <1>4, Zenon DEF Enc!Without
<1>6. /\ x.batch = batch /\ x.step = step /\ x.rotation = field_run.rotation /\ x.dual = field_run.dual
      /\ x.dry = field_run.dry /\ x.cursor = field_run.cursor /\ x.read = field_run.read
      /\ x.updated = field_run.updated /\ x.failed = field_run.failed
  BY <1>1, <1>4 DEF ScriptState
<1>7. QED
  BY <1>2, <1>3, <1>5, <1>6 DEF RowLeft

LEMMA RowKnown ==
  ASSUME FieldsInv, NEW r \in field_run.batch
  PROVE  /\ row \in [Enc!Row -> Enc!Values] /\ failures \in 0..FieldFailures /\ row[r] \in Enc!Values
         /\ row = [row EXCEPT ![r] = row[r]]
BY DEF FieldsInv, FieldTypes, Enc!TypeOK

LEMMA SkipKeeps ==
  ASSUME Enc!FieldEncryptionAssumption, FieldsInv, NEW r \in Enc!Row, Enc!Skip(r)
  PROVE  FieldsInv'
<1>1. /\ r \in field_run.batch /\ ~Enc!ToUpdate(r) /\ field_run' = Enc!Without(r)
      /\ UNCHANGED <<row, inserted, keys, verified, failures>>
  BY DEF Enc!Skip
<1>2. row' = [row EXCEPT ![r] = row[r]] /\ failures' \in 0..FieldFailures
  BY <1>1, RowKnown
<1>3. PICK v \in Enc!Values : v = row[r]
  BY <1>1, RowKnown
<1>4. PICK x \in ScriptState : x = Enc!Without(r)
  BY <1>1, WithoutRow
<1>5. RowLeft(x, r) /\ x.updated = field_run.updated /\ x.failed = field_run.failed
  BY <1>1, <1>4, WithoutRow
<1>6. field_run' = x /\ row' = [row EXCEPT ![r] = v]
  BY <1>1, <1>2, <1>3, <1>4
<1>7. QED
  BY <1>1, <1>2, <1>3, <1>5, <1>6, RowDone

LEMMA UpdateKeeps ==
  ASSUME Enc!FieldEncryptionAssumption, FieldsInv, NEW r \in Enc!Row, Enc!Update(r)
  PROVE  FieldsInv'
<1>1. /\ r \in field_run.batch /\ Enc!ToUpdate(r) /\ field_run' = [Enc!Without(r) EXCEPT !.updated = @ + 1]
      /\ row' = (IF field_run.dry \/ row[r] = "none" THEN row ELSE [row EXCEPT ![r] = Enc!Target])
      /\ UNCHANGED <<inserted, keys, verified, failures>>
  BY DEF Enc!Update
<1>2. PICK y \in ScriptState : y = Enc!Without(r)
  BY <1>1, WithoutRow
<1>3. RowLeft(y, r) /\ y.updated = field_run.updated /\ y.failed = field_run.failed
  BY <1>1, <1>2, WithoutRow
<1>4. PICK n \in Nat : n = field_run.updated + 1
  BY DEF FieldsInv, FieldTypes, ScriptState
<1>5. PICK x \in ScriptState : x = [y EXCEPT !.updated = n]
  BY DEF ScriptState
<1>6. field_run' = x
  <2>1. field_run' = [y EXCEPT !.updated = y.updated + 1]
    BY <1>1, <1>2, Zenon
  <2>2. QED
    BY <1>3, <1>4, <1>5, <2>1
<1>7. RowLeft(x, r) /\ x.updated = field_run.updated + 1 /\ x.failed = field_run.failed
  BY <1>3, <1>4, <1>5 DEF ScriptState, RowLeft
<1>8. PICK v \in Enc!Values : /\ row' = [row EXCEPT ![r] = v]
                              /\ IF field_run.dry \/ row[r] = "none" THEN v = row[r] ELSE v = Enc!Target
  <2>1. Enc!Target \in Enc!Values
    BY DEF Enc!Target, Enc!Values
  <2>2. row[r] \in Enc!Values /\ row = [row EXCEPT ![r] = row[r]]
    BY <1>1, RowKnown
  <2>3. QED
    BY <1>1, <2>1, <2>2
<1>9. Clean' => v \in {"none", "new"}
  <2>1. field_run.updated \in Nat
    BY DEF FieldsInv, FieldTypes, ScriptState
  <2>2. Clean' => field_run.rotation /\ ~field_run.dry
    BY <1>6, <1>7, <2>1 DEF Clean, RowLeft
  <2>3. QED
    BY <1>8, <2>2 DEF Enc!Target
<1>10. v = row[r] \/ (v = Enc!Target /\ ~field_run.dry)
  BY <1>8
<1>11. failures' \in 0..FieldFailures
  BY <1>1, RowKnown
<1>12. QED
  BY <1>1, <1>6, <1>7, <1>8, <1>9, <1>10, <1>11, RowDone

LEMMA UpdateFailsKeeps ==
  ASSUME Enc!FieldEncryptionAssumption, FieldsInv, NEW r \in Enc!Row, Enc!UpdateFails(r)
  PROVE  FieldsInv'
<1>1. /\ r \in field_run.batch /\ Enc!ToUpdate(r) /\ field_run' = [Enc!Without(r) EXCEPT !.failed = @ + 1]
      /\ failures < FieldFailures /\ failures' = failures + 1
      /\ UNCHANGED <<row, inserted, keys, verified>>
  BY DEF Enc!UpdateFails, Enc!Failure
<1>2. PICK y \in ScriptState : y = Enc!Without(r)
  BY <1>1, WithoutRow
<1>3. RowLeft(y, r) /\ y.updated = field_run.updated /\ y.failed = field_run.failed
  BY <1>1, <1>2, WithoutRow
<1>4. PICK n \in Nat : n = field_run.failed + 1
  BY DEF FieldsInv, FieldTypes, ScriptState
<1>5. PICK x \in ScriptState : x = [y EXCEPT !.failed = n]
  BY DEF ScriptState
<1>6. field_run' = x
  <2>1. field_run' = [y EXCEPT !.failed = y.failed + 1]
    BY <1>1, <1>2, Zenon
  <2>2. QED
    BY <1>3, <1>4, <1>5, <2>1
<1>7. RowLeft(x, r) /\ x.updated = field_run.updated /\ x.failed = field_run.failed + 1
  BY <1>3, <1>4, <1>5 DEF ScriptState, RowLeft
<1>8. ~Clean'
  <2>1. field_run.failed \in Nat
    BY DEF FieldsInv, FieldTypes, ScriptState
  <2>2. QED
    BY <1>6, <1>7, <2>1 DEF Clean
<1>9. failures' \in 0..FieldFailures
  BY <1>1, RowKnown DEF Enc!FieldEncryptionAssumption
<1>10. PICK v \in Enc!Values : v = row[r]
  BY <1>1, RowKnown
<1>11. row' = [row EXCEPT ![r] = v]
  BY <1>1, <1>10, RowKnown
<1>12. QED
  BY <1>1, <1>6, <1>7, <1>8, <1>9, <1>10, <1>11, RowDone

LEMMA InterruptKeeps ==
  ASSUME Enc!FieldEncryptionAssumption, FieldsInv, Enc!Interrupt
  PROVE  FieldsInv'
<1>1. /\ field_run' = Enc!NoScript /\ failures < FieldFailures /\ failures' = failures + 1
      /\ UNCHANGED <<row, inserted, keys, verified>>
  BY DEF Enc!Interrupt, Enc!Failure
<1>2. /\ field_run' \in ScriptState /\ field_run'.step = "none" /\ ~field_run'.rotation /\ field_run'.batch = {}
  BY <1>1, NoScriptFields
<1>3. FieldTypes'
  BY <1>1, <1>2 DEF FieldsInv, FieldTypes, Enc!TypeOK, ScriptState, Enc!FieldEncryptionAssumption
<1>4. QED
  BY <1>1, <1>2, <1>3 DEF FieldsInv, Rotating, Scanned, Clean, Checked

LEMMA FieldsStep ==
  ASSUME Enc!FieldEncryptionAssumption, FieldsInv, [Enc!Next]_fieldVars
  PROVE  FieldsInv'
<1>1. CASE UNCHANGED fieldVars
  BY <1>1 DEF fieldVars, FieldsInv, FieldTypes, Enc!TypeOK, Rotating, Scanned, Clean, Settled, Checked
<1>2. QED
  BY <1>1, InsertKeeps, KeysChange, StartKeeps, ReadBatchKeeps, InterruptKeeps, RowDeleteKeeps,
    SkipKeeps, UpdateKeeps, UpdateFailsKeeps DEF Enc!Next

LEMMA FieldsHold ==
  ASSUME FieldsInv
  PROVE  Enc!EveryServerReads /\ Enc!CleanRunMigrates
<1>1. ASSUME NEW s \in FieldServer, NEW r \in Enc!Row
      PROVE  \/ Enc!Decryptable(keys[s], r)
             \/ keys[s] = "old" /\ row[r] = "new"
             \/ row[r] = "plain" /\ r \in FieldLookalike
  <2>1. keys[s] \in {"old", "dual", "new"} /\ row[r] \in Enc!Values
    BY DEF FieldsInv, FieldTypes, Enc!TypeOK
  <2>2. keys[s] = "new" => row[r] # "old"
    BY DEF FieldsInv, Checked
  <2>3. CASE row[r] = "none"
    BY <2>3 DEF Enc!Decryptable
  <2>4. CASE row[r] = "plain"
    BY <2>4 DEF Enc!Decryptable
  <2>5. CASE row[r] = "old"
    BY <2>1, <2>2, <2>5 DEF Enc!Decryptable
  <2>6. CASE row[r] = "new"
    BY <2>1, <2>6 DEF Enc!Decryptable
  <2>7. QED
    BY <2>1, <2>3, <2>4, <2>5, <2>6 DEF Enc!Values
<1>2. Enc!CleanRunMigrates
  BY DEF FieldsInv, FieldTypes, Scanned, Clean, Settled, Enc!CleanRunMigrates
<1>3. QED
  BY <1>1, <1>2 DEF Enc!EveryServerReads

----
(* Deployments *)

LEMMA DepSizes ==
  /\ \A S : Dep!IsFiniteSet(S) <=> IsFiniteSet(S)
  /\ \A S : Dep!Cardinality(S) = Cardinality(S)
BY Zenon DEF Dep!IsFiniteSet, Dep!Cardinality, IsFiniteSet, Cardinality

\* The steps of a deployment before and after its trustline is in the log, and of a rollback.
Early == {"trust?", "trust_load", "trust"}
Later == {"supply?", "issue_load", "issue", "init", "write", "verify"}
Back == {"burn?", "burn_load", "burn", "remove?", "remove_load", "remove", "finish"}
Issues == {"issue_load", "issue"}
Steps == {"none"} \cup Early \cup Later \cup Back

DeployState == [step : Steps, id : 0..DeployRuns, log : Dep!Log, fresh : BOOLEAN, amount : Nat, seen : BOOLEAN]

ScriptTypes ==
  /\ Dep!TypeOK /\ deploy \in [DeployScript -> DeployState]
  /\ late \subseteq [kind : Dep!Kinds, amount : Nat] /\ Dep!IsFiniteSet(late)
  /\ Len(logs) <= started

\* The supplies there are and those on their way are accounted for, ...
Issuing == {q \in DeployScript : deploy[q].step \in Issues}
LateIssues == {t \in late : t.kind = "issue"}
SupplyCounted == holding + Dep!Cardinality(Issuing) + Dep!Cardinality(LateIssues) <= 1 + overlaps

\* ... a deployment about to write its state has a supply, ...
Backed ==
  ~excused => /\ \A s \in DeployScript : deploy[s].step = "write" => holding > 0
              /\ stateFile # 0 => holding > 0 \/ \E s \in DeployScript : deploy[s].step \in Back

\* ... and no log of a deployment that trusted something says success while it is the newest:
\* a script with a trustline in its log finds one in the file, whoever else writes it.
Kept(log, id, newest) ==
  /\ log.supply # "none" => log.trust # "none"
  /\ log.outcome = "success" /\ log.trust # "none" => id < newest
InHand(s) ==
  /\ deploy[s].id \in DOMAIN logs
  /\ deploy[s].seen => deploy[s].id < Len(logs)
  /\ deploy[s].step \in Early =>
       /\ deploy[s].log = Dep!NewLog /\ logs[deploy[s].id].trust = "none"
       /\ \A r \in DeployScript \ {s} : deploy[r].step # "none" => deploy[r].id # deploy[s].id
  /\ deploy[s].step \notin Early =>
       /\ deploy[s].log.trust # "none" /\ logs[deploy[s].id].trust # "none"
       /\ Kept(deploy[s].log, deploy[s].id, Len(logs))
LogsKept ==
  /\ \A id \in DOMAIN logs : Kept(logs[id], id, Len(logs))
  /\ \A s \in DeployScript : deploy[s].step # "none" => InHand(s)

DeploymentInv == ScriptTypes /\ SupplyCounted /\ Backed /\ LogsKept

\* A script that moves, while the others at most lose what they had loaded.
Same(q) ==
  /\ deploy'[q].step = deploy[q].step /\ deploy'[q].id = deploy[q].id
  /\ deploy'[q].log = deploy[q].log /\ deploy'[q].seen = deploy[q].seen
Moves(s, x) ==
  deploy' \in [DeployScript -> DeployState] /\ deploy'[s] = x /\ \A q \in DeployScript \ {s} : Same(q)

LEMMA MovesBy ==
  ASSUME ScriptTypes, NEW s \in DeployScript, NEW x \in DeployState, deploy' = [deploy EXCEPT ![s] = x]
  PROVE  Moves(s, x)
BY DEF ScriptTypes, Moves, Same

LEMMA NewLogFields ==
  Dep!NewLog \in Dep!Log /\ Dep!NewLog.outcome = "in_progress" /\ Dep!NewLog.trust = "none" /\ Dep!NewLog.supply = "none"
BY DEF Dep!NewLog, Dep!Log

LEMMA WorkingFields ==
  ASSUME NEW id \in 0..DeployRuns, NEW log \in Dep!Log, NEW step \in Steps
  PROVE  /\ Dep!Working(id, log, step) \in DeployState /\ Dep!Working(id, log, step).step = step
         /\ Dep!Working(id, log, step).id = id /\ Dep!Working(id, log, step).log = log
         /\ ~Dep!Working(id, log, step).seen
BY DEF Dep!Working, DeployState

LEMMA DoneFields ==
  ASSUME Dep!DeploymentAssumption
  PROVE  Dep!Done \in DeployState /\ Dep!Done.step = "none"
BY WorkingFields, NewLogFields DEF Dep!Done, Steps, Dep!DeploymentAssumption

LEMMA DeploymentInit ==
  ASSUME Dep!DeploymentAssumption, Dep!Init
  PROVE  DeploymentInv
<1>1. /\ deploy \in [DeployScript -> DeployState] /\ \A s \in DeployScript : deploy[s].step = "none"
      /\ trustline = FALSE /\ holding = 0 /\ stateFile = 0 /\ logs = <<>> /\ late = {}
      /\ started = 0 /\ deploy_mishaps = 0 /\ overlaps = 0 /\ excused = FALSE
  BY DoneFields DEF Dep!Init
<1>2. logs \in Seq(Dep!Log) /\ Len(logs) = 0 /\ DOMAIN logs = {}
  BY <1>1
<1>3. Dep!TypeOK
  <2>1. \A s \in DeployScript : deploy[s].log \in Dep!Log /\ deploy[s].id \in 0..DeployRuns
    BY <1>1 DEF DeployState
  <2>2. 0 \in 0..DeployRuns /\ 0 \in 0..DeployMishaps /\ 0 \in Nat /\ 0 <= DeployRuns /\ ~(0 > 0)
    BY DEF Dep!DeploymentAssumption
  <2>3. QED
    BY <1>1, <1>2, <2>1, <2>2 DEF Dep!TypeOK
<1>4. ScriptTypes
  BY <1>1, <1>2, <1>3, FS_EmptySet, DepSizes DEF ScriptTypes
<1>5. Issuing = {} /\ LateIssues = {}
  BY <1>1 DEF Issuing, LateIssues, Issues
<1>6. SupplyCounted
  BY <1>1, <1>5, FS_EmptySet, DepSizes DEF SupplyCounted
<1>7. Backed /\ LogsKept
  BY <1>1, <1>2 DEF Backed, LogsKept
<1>8. QED
  BY <1>4, <1>6, <1>7 DEF DeploymentInv

----
(* The logs of deployments *)

\* Nothing is written: every script ends or goes on with the same log.
MovedOn(r) ==
  deploy'[r].step = "none" \/
    /\ deploy[r].step # "none" /\ deploy'[r].id = deploy[r].id /\ deploy'[r].log = deploy[r].log
    /\ deploy'[r].step \in Early <=> deploy[r].step \in Early
    /\ deploy'[r].seen => deploy[r].seen \/ deploy[r].id < Len(logs)

LEMMA SameMovesOn ==
  ASSUME NEW r \in DeployScript, Same(r)
  PROVE  MovedOn(r)
BY DEF Same, MovedOn

LEMMA LogsStay ==
  ASSUME LogsKept, logs' = logs, \A r \in DeployScript : MovedOn(r)
  PROVE  LogsKept'
<1>1. ASSUME NEW s \in DeployScript, deploy'[s].step # "none" PROVE InHand(s)'
  <2>1. InHand(s) /\ MovedOn(s)
    BY <1>1 DEF LogsKept, MovedOn
  <2>2. \A r \in DeployScript : deploy'[r].step # "none" => deploy[r].step # "none" /\ deploy'[r].id = deploy[r].id
    BY DEF MovedOn
  <2>3. QED
    BY <1>1, <2>1, <2>2 DEF InHand, MovedOn, Kept
<1>2. QED
  BY <1>1 DEF LogsKept, Kept

\* A script writes its log, and ends or goes on with it.
LEMMA LogWritten ==
  ASSUME ScriptTypes, LogsKept, NEW s \in DeployScript, NEW x \in DeployState, NEW log \in Dep!Log,
         deploy[s].step # "none", logs' = [logs EXCEPT ![deploy[s].id] = log], Moves(s, x),
         Kept(log, deploy[s].id, Len(logs)),
         deploy[s].step \in Early \/ log.trust # "none",
         x.step = "none" \/
           (x.id = deploy[s].id /\ x.log = log /\ ~x.seen /\ x.step \notin Early /\ log.trust # "none")
  PROVE  LogsKept' /\ logs' \in Seq(Dep!Log) /\ Len(logs') = Len(logs)
<1>1. PICK id \in DOMAIN logs : id = deploy[s].id
  BY DEF LogsKept, InHand
<1>2. logs \in Seq(Dep!Log)
  BY DEF ScriptTypes, Dep!TypeOK
<1>3. /\ logs' \in Seq(Dep!Log) /\ Len(logs') = Len(logs) /\ DOMAIN logs' = DOMAIN logs
      /\ logs'[id] = log /\ \A i \in DOMAIN logs \ {id} : logs'[i] = logs[i]
  BY <1>1, <1>2
<1>4. \A i \in DOMAIN logs' : Kept(logs'[i], i, Len(logs'))
  BY <1>1, <1>3 DEF LogsKept
<1>5. InHand(s)
  BY DEF LogsKept
<1>6. x.step # "none" => InHand(s)'
  BY <1>1, <1>3 DEF InHand, Moves
<1>7. ASSUME NEW q \in DeployScript \ {s}, deploy'[q].step # "none" PROVE InHand(q)'
  <2>1. InHand(q) /\ Same(q) /\ deploy[q].step # "none"
    BY <1>7 DEF LogsKept, Moves, Same
  <2>2. deploy[q].id = id => deploy[s].step \notin Early /\ deploy[q].step \notin Early /\ log.trust # "none"
    BY <1>1, <1>5, <2>1 DEF InHand
  <2>3. \A r \in DeployScript : deploy'[r].step # "none" => deploy[r].step # "none" /\ deploy'[r].id = deploy[r].id
    BY DEF Moves, Same
  <2>4. deploy'[q].id \in DOMAIN logs' /\ (deploy'[q].seen => deploy'[q].id < Len(logs'))
    BY <1>3, <2>1 DEF InHand, Same
  <2>5. CASE deploy[q].step \in Early
    BY <1>3, <2>1, <2>2, <2>3, <2>4, <2>5 DEF InHand, Same
  <2>6. CASE deploy[q].step \notin Early
    BY <1>3, <2>1, <2>2, <2>4, <2>6 DEF InHand, Same
  <2>7. QED
    BY <2>5, <2>6
<1>8. QED
  BY <1>3, <1>4, <1>6, <1>7 DEF LogsKept, Moves

\* A log is begun: by a dry run, or by a script that starts with it.
LEMMA LogBegun ==
  ASSUME ScriptTypes, LogsKept, NEW log \in Dep!Log, logs' = Append(logs, log),
         log.trust = "none", log.supply = "none", NEW S, S \subseteq DeployScript,
         \A q \in DeployScript \ S : deploy'[q] = deploy[q],
         \A s \in S : /\ deploy[s].step = "none" /\ deploy'[s].step \in Early
                      /\ deploy'[s].id = Len(logs) + 1 /\ deploy'[s].log = Dep!NewLog /\ ~deploy'[s].seen,
         \A r, s \in S : r = s
  PROVE  LogsKept' /\ logs' \in Seq(Dep!Log) /\ Len(logs') = Len(logs) + 1
<1>1. logs \in Seq(Dep!Log) /\ Len(logs) \in Nat /\ DOMAIN logs = 1..Len(logs)
  BY DEF ScriptTypes, Dep!TypeOK
<1>2. /\ logs' \in Seq(Dep!Log) /\ Len(logs') = Len(logs) + 1 /\ DOMAIN logs' = 1..(Len(logs) + 1)
      /\ logs'[Len(logs) + 1] = log /\ \A i \in DOMAIN logs : logs'[i] = logs[i]
  BY <1>1
<1>3. ASSUME NEW i \in DOMAIN logs' PROVE Kept(logs'[i], i, Len(logs'))
  <2>1. CASE i = Len(logs) + 1
    BY <1>2, <2>1 DEF Kept
  <2>2. CASE i # Len(logs) + 1
    <3>1. i \in DOMAIN logs
      BY <1>1, <1>2, <2>2
    <3>2. QED
      BY <1>1, <1>2, <3>1 DEF LogsKept, Kept
  <2>3. QED
    BY <2>1, <2>2
<1>4. \A q \in DeployScript : deploy[q].step # "none" => deploy[q].id \in DOMAIN logs /\ deploy[q].id # Len(logs) + 1
  BY <1>1 DEF LogsKept, InHand
<1>5. ASSUME NEW s \in S PROVE InHand(s)'
  <2>1. deploy'[s].id \in DOMAIN logs' /\ logs'[deploy'[s].id].trust = "none"
    BY <1>1, <1>2
  <2>2. \A r \in DeployScript \ {s} : deploy'[r].step # "none" => deploy'[r].id # deploy'[s].id
    BY <1>4
  <2>3. QED
    BY <2>1, <2>2 DEF InHand
<1>6. ASSUME NEW q \in DeployScript \ S, deploy'[q].step # "none" PROVE InHand(q)'
  <2>1. InHand(q) /\ deploy'[q] = deploy[q] /\ deploy[q].id \in DOMAIN logs /\ deploy[q].id < Len(logs) + 1
    BY <1>1, <1>4, <1>6 DEF LogsKept
  <2>2. logs'[deploy'[q].id] = logs[deploy[q].id] /\ deploy'[q].id \in DOMAIN logs'
    BY <1>1, <1>2, <2>1
  <2>3. deploy[q].id < Len(logs) => deploy[q].id < Len(logs')
    BY <1>1, <1>2, <2>1
  <2>4. \A r \in DeployScript \ {q} : deploy'[r].step # "none" /\ deploy'[q].step \in Early => deploy'[r].id # deploy'[q].id
    BY <1>4, <1>6, <2>1 DEF InHand
  <2>5. QED
    BY <2>1, <2>2, <2>3, <2>4 DEF InHand, Kept
<1>7. QED
  BY <1>2, <1>3, <1>5, <1>6 DEF LogsKept

----
(* The supply and the state file *)

LEMMA IssuingCounted ==
  ASSUME Dep!DeploymentAssumption, NEW s \in DeployScript, NEW x, Moves(s, x)
  PROVE  /\ Dep!Cardinality(Issuing) \in Nat /\ Dep!Cardinality(Issuing') \in Nat
         /\ x.step \notin Issues /\ deploy[s].step \notin Issues => Dep!Cardinality(Issuing') = Dep!Cardinality(Issuing)
         /\ x.step \in Issues /\ deploy[s].step \in Issues => Dep!Cardinality(Issuing') = Dep!Cardinality(Issuing)
         /\ x.step \in Issues /\ deploy[s].step \notin Issues => Dep!Cardinality(Issuing') = Dep!Cardinality(Issuing) + 1
         /\ x.step \notin Issues /\ deploy[s].step \in Issues => Dep!Cardinality(Issuing) = Dep!Cardinality(Issuing') + 1
         /\ deploy[s].step \notin Issues => Dep!BeingIssued(s) = Dep!Cardinality(Issuing) + Dep!Cardinality(LateIssues)
<1>1. Issuing \subseteq DeployScript /\ Issuing' \subseteq DeployScript /\ Dep!IsFiniteSet(DeployScript)
  BY DEF Issuing, Dep!DeploymentAssumption
<1>2. \A q \in DeployScript \ {s} : q \in Issuing' <=> q \in Issuing
  BY DEF Moves, Same, Issuing
<1>3. (s \in Issuing <=> deploy[s].step \in Issues) /\ (s \in Issuing' <=> x.step \in Issues)
  BY DEF Issuing, Moves
<1>4. /\ s \in Issuing /\ s \in Issuing' => Issuing' = Issuing
      /\ s \notin Issuing /\ s \notin Issuing' => Issuing' = Issuing
      /\ s \notin Issuing /\ s \in Issuing' => Issuing' = Issuing \cup {s} /\ s \in DeployScript \ Issuing
      /\ s \in Issuing /\ s \notin Issuing' => Issuing = Issuing' \cup {s} /\ s \in DeployScript \ Issuing'
  BY <1>1, <1>2
<1>5. PICK I \in SUBSET DeployScript : I = Issuing
  BY <1>1
<1>6. PICK J \in SUBSET DeployScript : J = Issuing'
  BY <1>1
<1>7. /\ Dep!Cardinality(I) \in Nat /\ Dep!Cardinality(J) \in Nat
      /\ \A r \in DeployScript \ I : Dep!Cardinality(I \cup {r}) = Dep!Cardinality(I) + 1
      /\ \A r \in DeployScript \ J : Dep!Cardinality(J \cup {r}) = Dep!Cardinality(J) + 1
  BY <1>1, PartCounted, DepSizes
<1>8. deploy[s].step \notin Issues => Dep!BeingIssued(s) = Dep!Cardinality(Issuing) + Dep!Cardinality(LateIssues)
  <2>1. deploy[s].step \notin Issues => {q \in DeployScript \ {s} : Dep!At(q, {"issue_load", "issue"})} = Issuing
    BY DEF Dep!At, Issuing, Issues
  <2>2. QED
    BY <2>1, Zenon DEF Dep!BeingIssued, LateIssues
<1>9. QED
  BY <1>3, <1>4, <1>5, <1>6, <1>7, <1>8

LEMMA LateCounted ==
  ASSUME Dep!IsFiniteSet(late)
  PROVE  /\ Dep!Cardinality(LateIssues) \in Nat
         /\ \A t : Dep!IsFiniteSet(late \cup {t})
         /\ \A t : late' = late \cup {t} =>
              /\ Dep!Cardinality(LateIssues') \in Nat /\ Dep!Cardinality(LateIssues') <= Dep!Cardinality(LateIssues) + 1
              /\ t.kind # "issue" => LateIssues' = LateIssues
<1>1. LateIssues \subseteq late /\ Dep!IsFiniteSet(LateIssues)
  BY FS_Subset, DepSizes DEF LateIssues
<1>2. Dep!Cardinality(LateIssues) \in Nat
  BY <1>1, FS_CardinalityType, DepSizes
<1>3. ASSUME NEW t PROVE Dep!IsFiniteSet(late \cup {t})
  BY FS_AddElement, DepSizes
<1>4. ASSUME NEW t, late' = late \cup {t}
      PROVE  /\ Dep!Cardinality(LateIssues') \in Nat /\ Dep!Cardinality(LateIssues') <= Dep!Cardinality(LateIssues) + 1
             /\ t.kind # "issue" => LateIssues' = LateIssues
  <2>1. LateIssues' = LateIssues \/ (LateIssues' = LateIssues \cup {t} /\ t.kind = "issue")
    BY <1>4 DEF LateIssues
  <2>2. QED
    BY <1>1, <2>1, OneMoreAtMost, DepSizes
<1>5. QED
  BY <1>2, <1>3, <1>4

\* What a step of script s may do beside the ledger: leave what it sent behind, ...
LateGrows(s, x) ==
  \/ late' = late
  \/ /\ x.step = "none" /\ deploy[s].step \in Dep!Kinds
     /\ late' = late \cup {[kind |-> deploy[s].step, amount |-> deploy[s].amount]}
\* ... take up the issue of a supply where it finds none, ...
Overlapping(s, x) ==
  \/ overlaps' = overlaps /\ (x.step \in Issues => deploy[s].step \in Issues)
  \/ /\ holding = 0 /\ deploy[s].step \notin Issues /\ late' = late
     /\ overlaps' = overlaps + Dep!BeingIssued(s)
\* ... and write the state it has a supply for, or take it away.
StateMoves(s, x) ==
  /\ stateFile' = stateFile \/ stateFile' = 0 \/ (stateFile' \in 0..DeployRuns /\ deploy[s].step = "write")
  /\ excused' \in BOOLEAN /\ (excused => excused')
  /\ x.step = "write" => holding > 0
  /\ deploy[s].step \in Back /\ ~excused' => x.step \in Back \/ stateFile' = 0

LEMMA LedgerStays ==
  ASSUME Dep!DeploymentAssumption, DeploymentInv, NEW s \in DeployScript, NEW x \in DeployState, Moves(s, x),
         UNCHANGED <<trustline, holding>>,
         LateGrows(s, x), Overlapping(s, x), StateMoves(s, x),
         deploy_mishaps' \in 0..DeployMishaps, started' \in 0..DeployRuns, Len(logs') <= started', LogsKept',
         logs' \in Seq(Dep!Log)
  PROVE  DeploymentInv'
<1>1. /\ Dep!IsFiniteSet(late) /\ holding \in Nat /\ overlaps \in Nat /\ late \subseteq [kind : Dep!Kinds, amount : Nat]
      /\ deploy[s] \in DeployState
  BY DEF DeploymentInv, ScriptTypes, Dep!TypeOK
<1>2. /\ Dep!Cardinality(Issuing) \in Nat /\ Dep!Cardinality(Issuing') \in Nat
      /\ Dep!Cardinality(LateIssues) \in Nat
  BY <1>1, IssuingCounted, LateCounted
<1>3. Dep!IsFiniteSet(late') /\ late' \subseteq [kind : Dep!Kinds, amount : Nat]
  <2>1. deploy[s].amount \in Nat
    BY <1>1 DEF DeployState
  <2>2. CASE late' = late
    BY <1>1, <2>2
  <2>3. ASSUME deploy[s].step \in Dep!Kinds, NEW t, t = [kind |-> deploy[s].step, amount |-> deploy[s].amount],
               late' = late \cup {t}
        PROVE  Dep!IsFiniteSet(late') /\ late' \subseteq [kind : Dep!Kinds, amount : Nat]
    <3>1. t \in [kind : Dep!Kinds, amount : Nat]
      BY <2>1, <2>3
    <3>2. QED
      BY <1>1, <2>3, <3>1, LateCounted
  <2>4. QED
    BY <2>2, <2>3 DEF LateGrows
<1>4. overlaps' \in Nat /\ overlaps <= overlaps'
  BY <1>1, <1>2, IssuingCounted DEF Overlapping
<1>5. ScriptTypes'
  <2>1. \A q \in DeployScript : deploy'[q].log \in Dep!Log /\ deploy'[q].id \in 0..DeployRuns
    BY DEF Moves, DeployState
  <2>2. \A t \in late' : t.kind \in Dep!Kinds
    BY <1>3
  <2>3. stateFile' \in 0..DeployRuns /\ Len(logs') <= DeployRuns /\ excused' \in BOOLEAN
    BY DEF StateMoves, DeploymentInv, ScriptTypes, Dep!TypeOK, Dep!DeploymentAssumption
  <2>4. Dep!TypeOK'
    BY <1>4, <2>1, <2>2, <2>3 DEF Dep!TypeOK, DeploymentInv, ScriptTypes
  <2>5. QED
    BY <1>3, <2>4 DEF ScriptTypes, Moves
<1>6. SupplyCounted'
  <2>1. SupplyCounted
    BY DEF DeploymentInv
  <2>2. CASE overlaps' = overlaps /\ late' = late /\ (x.step \in Issues => deploy[s].step \in Issues)
    <3>1. Dep!Cardinality(Issuing') = Dep!Cardinality(Issuing) \/ Dep!Cardinality(Issuing) = Dep!Cardinality(Issuing') + 1
      BY <2>2, IssuingCounted
    <3>2. LateIssues' = LateIssues
      BY <2>2 DEF LateIssues
    <3>3. QED
      BY <1>1, <1>2, <2>1, <2>2, <3>1, <3>2, SMTT(30) DEF SupplyCounted
  <2>3. CASE holding = 0 /\ deploy[s].step \notin Issues /\ late' = late /\ overlaps' = overlaps + Dep!BeingIssued(s)
    <3>1. Dep!Cardinality(Issuing') = Dep!Cardinality(Issuing) \/ Dep!Cardinality(Issuing') = Dep!Cardinality(Issuing) + 1
      BY <2>3, IssuingCounted
    <3>2. LateIssues' = LateIssues
      BY <2>3 DEF LateIssues
    <3>3. Dep!BeingIssued(s) = Dep!Cardinality(Issuing) + Dep!Cardinality(LateIssues)
      BY <2>3, IssuingCounted
    <3>4. QED
      BY <1>1, <1>2, <2>3, <3>1, <3>2, <3>3, SMTT(30) DEF SupplyCounted
  <2>4. CASE overlaps' = overlaps /\ x.step = "none" /\ deploy[s].step \in Dep!Kinds
             /\ late' = late \cup {[kind |-> deploy[s].step, amount |-> deploy[s].amount]}
    <3>1. PICK t : t = [kind |-> deploy[s].step, amount |-> deploy[s].amount]
      OBVIOUS
    <3>2. /\ late' = late \cup {t} /\ t.kind = deploy[s].step /\ x.step \notin Issues
      BY <2>4, <3>1 DEF Issues
    <3>3. CASE deploy[s].step = "issue"
      <4>1. Dep!Cardinality(LateIssues') \in Nat /\ Dep!Cardinality(LateIssues') <= Dep!Cardinality(LateIssues) + 1
        BY <1>1, <3>2, LateCounted
      <4>2. Dep!Cardinality(Issuing) = Dep!Cardinality(Issuing') + 1
        BY <3>2, <3>3, IssuingCounted DEF Issues
      <4>3. QED
        BY <1>1, <1>2, <2>1, <2>4, <4>1, <4>2, SMTT(30) DEF SupplyCounted
    <3>4. CASE deploy[s].step # "issue"
      <4>1. LateIssues' = LateIssues
        BY <1>1, <3>2, <3>4, LateCounted
      <4>2. Dep!Cardinality(Issuing') = Dep!Cardinality(Issuing)
        BY <2>4, <3>2, <3>4, IssuingCounted DEF Issues, Dep!Kinds
      <4>3. QED
        BY <1>1, <1>2, <2>1, <2>4, <4>1, <4>2 DEF SupplyCounted
    <3>5. QED
      BY <3>3, <3>4
  <2>5. QED
    BY <2>2, <2>3, <2>4 DEF LateGrows, Overlapping, Issues
<1>7. Backed'
  <2>1. SUFFICES ASSUME ~excused' PROVE /\ \A q \in DeployScript : deploy'[q].step = "write" => holding > 0
                                        /\ stateFile' # 0 => holding > 0 \/ \E q \in DeployScript : deploy'[q].step \in Back
    BY DEF Backed
  <2>2. /\ \A q \in DeployScript : deploy[q].step = "write" => holding > 0
        /\ stateFile # 0 => holding > 0 \/ \E q \in DeployScript : deploy[q].step \in Back
    BY <2>1 DEF DeploymentInv, Backed, StateMoves
  <2>3. \A q \in DeployScript : deploy'[q].step = "write" => holding > 0
    BY <2>2 DEF Moves, Same, StateMoves
  <2>4. ASSUME stateFile' # 0, ~(holding > 0) PROVE \E q \in DeployScript : deploy'[q].step \in Back
    <3>1. stateFile' = stateFile
      BY <2>2, <2>4 DEF StateMoves
    <3>2. PICK q \in DeployScript : deploy[q].step \in Back
      BY <2>2, <2>4, <3>1
    <3>3. deploy'[q].step \in Back
      BY <2>1, <2>4, <3>2 DEF StateMoves, Moves, Same
    <3>4. QED
      BY <3>3
  <2>5. QED
    BY <2>3, <2>4
<1>8. QED
  BY <1>5, <1>6, <1>7 DEF DeploymentInv

----
(* The steps of a deploy *)

LEMMA MishapBounded ==
  ASSUME Dep!DeploymentAssumption, DeploymentInv, Dep!Mishap \/ deploy_mishaps' = deploy_mishaps
  PROVE  deploy_mishaps' \in 0..DeployMishaps
BY DEF Dep!Mishap, Dep!DeploymentAssumption, DeploymentInv, ScriptTypes, Dep!TypeOK

LEMMA GoesTo ==
  ASSUME DeploymentInv, NEW s \in DeployScript, NEW step \in Steps, Dep!GoTo(s, step)
  PROVE  \E x \in DeployState :
           /\ Moves(s, x) /\ x.step = step /\ x.id = deploy[s].id /\ x.log = deploy[s].log
           /\ x.seen = deploy[s].seen
<1>1. deploy[s] \in DeployState /\ ScriptTypes
  BY DEF DeploymentInv, ScriptTypes
<1>2. PICK x \in DeployState : x = [deploy[s] EXCEPT !.step = step]
  BY <1>1 DEF DeployState
<1>3. x.step = step /\ x.id = deploy[s].id /\ x.log = deploy[s].log /\ x.seen = deploy[s].seen
  BY <1>1, <1>2 DEF DeployState
<1>4. deploy' = [deploy EXCEPT ![s] = x]
  BY <1>2, Zenon DEF Dep!GoTo
<1>5. QED
  BY <1>1, <1>3, <1>4, MovesBy

\* A script goes on with the same log.
LEMMA GoesOnKeeps ==
  ASSUME Dep!DeploymentAssumption, DeploymentInv, NEW s \in DeployScript, NEW x \in DeployState, Moves(s, x),
         UNCHANGED <<trustline, holding, late, logs, started>>,
         deploy[s].step # "none", x.id = deploy[s].id, x.log = deploy[s].log,
         x.step \in Early <=> deploy[s].step \in Early,
         x.seen => deploy[s].seen \/ deploy[s].id < Len(logs),
         Overlapping(s, x), StateMoves(s, x), Dep!Mishap \/ deploy_mishaps' = deploy_mishaps
  PROVE  DeploymentInv'
<1>1. MovedOn(s)
  BY DEF MovedOn, Moves
<1>2. \A r \in DeployScript : MovedOn(r)
  BY <1>1, SameMovesOn DEF Moves
<1>3. LogsKept'
  BY <1>2, LogsStay DEF DeploymentInv
<1>4. /\ logs' \in Seq(Dep!Log) /\ Len(logs') <= started' /\ started' \in 0..DeployRuns /\ LateGrows(s, x)
      /\ deploy_mishaps' \in 0..DeployMishaps
  BY MishapBounded DEF DeploymentInv, ScriptTypes, Dep!TypeOK, LateGrows
<1>5. QED
  BY <1>3, <1>4, LedgerStays

\* A script writes its log and goes on, or ends.
LEMMA WritesKeeps ==
  ASSUME Dep!DeploymentAssumption, DeploymentInv, NEW s \in DeployScript, NEW x \in DeployState, Moves(s, x),
         NEW log \in Dep!Log, logs' = [logs EXCEPT ![deploy[s].id] = log],
         deploy[s].step # "none", Kept(log, deploy[s].id, Len(logs)),
         deploy[s].step \in Early \/ log.trust # "none",
         x.step = "none" \/
           (x.id = deploy[s].id /\ x.log = log /\ ~x.seen /\ x.step \notin Early /\ log.trust # "none"),
         UNCHANGED <<trustline, holding, overlaps, started>>,
         x.step \notin Issues, LateGrows(s, x), StateMoves(s, x), Dep!Mishap \/ deploy_mishaps' = deploy_mishaps
  PROVE  DeploymentInv'
<1>1. LogsKept' /\ logs' \in Seq(Dep!Log) /\ Len(logs') = Len(logs)
  BY LogWritten DEF DeploymentInv
<1>2. /\ Len(logs') <= started' /\ started' \in 0..DeployRuns /\ Overlapping(s, x)
      /\ deploy_mishaps' \in 0..DeployMishaps
  BY <1>1, MishapBounded DEF DeploymentInv, ScriptTypes, Dep!TypeOK, Overlapping
<1>3. QED
  BY <1>1, <1>2, LedgerStays

LEMMA PersistKeeps ==
  ASSUME Dep!DeploymentAssumption, DeploymentInv, NEW s \in DeployScript, NEW log \in Dep!Log,
         NEW step \in {"supply?", "init"}, Dep!Persist(s, log, step), deploy[s].step \in Early \cup Later,
         Kept(log, deploy[s].id, Len(logs)), log.trust # "none",
         UNCHANGED <<trustline, holding, late, stateFile, deploy_mishaps, started, overlaps, excused>>
  PROVE  DeploymentInv'
<1>1. deploy[s] \in DeployState /\ ScriptTypes
  BY DEF DeploymentInv, ScriptTypes
<1>2. PICK x \in DeployState : /\ x = Dep!Working(deploy[s].id, log, step) /\ x.step = step
                               /\ x.id = deploy[s].id /\ x.log = log /\ ~x.seen
  BY <1>1, WorkingFields DEF DeployState, Steps, Later
<1>3. deploy' = [deploy EXCEPT ![s] = x]
  BY <1>2, Zenon DEF Dep!Persist
<1>4. Moves(s, x)
  BY <1>1, <1>3, MovesBy
<1>5. logs' = [logs EXCEPT ![deploy[s].id] = log] /\ deploy[s].step # "none"
  BY DEF Dep!Persist, Early, Later
<1>6. StateMoves(s, x)
  BY <1>2 DEF StateMoves, Early, Later, Back, DeploymentInv, ScriptTypes, Dep!TypeOK
<1>7. LateGrows(s, x) /\ x.step \notin Issues /\ x.step \notin Early
  BY <1>2 DEF LateGrows, Issues, Early
<1>8. QED
  BY <1>2, <1>4, <1>5, <1>6, <1>7, WritesKeeps

LEMMA InHandKnown ==
  ASSUME DeploymentInv, NEW s \in DeployScript, deploy[s].step # "none"
  PROVE  /\ deploy[s] \in DeployState /\ deploy[s].log \in Dep!Log /\ InHand(s)
         /\ Kept(deploy[s].log, deploy[s].id, Len(logs))
         /\ deploy[s].step \in Early => deploy[s].log.outcome = "in_progress" /\ deploy[s].log.supply = "none"
BY NewLogFields DEF DeploymentInv, ScriptTypes, DeployState, LogsKept, InHand, Kept

LEMMA FinishKeeps ==
  ASSUME Dep!DeploymentAssumption, DeploymentInv, NEW s \in DeployScript,
         NEW outcome \in {"success", "failed", "rolled_back"}, Dep!Finish(s, outcome),
         deploy[s].step # "none", outcome = "success" => deploy[s].id < Len(logs),
         UNCHANGED <<trustline, holding, overlaps, started>>, LateGrows(s, Dep!Done),
         stateFile' = stateFile \/ stateFile' = 0,
         deploy[s].step \in Back => outcome = "failed" \/ stateFile' = 0,
         Dep!Mishap \/ deploy_mishaps' = deploy_mishaps
  PROVE  DeploymentInv'
<1>1. deploy[s].log \in Dep!Log /\ InHand(s) /\ Kept(deploy[s].log, deploy[s].id, Len(logs)) /\ ScriptTypes
  BY InHandKnown DEF DeploymentInv
<1>2. PICK log \in Dep!Log : log = [deploy[s].log EXCEPT !.outcome = outcome]
  BY <1>1 DEF Dep!Log
<1>3. log.outcome = outcome /\ log.trust = deploy[s].log.trust /\ log.supply = deploy[s].log.supply
  BY <1>1, <1>2 DEF Dep!Log
<1>4. logs' = [logs EXCEPT ![deploy[s].id] = log] /\ deploy' = [deploy EXCEPT ![s] = Dep!Done]
  BY <1>2, Zenon DEF Dep!Finish
<1>5. Dep!Done \in DeployState /\ Dep!Done.step = "none"
  BY DoneFields
<1>6. Moves(s, Dep!Done)
  BY <1>1, <1>4, <1>5, MovesBy
<1>7. excused' = (excused \/ (Dep!RollingBack(s) /\ outcome = "failed"))
  BY DEF Dep!Finish
<1>8. Dep!RollingBack(s) <=> deploy[s].step \in Back
  BY DEF Dep!RollingBack, Dep!At, Back
<1>9. StateMoves(s, Dep!Done)
  BY <1>5, <1>7, <1>8 DEF StateMoves, DeploymentInv, ScriptTypes, Dep!TypeOK
<1>10. Kept(log, deploy[s].id, Len(logs)) /\ (deploy[s].step \in Early \/ log.trust # "none")
  BY <1>1, <1>3 DEF Kept, InHand
<1>11. Dep!Done.step \notin Issues
  BY <1>5 DEF Issues
<1>12. QED
  BY <1>4, <1>5, <1>6, <1>9, <1>10, <1>11, WritesKeeps

LEMMA LoadKeeps ==
  ASSUME Dep!DeploymentAssumption, DeploymentInv, NEW s \in DeployScript, Dep!Load(s), UNCHANGED started
  PROVE  DeploymentInv'
<1>1. PICK kind \in Dep!Kinds : /\ deploy[s].step = Dep!Loading(kind)
                                /\ deploy' = [deploy EXCEPT ![s] = [@ EXCEPT !.step = kind, !.fresh = TRUE]]
  BY DEF Dep!Load, Dep!At
<1>2. UNCHANGED <<logs, stateFile, deploy_mishaps, trustline, holding, late, overlaps, excused>>
  BY DEF Dep!Load, Dep!LedgerUnchanged, Dep!HistoryUnchanged
<1>3. \/ kind = "trust" /\ deploy[s].step = "trust_load"
      \/ kind = "issue" /\ deploy[s].step = "issue_load"
      \/ kind = "burn" /\ deploy[s].step = "burn_load"
      \/ kind = "remove" /\ deploy[s].step = "remove_load"
  <2>1. kind = "trust" => Dep!Loading(kind) = "trust_load"
    BY Zenon DEF Dep!Loading
  <2>2. kind = "issue" => Dep!Loading(kind) = "issue_load"
    BY Zenon DEF Dep!Loading
  <2>3. kind = "burn" => Dep!Loading(kind) = "burn_load"
    BY Zenon DEF Dep!Loading
  <2>4. kind = "remove" => Dep!Loading(kind) = "remove_load"
    BY Zenon DEF Dep!Loading
  <2>5. QED
    BY <1>1, <2>1, <2>2, <2>3, <2>4 DEF Dep!Kinds
<1>4. deploy[s] \in DeployState /\ ScriptTypes /\ kind \in Steps /\ deploy[s].step # "none"
  BY <1>3 DEF DeploymentInv, ScriptTypes, Steps, Early, Later, Back
<1>5. PICK x \in DeployState : x = [deploy[s] EXCEPT !.step = kind, !.fresh = TRUE]
  BY <1>4 DEF DeployState
<1>6. x.step = kind /\ x.id = deploy[s].id /\ x.log = deploy[s].log /\ x.seen = deploy[s].seen
  BY <1>4, <1>5 DEF DeployState
<1>7. deploy' = [deploy EXCEPT ![s] = x]
  BY <1>1, <1>5, Zenon
<1>8. Moves(s, x)
  BY <1>4, <1>7, MovesBy
<1>9. /\ x.step \in Early <=> deploy[s].step \in Early
      /\ x.step \in Back <=> deploy[s].step \in Back
      /\ x.step \in Issues <=> deploy[s].step \in Issues
      /\ x.step # "write"
  BY <1>3, <1>6 DEF Early, Back, Issues
<1>10. Overlapping(s, x) /\ StateMoves(s, x)
  BY <1>2, <1>9 DEF Overlapping, StateMoves, DeploymentInv, ScriptTypes, Dep!TypeOK
<1>11. QED
  BY <1>2, <1>4, <1>6, <1>8, <1>9, <1>10, GoesOnKeeps

LEMMA SubmitRefusedKeeps ==
  ASSUME Dep!DeploymentAssumption, DeploymentInv, NEW s \in DeployScript, Dep!SubmitRefused(s), UNCHANGED started
  PROVE  DeploymentInv'
<1>1. /\ Dep!Finish(s, "failed") /\ deploy[s].step # "none"
      /\ UNCHANGED <<stateFile, deploy_mishaps, overlaps, trustline, holding, late, started>>
  BY DEF Dep!SubmitRefused, Dep!LedgerUnchanged, Dep!At, Dep!Kinds
<1>2. LateGrows(s, Dep!Done)
  BY <1>1 DEF LateGrows
<1>3. "failed" \in {"success", "failed", "rolled_back"} /\ "failed" # "success"
  OBVIOUS
<1>4. QED
  BY <1>1, <1>2, <1>3, FinishKeeps

LEMMA CutKeeps ==
  ASSUME Dep!DeploymentAssumption, DeploymentInv, NEW s \in DeployScript, Dep!Cut(s), UNCHANGED started
  PROVE  DeploymentInv'
<1>1. /\ deploy[s].step # "none" /\ Dep!Mishap
      /\ UNCHANGED <<trustline, holding, stateFile, overlaps, started>>
  BY DEF Dep!Cut
<1>2. Dep!Done \in DeployState /\ Dep!Done.step = "none" /\ ScriptTypes
  BY DoneFields DEF DeploymentInv
<1>3. LateGrows(s, Dep!Done)
  <2>1. PICK t : t = [kind |-> deploy[s].step, amount |-> deploy[s].amount]
    OBVIOUS
  <2>2. PICK T : /\ T = {[kind |-> k, amount |-> deploy[s].amount] : k \in {k \in Dep!Kinds : Dep!At(s, {k}) /\ deploy[s].fresh}}
                 /\ late' = late \cup T
    BY DEF Dep!Cut
  <2>3. \A k \in Dep!Kinds : Dep!At(s, {k}) <=> deploy[s].step = k
    BY DEF Dep!At
  <2>4. \A u \in T : u = t /\ deploy[s].step \in Dep!Kinds
    BY <2>1, <2>2, <2>3
  <2>5. T = {} \/ (T = {t} /\ deploy[s].step \in Dep!Kinds)
    BY <2>4
  <2>6. QED
    BY <1>2, <2>1, <2>2, <2>5 DEF LateGrows
<1>4. CASE Dep!Finish(s, "failed")
  BY <1>1, <1>3, <1>4, FinishKeeps
<1>5. CASE deploy' = [deploy EXCEPT ![s] = Dep!Done] /\ excused' = (excused \/ Dep!RollingBack(s)) /\ UNCHANGED logs
  <2>1. Moves(s, Dep!Done)
    BY <1>2, <1>5, MovesBy
  <2>2. Dep!RollingBack(s) <=> deploy[s].step \in Back
    BY DEF Dep!RollingBack, Dep!At, Back
  <2>3. StateMoves(s, Dep!Done)
    BY <1>1, <1>2, <1>5, <2>2 DEF StateMoves, DeploymentInv, ScriptTypes, Dep!TypeOK
  <2>4. Overlapping(s, Dep!Done)
    BY <1>1, <1>2 DEF Overlapping, Issues
  <2>5. \A r \in DeployScript : MovedOn(r)
    BY <1>2, <2>1, SameMovesOn DEF MovedOn, Moves
  <2>6. LogsKept'
    BY <1>5, <2>5, LogsStay DEF DeploymentInv
  <2>7. /\ logs' \in Seq(Dep!Log) /\ Len(logs') <= started' /\ started' \in 0..DeployRuns /\ deploy_mishaps' \in 0..DeployMishaps
    BY <1>1, <1>5, MishapBounded DEF DeploymentInv, ScriptTypes, Dep!TypeOK
  <2>8. UNCHANGED <<trustline, holding>>
    BY <1>1
  <2>9. QED
    BY <1>2, <1>3, <2>1, <2>3, <2>4, <2>6, <2>7, <2>8, LedgerStays
<1>6. QED
  BY <1>4, <1>5 DEF Dep!Cut

LEMMA CheckTrustlineKeeps ==
  ASSUME Dep!DeploymentAssumption, DeploymentInv, NEW s \in DeployScript, Dep!CheckTrustline(s), UNCHANGED started
  PROVE  DeploymentInv'
<1>1. /\ deploy[s].step = "trust?" /\ deploy[s].step \in Early /\ deploy[s].step # "none"
      /\ UNCHANGED <<stateFile, trustline, holding, late, overlaps, excused, started>>
  BY DEF Dep!CheckTrustline, Dep!At, Dep!LedgerUnchanged, Dep!HistoryUnchanged, Early
<1>2. deploy[s].log \in Dep!Log /\ deploy[s].log.outcome = "in_progress"
  BY <1>1, InHandKnown
<1>3. CASE Dep!Persist(s, [deploy[s].log EXCEPT !.trust = "skipped"], "supply?") /\ UNCHANGED deploy_mishaps
  <2>1. PICK log \in Dep!Log : log = [deploy[s].log EXCEPT !.trust = "skipped"]
    BY <1>2 DEF Dep!Log
  <2>2. log.trust = "skipped" /\ log.outcome = "in_progress"
    BY <1>2, <2>1 DEF Dep!Log
  <2>3. Dep!Persist(s, log, "supply?")
    BY <1>3, <2>1, Zenon
  <2>4. Kept(log, deploy[s].id, Len(logs)) /\ log.trust # "none" /\ "supply?" \in {"supply?", "init"}
    BY <2>2 DEF Kept
  <2>5. QED
    BY <1>1, <1>3, <2>3, <2>4, PersistKeeps
<1>4. CASE Dep!GoTo(s, "trust_load") /\ UNCHANGED logs
  <2>1. "trust_load" \in Steps
    BY DEF Steps, Early
  <2>2. PICK x \in DeployState :
          /\ Moves(s, x) /\ x.step = "trust_load" /\ x.id = deploy[s].id /\ x.log = deploy[s].log
          /\ x.seen = deploy[s].seen
    BY <1>4, <2>1, GoesTo
  <2>3. /\ x.step \in Early <=> deploy[s].step \in Early
    BY <1>1, <2>2 DEF Early
  <2>4. Overlapping(s, x) /\ StateMoves(s, x)
    BY <1>1, <2>2 DEF Overlapping, StateMoves, Issues, Back, DeploymentInv, ScriptTypes, Dep!TypeOK
  <2>5. Dep!Mishap \/ deploy_mishaps' = deploy_mishaps
    BY DEF Dep!CheckTrustline
  <2>6. QED
    BY <1>1, <1>4, <2>2, <2>3, <2>4, <2>5, GoesOnKeeps
<1>5. QED
  BY <1>3, <1>4 DEF Dep!CheckTrustline

LEMMA CheckSupplyKeeps ==
  ASSUME Dep!DeploymentAssumption, DeploymentInv, NEW s \in DeployScript, Dep!CheckSupply(s), UNCHANGED started
  PROVE  DeploymentInv'
<1>1. /\ deploy[s].step = "supply?" /\ deploy[s].step \notin Early /\ deploy[s].step \in Later
      /\ deploy[s].step # "none" /\ deploy[s].step \notin Back /\ deploy[s].step \notin Issues
      /\ UNCHANGED <<stateFile, trustline, holding, late, deploy_mishaps, excused, started>>
  BY DEF Dep!CheckSupply, Dep!At, Dep!LedgerUnchanged, Early, Later, Back, Issues
<1>2. /\ deploy[s].log \in Dep!Log /\ deploy[s].log.trust # "none"
      /\ Kept(deploy[s].log, deploy[s].id, Len(logs))
  BY <1>1, InHandKnown DEF InHand
<1>3. CASE Dep!Persist(s, [deploy[s].log EXCEPT !.supply = "skipped"], "init") /\ UNCHANGED overlaps
  <2>1. PICK log \in Dep!Log : log = [deploy[s].log EXCEPT !.supply = "skipped"]
    BY <1>2 DEF Dep!Log
  <2>2. log.trust = deploy[s].log.trust /\ log.outcome = deploy[s].log.outcome
    BY <1>2, <2>1 DEF Dep!Log
  <2>3. Dep!Persist(s, log, "init")
    BY <1>3, <2>1, Zenon
  <2>4. /\ Kept(log, deploy[s].id, Len(logs)) /\ log.trust # "none" /\ "init" \in {"supply?", "init"}
        /\ deploy[s].step \in Early \cup Later
    BY <1>1, <1>2, <2>2 DEF Kept
  <2>5. QED
    BY <1>1, <1>3, <2>3, <2>4, PersistKeeps
<1>4. CASE holding = 0 /\ Dep!GoTo(s, "issue_load") /\ overlaps' = overlaps + Dep!BeingIssued(s) /\ UNCHANGED logs
  <2>1. "issue_load" \in Steps
    BY DEF Steps, Later
  <2>2. PICK x \in DeployState :
          /\ Moves(s, x) /\ x.step = "issue_load" /\ x.id = deploy[s].id /\ x.log = deploy[s].log
          /\ x.seen = deploy[s].seen
    BY <1>4, <2>1, GoesTo
  <2>3. /\ x.step \in Early <=> deploy[s].step \in Early
    BY <1>1, <2>2 DEF Early
  <2>4. Overlapping(s, x) /\ StateMoves(s, x)
    BY <1>1, <1>4, <2>2 DEF Overlapping, StateMoves, DeploymentInv, ScriptTypes, Dep!TypeOK
  <2>5. QED
    BY <1>1, <1>4, <2>2, <2>3, <2>4, GoesOnKeeps
<1>5. QED
  BY <1>3, <1>4 DEF Dep!CheckSupply

LEMMA ReadSupplyKeeps ==
  ASSUME Dep!DeploymentAssumption, DeploymentInv, NEW s \in DeployScript, Dep!ReadSupply(s), UNCHANGED started
  PROVE  DeploymentInv'
<1>1. /\ deploy[s].step = "init" /\ deploy[s].step \notin Early /\ deploy[s].step # "none"
      /\ deploy[s].step \notin Back /\ deploy[s].step \notin Issues
      /\ UNCHANGED <<stateFile, trustline, holding, late, deploy_mishaps, overlaps, started>>
  BY DEF Dep!ReadSupply, Dep!At, Dep!LedgerUnchanged, Early, Back, Issues
<1>2. CASE holding > 0 /\ Dep!GoTo(s, "write") /\ UNCHANGED <<logs, excused>>
  <2>1. "write" \in Steps
    BY DEF Steps, Later
  <2>2. PICK x \in DeployState :
          /\ Moves(s, x) /\ x.step = "write" /\ x.id = deploy[s].id /\ x.log = deploy[s].log
          /\ x.seen = deploy[s].seen
    BY <1>2, <2>1, GoesTo
  <2>3. /\ x.step \in Early <=> deploy[s].step \in Early
    BY <1>1, <2>2 DEF Early
  <2>4. Overlapping(s, x) /\ StateMoves(s, x)
    BY <1>1, <1>2, <2>2 DEF Overlapping, StateMoves, Issues, DeploymentInv, ScriptTypes, Dep!TypeOK
  <2>5. QED
    BY <1>1, <1>2, <2>2, <2>3, <2>4, GoesOnKeeps
<1>3. CASE Dep!Finish(s, "failed")
  <2>1. LateGrows(s, Dep!Done)
    BY <1>1 DEF LateGrows
  <2>2. QED
    BY <1>1, <1>3, <2>1, FinishKeeps
<1>4. QED
  BY <1>2, <1>3 DEF Dep!ReadSupply

\* Who is about to write the state while the newest log says success is not in that log.
LEMMA WriteStateKeeps ==
  ASSUME Dep!DeploymentAssumption, DeploymentInv, NEW s \in DeployScript, Dep!WriteState(s), UNCHANGED started
  PROVE  DeploymentInv'
<1>1. /\ deploy[s].step = "write" /\ deploy[s].step \notin Early /\ deploy[s].step # "none"
      /\ deploy[s].step \notin Back /\ deploy[s].step \notin Issues /\ stateFile' = deploy[s].id
      /\ UNCHANGED <<logs, trustline, holding, late, deploy_mishaps, overlaps, excused, started>>
  BY DEF Dep!WriteState, Dep!At, Dep!LedgerUnchanged, Dep!HistoryUnchanged, Early, Back, Issues
<1>2. deploy[s] \in DeployState /\ InHand(s) /\ ScriptTypes
  BY <1>1, InHandKnown DEF DeploymentInv
<1>3. PICK seen \in BOOLEAN : seen = (logs[Len(logs)].outcome = "success")
  OBVIOUS
<1>4. PICK x \in DeployState : x = [deploy[s] EXCEPT !.step = "verify", !.seen = seen]
  BY <1>2 DEF DeployState, Steps, Later
<1>5. x.step = "verify" /\ x.id = deploy[s].id /\ x.log = deploy[s].log /\ x.seen = seen
  BY <1>2, <1>4 DEF DeployState
<1>6. deploy' = [deploy EXCEPT ![s] = x]
  BY <1>3, <1>4, Zenon DEF Dep!WriteState
<1>7. Moves(s, x)
  BY <1>2, <1>6, MovesBy
<1>8. seen => deploy[s].id < Len(logs)
  <2>1. logs \in Seq(Dep!Log) /\ deploy[s].id \in 1..Len(logs) /\ Len(logs) \in Nat
    BY <1>2 DEF ScriptTypes, Dep!TypeOK, InHand
  <2>2. deploy[s].id \in DOMAIN logs /\ logs[deploy[s].id].trust # "none"
    BY <1>1, <1>2 DEF InHand
  <2>3. Kept(logs[deploy[s].id], deploy[s].id, Len(logs))
    BY <2>2 DEF DeploymentInv, LogsKept
  <2>4. ASSUME deploy[s].id = Len(logs), seen PROVE FALSE
    <3>1. logs[deploy[s].id].outcome = "success"
      BY <1>3, <2>4
    <3>2. deploy[s].id < Len(logs)
      BY <2>2, <2>3, <3>1, Zenon DEF Kept
    <3>3. QED
      BY <2>1, <2>4, <3>2
  <2>5. QED
    BY <2>1, <2>4
<1>9. /\ x.step \in Early <=> deploy[s].step \in Early
  BY <1>1, <1>5 DEF Early
<1>10. Overlapping(s, x) /\ StateMoves(s, x)
  BY <1>1, <1>2, <1>5 DEF Overlapping, StateMoves, Issues, ScriptTypes, Dep!TypeOK, DeployState
<1>11. QED
  BY <1>1, <1>5, <1>7, <1>8, <1>9, <1>10, GoesOnKeeps

LEMMA VerifyKeeps ==
  ASSUME Dep!DeploymentAssumption, DeploymentInv, NEW s \in DeployScript, Dep!Verify(s), UNCHANGED started
  PROVE  DeploymentInv'
<1>1. /\ deploy[s].step = "verify" /\ deploy[s].step # "none" /\ deploy[s].step \notin Back
      /\ UNCHANGED <<stateFile, trustline, holding, late, deploy_mishaps, overlaps, started>>
  BY DEF Dep!Verify, Dep!At, Dep!LedgerUnchanged, Back
<1>2. PICK outcome \in {"success", "failed", "rolled_back"} :
        Dep!Finish(s, outcome) /\ (outcome = "success" => deploy[s].seen)
  BY DEF Dep!Verify
<1>3. LateGrows(s, Dep!Done) /\ (outcome = "success" => deploy[s].id < Len(logs))
  BY <1>1, <1>2, InHandKnown DEF LateGrows, InHand
<1>4. QED
  BY <1>1, <1>2, <1>3, FinishKeeps

LEMMA CheckBurnKeeps ==
  ASSUME Dep!DeploymentAssumption, DeploymentInv, NEW s \in DeployScript, Dep!CheckBurn(s), UNCHANGED started
  PROVE  DeploymentInv'
<1>1. /\ deploy[s].step = "burn?" /\ deploy[s].step \notin Early /\ deploy[s].step # "none"
      /\ deploy[s].step \notin Issues
      /\ UNCHANGED <<logs, stateFile, trustline, holding, late, overlaps, excused, started>>
      /\ Dep!Mishap \/ deploy_mishaps' = deploy_mishaps
  BY DEF Dep!CheckBurn, Dep!At, Dep!LedgerUnchanged, Dep!HistoryUnchanged, Early, Issues
<1>2. deploy[s] \in DeployState /\ ScriptTypes /\ holding \in Nat
  BY DEF DeploymentInv, ScriptTypes, Dep!TypeOK
<1>3. PICK x \in DeployState :
        /\ Moves(s, x) /\ x.step \in {"burn_load", "remove?"} /\ x.id = deploy[s].id /\ x.log = deploy[s].log
        /\ x.seen = deploy[s].seen
  <2>1. CASE deploy' = [deploy EXCEPT ![s] = [@ EXCEPT !.step = "burn_load", !.amount = holding]]
    <3>1. PICK x \in DeployState : x = [deploy[s] EXCEPT !.step = "burn_load", !.amount = holding]
      BY <1>2 DEF DeployState, Steps, Back
    <3>2. x.step = "burn_load" /\ x.id = deploy[s].id /\ x.log = deploy[s].log /\ x.seen = deploy[s].seen
      BY <1>2, <3>1 DEF DeployState
    <3>3. deploy' = [deploy EXCEPT ![s] = x]
      BY <2>1, <3>1, Zenon
    <3>4. Moves(s, x)
      BY <1>2, <3>3, MovesBy
    <3>5. QED
      BY <3>2, <3>4
  <2>2. CASE Dep!GoTo(s, "remove?")
    <3>1. "remove?" \in Steps
      BY DEF Steps, Back
    <3>2. QED
      BY <2>2, <3>1, GoesTo
  <2>3. QED
    BY <2>1, <2>2 DEF Dep!CheckBurn
<1>4. /\ x.step \in Early <=> deploy[s].step \in Early
  BY <1>1, <1>3 DEF Early
<1>5. Overlapping(s, x) /\ StateMoves(s, x)
  BY <1>1, <1>3 DEF Overlapping, StateMoves, Issues, Back, DeploymentInv, ScriptTypes, Dep!TypeOK
<1>6. QED
  BY <1>1, <1>3, <1>4, <1>5, GoesOnKeeps

LEMMA CheckRemoveKeeps ==
  ASSUME Dep!DeploymentAssumption, DeploymentInv, NEW s \in DeployScript, Dep!CheckRemove(s), UNCHANGED started
  PROVE  DeploymentInv'
<1>1. /\ deploy[s].step = "remove?" /\ deploy[s].step \notin Early /\ deploy[s].step # "none"
      /\ deploy[s].step \notin Issues
      /\ UNCHANGED <<stateFile, trustline, holding, late, overlaps, started>>
      /\ Dep!Mishap \/ deploy_mishaps' = deploy_mishaps
  BY DEF Dep!CheckRemove, Dep!At, Dep!LedgerUnchanged, Early, Issues
<1>2. CASE Dep!Finish(s, "failed")
  <2>1. LateGrows(s, Dep!Done)
    BY <1>1 DEF LateGrows
  <2>2. QED
    BY <1>1, <1>2, <2>1, FinishKeeps
<1>3. ASSUME NEW step \in {"remove_load", "finish"}, Dep!GoTo(s, step), UNCHANGED <<logs, excused>>
      PROVE  DeploymentInv'
  <2>1. step \in Steps
    BY DEF Steps, Back
  <2>2. PICK x \in DeployState :
          /\ Moves(s, x) /\ x.step = step /\ x.id = deploy[s].id /\ x.log = deploy[s].log
          /\ x.seen = deploy[s].seen
    BY <1>3, <2>1, GoesTo
  <2>3. /\ x.step \in Early <=> deploy[s].step \in Early
    BY <1>1, <2>2 DEF Early
  <2>4. Overlapping(s, x) /\ StateMoves(s, x)
    BY <1>1, <1>3, <2>2 DEF Overlapping, StateMoves, Issues, Back, DeploymentInv, ScriptTypes, Dep!TypeOK
  <2>5. QED
    BY <1>1, <1>3, <2>2, <2>3, <2>4, GoesOnKeeps
<1>4. QED
  BY <1>2, <1>3 DEF Dep!CheckRemove

LEMMA FinishRollbackKeeps ==
  ASSUME Dep!DeploymentAssumption, DeploymentInv, NEW s \in DeployScript, Dep!FinishRollback(s), UNCHANGED started
  PROVE  DeploymentInv'
<1>1. /\ deploy[s].step # "none" /\ Dep!Finish(s, "rolled_back") /\ stateFile' = 0
      /\ UNCHANGED <<deploy_mishaps, overlaps, trustline, holding, late, started>>
  BY DEF Dep!FinishRollback, Dep!At, Dep!LedgerUnchanged
<1>2. LateGrows(s, Dep!Done)
  BY <1>1 DEF LateGrows
<1>3. "rolled_back" \in {"success", "failed", "rolled_back"} /\ "rolled_back" # "success"
  OBVIOUS
<1>4. QED
  BY <1>1, <1>2, <1>3, FinishKeeps

LEMMA RollbackKeeps ==
  ASSUME Dep!DeploymentAssumption, DeploymentInv, NEW s \in DeployScript, Dep!Rollback(s),
         started < DeployRuns, started' = started + 1
  PROVE  DeploymentInv'
<1>1. PICK id \in DOMAIN logs : /\ "success" \in {logs[id].supply, logs[id].trust}
                                /\ deploy' = [deploy EXCEPT ![s] = Dep!Working(id, logs[id], "burn?")]
  BY DEF Dep!Rollback
<1>2. /\ deploy[s].step = "none"
      /\ UNCHANGED <<logs, stateFile, deploy_mishaps, trustline, holding, late, overlaps, excused>>
  BY DEF Dep!Rollback, Dep!At, Dep!LedgerUnchanged, Dep!HistoryUnchanged
<1>3. /\ logs[id] \in Dep!Log /\ id \in 1..Len(logs) /\ Len(logs) \in Nat /\ Len(logs) <= DeployRuns /\ DeployRuns \in Nat
      /\ ScriptTypes /\ started \in 0..DeployRuns /\ Len(logs) <= started
  BY DEF DeploymentInv, ScriptTypes, Dep!TypeOK, Dep!DeploymentAssumption
<1>4. id \in 0..DeployRuns /\ started' \in 0..DeployRuns /\ Len(logs') <= started'
  BY <1>2, <1>3
<1>5. PICK x \in DeployState : /\ x = Dep!Working(id, logs[id], "burn?") /\ x.step = "burn?"
                               /\ x.id = id /\ x.log = logs[id] /\ ~x.seen
  BY <1>3, <1>4, WorkingFields DEF Steps, Back
<1>6. deploy' = [deploy EXCEPT ![s] = x]
  BY <1>1, <1>5, Zenon
<1>7. Moves(s, x)
  BY <1>3, <1>6, MovesBy
<1>8. Kept(logs[id], id, Len(logs)) /\ logs[id].trust # "none"
  BY <1>1 DEF DeploymentInv, LogsKept, Kept
<1>9. LogsKept'
  <2>1. InHand(s)'
    BY <1>2, <1>5, <1>7, <1>8 DEF InHand, Moves, Early
  <2>2. ASSUME NEW q \in DeployScript \ {s}, deploy'[q].step # "none" PROVE InHand(q)'
    <3>1. Same(q) /\ InHand(q) /\ deploy[q].step # "none"
      BY <1>7, <2>2 DEF Moves, Same, DeploymentInv, LogsKept
    <3>2. deploy[q].step \in Early => deploy[q].id # id
      BY <1>8, <3>1 DEF InHand
    <3>3. \A r \in DeployScript \ {s} : deploy'[r].step = deploy[r].step /\ deploy'[r].id = deploy[r].id
      BY <1>7 DEF Moves, Same
    <3>4. deploy'[s].id = id
      BY <1>5, <1>7 DEF Moves
    <3>5. QED
      BY <1>2, <3>1, <3>2, <3>3, <3>4 DEF InHand, Same, Kept
  <2>3. QED
    BY <1>2, <2>1, <2>2 DEF DeploymentInv, LogsKept
<1>10. LateGrows(s, x) /\ Overlapping(s, x) /\ StateMoves(s, x)
  BY <1>2, <1>5 DEF LateGrows, Overlapping, StateMoves, Issues, Back, DeploymentInv, ScriptTypes, Dep!TypeOK
<1>11. logs' \in Seq(Dep!Log) /\ deploy_mishaps' \in 0..DeployMishaps
  BY <1>2 DEF DeploymentInv, ScriptTypes, Dep!TypeOK
<1>12. UNCHANGED <<trustline, holding>>
  BY <1>2
<1>13. QED
  BY <1>4, <1>7, <1>9, <1>10, <1>11, <1>12, LedgerStays

LEMMA DryRunKeeps ==
  ASSUME Dep!DeploymentAssumption, DeploymentInv, Dep!DryRun, started < DeployRuns, started' = started + 1
  PROVE  DeploymentInv'
<1>1. PICK log \in Dep!Log : log = [Dep!NewLog EXCEPT !.outcome = "success"]
  BY NewLogFields DEF Dep!Log
<1>2. log.trust = "none" /\ log.supply = "none"
  BY <1>1, NewLogFields DEF Dep!Log
<1>3. logs' = Append(logs, log)
  BY <1>1, Zenon DEF Dep!DryRun
<1>4. UNCHANGED <<stateFile, deploy, deploy_mishaps, trustline, holding, late, overlaps, excused>>
  BY DEF Dep!DryRun, Dep!LedgerUnchanged, Dep!HistoryUnchanged
<1>5. LogsKept' /\ logs' \in Seq(Dep!Log) /\ Len(logs') = Len(logs) + 1
  <2>1. PICK S : S = {}
    OBVIOUS
  <2>2. /\ S \subseteq DeployScript /\ \A q \in DeployScript \ S : deploy'[q] = deploy[q]
        /\ \A r, q \in S : r = q
    BY <1>4, <2>1
  <2>3. \A q \in S : /\ deploy[q].step = "none" /\ deploy'[q].step \in Early
                     /\ deploy'[q].id = Len(logs) + 1 /\ deploy'[q].log = Dep!NewLog /\ ~deploy'[q].seen
    BY <2>1
  <2>4. QED
    BY <1>2, <1>3, <2>2, <2>3, LogBegun DEF DeploymentInv
<1>6. /\ Len(logs) \in Nat /\ started \in 0..DeployRuns /\ DeployRuns \in Nat /\ Len(logs) <= started
  BY DEF DeploymentInv, ScriptTypes, Dep!TypeOK, Dep!DeploymentAssumption
<1>7. Len(logs') <= DeployRuns /\ Len(logs') <= started' /\ started' \in 0..DeployRuns
  BY <1>5, <1>6
<1>8. Dep!TypeOK' /\ ScriptTypes'
  BY <1>4, <1>5, <1>7 DEF DeploymentInv, ScriptTypes, Dep!TypeOK
<1>9. SupplyCounted' /\ Backed'
  BY <1>4 DEF DeploymentInv, SupplyCounted, Backed, Issuing, LateIssues
<1>10. QED
  BY <1>5, <1>8, <1>9 DEF DeploymentInv

LEMMA DeployKeeps ==
  ASSUME Dep!DeploymentAssumption, DeploymentInv, NEW s \in DeployScript, Dep!Deploy(s),
         started < DeployRuns, started' = started + 1
  PROVE  DeploymentInv'
<1>1. /\ deploy[s].step = "none" /\ logs' = Append(logs, Dep!NewLog)
      /\ UNCHANGED <<stateFile, deploy_mishaps, trustline, holding, late, overlaps, excused>>
  BY DEF Dep!Deploy, Dep!At, Dep!LedgerUnchanged, Dep!HistoryUnchanged
<1>2. /\ Len(logs) \in Nat /\ started \in 0..DeployRuns /\ DeployRuns \in Nat /\ Len(logs) <= started
      /\ ScriptTypes /\ deploy_mishaps \in 0..DeployMishaps
  BY DEF DeploymentInv, ScriptTypes, Dep!TypeOK, Dep!DeploymentAssumption
<1>3. Len(logs) + 1 \in 0..DeployRuns /\ started' \in 0..DeployRuns /\ Len(logs) + 1 <= started'
  BY <1>2
<1>4. PICK x \in DeployState : /\ x = Dep!Working(Len(logs) + 1, Dep!NewLog, "trust?") /\ x.step = "trust?"
                               /\ x.id = Len(logs) + 1 /\ x.log = Dep!NewLog /\ ~x.seen
  BY <1>3, WorkingFields, NewLogFields DEF Steps, Early
<1>5. deploy' = [deploy EXCEPT ![s] = x]
  BY <1>4, Zenon DEF Dep!Deploy
<1>6. Moves(s, x)
  BY <1>2, <1>5, MovesBy
<1>7. LogsKept' /\ logs' \in Seq(Dep!Log) /\ Len(logs') = Len(logs) + 1
  <2>1. PICK S : S = {s}
    OBVIOUS
  <2>2. /\ S \subseteq DeployScript /\ \A q \in DeployScript \ S : deploy'[q] = deploy[q]
        /\ \A r, q \in S : r = q
    BY <1>2, <1>5, <2>1 DEF ScriptTypes
  <2>3. \A q \in S : /\ deploy[q].step = "none" /\ deploy'[q].step \in Early
                     /\ deploy'[q].id = Len(logs) + 1 /\ deploy'[q].log = Dep!NewLog /\ ~deploy'[q].seen
    BY <1>1, <1>4, <1>6, <2>1 DEF Moves, Early
  <2>4. QED
    BY <1>1, <2>2, <2>3, NewLogFields, LogBegun DEF DeploymentInv
<1>8. LateGrows(s, x) /\ Overlapping(s, x) /\ StateMoves(s, x)
  BY <1>1, <1>4 DEF LateGrows, Overlapping, StateMoves, Issues, Back, DeploymentInv, ScriptTypes, Dep!TypeOK
<1>9. Len(logs') <= started' /\ deploy_mishaps' \in 0..DeployMishaps /\ UNCHANGED <<trustline, holding>>
  BY <1>1, <1>2, <1>3, <1>7
<1>10. QED
  BY <1>3, <1>6, <1>7, <1>8, <1>9, LedgerStays

----
(* What is applied to the ledger *)

LEMMA VoidedFields ==
  ASSUME DeploymentInv, NEW kind
  PROVE  /\ Dep!Voided(kind) \in [DeployScript -> DeployState]
         /\ \A q \in DeployScript : /\ Dep!Voided(kind)[q].step = deploy[q].step /\ Dep!Voided(kind)[q].id = deploy[q].id
                                    /\ Dep!Voided(kind)[q].log = deploy[q].log /\ Dep!Voided(kind)[q].seen = deploy[q].seen
<1>1. deploy \in [DeployScript -> DeployState]
  BY DEF DeploymentInv, ScriptTypes
<1>2. ASSUME NEW q \in DeployScript
      PROVE  /\ Dep!Voided(kind)[q] \in DeployState
             /\ Dep!Voided(kind)[q].step = deploy[q].step /\ Dep!Voided(kind)[q].id = deploy[q].id
             /\ Dep!Voided(kind)[q].log = deploy[q].log /\ Dep!Voided(kind)[q].seen = deploy[q].seen
  <2>1. PICK x \in DeployState : x = [deploy[q] EXCEPT !.fresh = FALSE]
    BY <1>1 DEF DeployState
  <2>2. x.step = deploy[q].step /\ x.id = deploy[q].id /\ x.log = deploy[q].log /\ x.seen = deploy[q].seen
    BY <1>1, <2>1 DEF DeployState
  <2>3. Dep!Voided(kind)[q] = deploy[q] \/ Dep!Voided(kind)[q] = x
    BY <2>1, Zenon DEF Dep!Voided
  <2>4. QED
    BY <1>1, <2>2, <2>3
<1>3. Dep!Voided(kind) \in [DeployScript -> DeployState]
  BY <1>2 DEF Dep!Voided
<1>4. QED
  BY <1>2, <1>3

LEMMA LedgerMoves ==
  ASSUME DeploymentInv, NEW kind \in Dep!Kinds, NEW amount \in Nat, Dep!Accepted(kind, amount),
         Dep!Apply(kind, amount), late' = Dep!StillSent(kind)
  PROVE  /\ trustline' \in BOOLEAN /\ holding' \in Nat /\ (holding' > 0 => trustline')
         /\ holding \in Nat
         /\ kind = "issue" => holding' = holding + 1 /\ Dep!Cardinality(LateIssues') = 0
         /\ kind # "issue" => holding' <= holding
         /\ kind \notin {"issue", "burn"} => holding' = holding
         /\ Dep!IsFiniteSet(late') /\ late' \subseteq late
         /\ Dep!Cardinality(LateIssues') \in Nat /\ Dep!Cardinality(LateIssues') <= Dep!Cardinality(LateIssues)
         /\ Dep!Cardinality(LateIssues) \in Nat
<1>1. holding \in Nat /\ trustline \in BOOLEAN /\ Dep!IsFiniteSet(late) /\ (holding > 0 => trustline)
  BY DEF DeploymentInv, ScriptTypes, Dep!TypeOK
<1>2. /\ kind # "trust" => trustline
      /\ kind = "burn" => amount <= holding
      /\ kind = "remove" => holding = 0
  BY DEF Dep!Accepted
<1>3. /\ trustline' = (IF kind = "trust" THEN TRUE ELSE (trustline /\ kind # "remove"))
      /\ holding' = (IF kind = "issue" THEN holding + 1 ELSE IF kind = "burn" THEN holding - amount ELSE holding)
  BY DEF Dep!Apply
<1>4. /\ holding' \in Nat /\ (kind = "issue" => holding' = holding + 1)
      /\ kind # "issue" => holding' <= holding
      /\ kind \notin {"issue", "burn"} => holding' = holding
  BY <1>1, <1>2, <1>3
<1>5. trustline' \in BOOLEAN /\ (holding' > 0 => trustline')
  <2>1. kind = "remove" => ~(holding' > 0)
    BY <1>1, <1>2, <1>3
  <2>2. kind # "remove" => trustline'
    BY <1>2, <1>3
  <2>3. trustline' \in BOOLEAN
    BY <1>1, <1>3
  <2>4. QED
    BY <2>1, <2>2, <2>3
<1>6. late' \subseteq late /\ Dep!IsFiniteSet(late')
  BY <1>1, FS_Subset, DepSizes DEF Dep!StillSent
<1>7. LateIssues' \subseteq LateIssues /\ LateIssues \subseteq late
  BY <1>6 DEF LateIssues
<1>8. Dep!IsFiniteSet(LateIssues)
  BY <1>1, <1>7, FS_Subset, DepSizes
<1>9. /\ Dep!Cardinality(LateIssues') \in Nat /\ Dep!Cardinality(LateIssues') <= Dep!Cardinality(LateIssues)
      /\ Dep!Cardinality(LateIssues) \in Nat
  BY <1>7, <1>8, FS_Subset, FS_CardinalityType, DepSizes
<1>10. kind = "issue" => Dep!Cardinality(LateIssues') = 0
  <2>1. kind = "issue" => LateIssues' = {}
    BY DEF LateIssues, Dep!StillSent, Dep!Source
  <2>2. QED
    BY <2>1, FS_EmptySet, DepSizes
<1>11. QED
  BY <1>1, <1>4, <1>5, <1>6, <1>9, <1>10

LEMMA AnswerKnown ==
  ASSUME NEW kind \in Dep!Kinds, NEW log \in Dep!Log, NEW to, to = Dep!AfterAnswer(kind, log)
  PROVE  /\ to.log \in Dep!Log /\ to.log.outcome = log.outcome
         /\ \/ kind = "trust" /\ to.step = "supply?" /\ to.log.trust # "none"
            \/ kind = "issue" /\ to.step = "init" /\ to.log.trust = log.trust
            \/ kind = "burn" /\ to.step = "remove?" /\ to.log.trust = log.trust
            \/ kind = "remove" /\ to.step = "finish" /\ to.log.trust # "none"
<1>1. CASE kind = "trust"
  <2>1. to = [step |-> "supply?", log |-> [log EXCEPT !.trust = "success"]]
    BY <1>1, Zenon DEF Dep!AfterAnswer
  <2>2. QED
    BY <1>1, <2>1 DEF Dep!Log
<1>2. CASE kind = "issue"
  <2>1. to = [step |-> "init", log |-> [log EXCEPT !.supply = "success"]]
    BY <1>2, Zenon DEF Dep!AfterAnswer
  <2>2. QED
    BY <1>2, <2>1 DEF Dep!Log
<1>3. CASE kind = "burn"
  <2>1. to = [step |-> "remove?", log |-> [log EXCEPT !.supply = "rolled_back"]]
    BY <1>3, Zenon DEF Dep!AfterAnswer
  <2>2. QED
    BY <1>3, <2>1 DEF Dep!Log
<1>4. CASE kind = "remove"
  <2>1. to = [step |-> "finish", log |-> [log EXCEPT !.trust = "rolled_back"]]
    BY <1>4, Zenon DEF Dep!AfterAnswer
  <2>2. QED
    BY <1>4, <2>1 DEF Dep!Log
<1>5. QED
  BY <1>1, <1>2, <1>3, <1>4 DEF Dep!Kinds

LEMMA SubmitAppliedKeeps ==
  ASSUME Dep!DeploymentAssumption, DeploymentInv, NEW s \in DeployScript, Dep!SubmitApplied(s), UNCHANGED started
  PROVE  DeploymentInv'
<1>1. PICK kind \in Dep!Kinds :
        /\ deploy[s].step = kind /\ Dep!Accepted(kind, deploy[s].amount) /\ Dep!Apply(kind, deploy[s].amount)
        /\ late' = Dep!StillSent(kind)
        /\ LET to == Dep!AfterAnswer(kind, deploy[s].log)
           IN /\ logs' = [logs EXCEPT ![deploy[s].id] = to.log]
              /\ deploy' = [Dep!Voided(kind) EXCEPT ![s] = Dep!Working(deploy[s].id, to.log, to.step)]
        /\ excused' = (excused \/ Dep!Emptied(kind))
        /\ UNCHANGED <<stateFile, deploy_mishaps, overlaps>>
  BY DEF Dep!SubmitApplied, Dep!At
<1>2. deploy[s].step # "none"
  BY <1>1 DEF Dep!Kinds
<1>3. deploy[s] \in DeployState /\ deploy[s].log \in Dep!Log /\ InHand(s) /\ Kept(deploy[s].log, deploy[s].id, Len(logs))
  BY <1>2, InHandKnown
<1>4. PICK to : to = Dep!AfterAnswer(kind, deploy[s].log)
  OBVIOUS
<1>5. /\ to.log \in Dep!Log /\ to.log.outcome = deploy[s].log.outcome
      /\ \/ kind = "trust" /\ to.step = "supply?" /\ to.log.trust # "none"
         \/ kind = "issue" /\ to.step = "init" /\ to.log.trust = deploy[s].log.trust
         \/ kind = "burn" /\ to.step = "remove?" /\ to.log.trust = deploy[s].log.trust
         \/ kind = "remove" /\ to.step = "finish" /\ to.log.trust # "none"
  BY <1>3, <1>4, AnswerKnown
<1>6. /\ to.step \in Steps /\ to.step \notin Early /\ to.step \notin Issues /\ to.step \notin {"none", "write"}
      /\ kind \in {"burn", "remove"} => to.step \in Back
  BY <1>5 DEF Steps, Early, Later, Back, Issues
<1>7. deploy[s].id \in 0..DeployRuns /\ deploy[s].amount \in Nat
  BY <1>3 DEF DeployState
<1>8. PICK x \in DeployState : /\ x = Dep!Working(deploy[s].id, to.log, to.step) /\ x.step = to.step
                               /\ x.id = deploy[s].id /\ x.log = to.log /\ ~x.seen
  BY <1>5, <1>6, <1>7, WorkingFields
<1>9. logs' = [logs EXCEPT ![deploy[s].id] = to.log] /\ deploy' = [Dep!Voided(kind) EXCEPT ![s] = x]
  BY <1>1, <1>4, <1>8, Zenon
<1>10. Moves(s, x)
  BY <1>9, VoidedFields DEF Moves, Same
<1>11. to.log.trust # "none"
  BY <1>1, <1>3, <1>5 DEF InHand, Early
<1>12. Kept(to.log, deploy[s].id, Len(logs))
  <2>1. kind = "trust" => to.log.outcome = "in_progress"
    BY <1>1, <1>2, <1>5, InHandKnown DEF Early
  <2>2. kind # "trust" => deploy[s].log.trust # "none"
    BY <1>1, <1>3 DEF InHand, Early, Dep!Kinds
  <2>3. QED
    BY <1>3, <1>5, <1>11, <2>1, <2>2 DEF Kept
<1>13. LogsKept' /\ logs' \in Seq(Dep!Log) /\ Len(logs') = Len(logs)
  BY <1>2, <1>5, <1>6, <1>8, <1>9, <1>10, <1>11, <1>12, LogWritten DEF DeploymentInv
<1>14. /\ trustline' \in BOOLEAN /\ holding' \in Nat /\ (holding' > 0 => trustline')
       /\ holding \in Nat
       /\ kind = "issue" => holding' = holding + 1 /\ Dep!Cardinality(LateIssues') = 0
       /\ kind # "issue" => holding' <= holding
       /\ kind \notin {"issue", "burn"} => holding' = holding
       /\ Dep!IsFiniteSet(late') /\ late' \subseteq late
       /\ Dep!Cardinality(LateIssues') \in Nat /\ Dep!Cardinality(LateIssues') <= Dep!Cardinality(LateIssues)
       /\ Dep!Cardinality(LateIssues) \in Nat
  BY <1>1, <1>7, LedgerMoves
<1>15. ScriptTypes'
  <2>1. \A q \in DeployScript : deploy'[q].log \in Dep!Log /\ deploy'[q].id \in 0..DeployRuns
    BY <1>10 DEF Moves, DeployState
  <2>2. excused' \in BOOLEAN
    BY <1>1 DEF DeploymentInv, ScriptTypes, Dep!TypeOK, Dep!Emptied
  <2>3. Dep!TypeOK'
    BY <1>1, <1>13, <1>14, <2>1, <2>2 DEF DeploymentInv, ScriptTypes, Dep!TypeOK
  <2>4. QED
    BY <1>10, <1>13, <1>14, <2>3 DEF DeploymentInv, ScriptTypes, Moves
<1>16. SupplyCounted'
  <2>1. /\ Dep!Cardinality(Issuing) \in Nat /\ Dep!Cardinality(Issuing') \in Nat
        /\ kind = "issue" => Dep!Cardinality(Issuing) = Dep!Cardinality(Issuing') + 1
        /\ kind # "issue" => Dep!Cardinality(Issuing') = Dep!Cardinality(Issuing)
    BY <1>1, <1>6, <1>8, <1>10, IssuingCounted DEF Issues, Dep!Kinds
  <2>2. SupplyCounted /\ overlaps' = overlaps /\ overlaps \in Nat
    BY <1>1 DEF DeploymentInv, ScriptTypes, Dep!TypeOK
  <2>3. QED
    BY <1>14, <2>1, <2>2 DEF SupplyCounted
<1>17. Backed'
  <2>1. SUFFICES ASSUME ~excused' PROVE /\ \A q \in DeployScript : deploy'[q].step = "write" => holding' > 0
                                        /\ stateFile' # 0 => holding' > 0 \/ \E q \in DeployScript : deploy'[q].step \in Back
    BY DEF Backed
  <2>2. /\ \A q \in DeployScript : deploy[q].step = "write" => holding > 0 /\ kind # "burn"
        /\ stateFile # 0 => holding > 0 \/ \E q \in DeployScript : deploy[q].step \in Back
    BY <1>1, <2>1 DEF DeploymentInv, Backed, Dep!Emptied, Dep!At
  <2>3. kind # "burn" => (holding > 0 => holding' > 0)
    BY <1>14
  <2>4. \A q \in DeployScript : deploy'[q].step = "write" => deploy[q].step = "write"
    BY <1>6, <1>8, <1>10 DEF Moves, Same
  <2>5. \A q \in DeployScript : deploy[q].step \in Back => deploy'[q].step \in Back
    BY <1>1, <1>6, <1>8, <1>10 DEF Moves, Same, Back, Dep!Kinds
  <2>6. kind = "burn" => deploy'[s].step \in Back
    BY <1>6, <1>8, <1>10 DEF Moves
  <2>7. QED
    BY <1>1, <2>2, <2>3, <2>4, <2>5, <2>6
<1>18. QED
  BY <1>13, <1>15, <1>16, <1>17 DEF DeploymentInv

LEMMA ApplyLateKeeps ==
  ASSUME Dep!DeploymentAssumption, DeploymentInv, Dep!ApplyLate, UNCHANGED started
  PROVE  DeploymentInv'
<1>1. PICK t \in late : /\ Dep!Accepted(t.kind, t.amount) /\ Dep!Apply(t.kind, t.amount)
                        /\ late' = Dep!StillSent(t.kind) /\ deploy' = Dep!Voided(t.kind)
                        /\ excused' = (excused \/ t.kind = "burn")
                        /\ UNCHANGED <<logs, stateFile, deploy_mishaps, overlaps>>
  BY DEF Dep!ApplyLate
<1>2. t.kind \in Dep!Kinds /\ t.amount \in Nat
  BY DEF DeploymentInv, ScriptTypes
<1>3. PICK kind \in Dep!Kinds : kind = t.kind
  BY <1>2
<1>4. deploy' \in [DeployScript -> DeployState] /\ \A q \in DeployScript : Same(q)
  BY <1>1, VoidedFields DEF Same
<1>5. LogsKept'
  BY <1>1, <1>4, SameMovesOn, LogsStay DEF DeploymentInv
<1>6. /\ trustline' \in BOOLEAN /\ holding' \in Nat /\ (holding' > 0 => trustline')
      /\ holding \in Nat
      /\ kind = "issue" => holding' = holding + 1 /\ Dep!Cardinality(LateIssues') = 0
      /\ kind # "issue" => holding' <= holding
      /\ kind \notin {"issue", "burn"} => holding' = holding
      /\ Dep!IsFiniteSet(late') /\ late' \subseteq late
      /\ Dep!Cardinality(LateIssues') \in Nat /\ Dep!Cardinality(LateIssues') <= Dep!Cardinality(LateIssues)
      /\ Dep!Cardinality(LateIssues) \in Nat
  BY <1>1, <1>2, <1>3, LedgerMoves
<1>7. ScriptTypes'
  <2>1. \A q \in DeployScript : deploy'[q].log \in Dep!Log /\ deploy'[q].id \in 0..DeployRuns
    BY <1>4 DEF DeployState
  <2>2. excused' \in BOOLEAN
    BY <1>1 DEF DeploymentInv, ScriptTypes, Dep!TypeOK
  <2>3. Dep!TypeOK'
    BY <1>1, <1>6, <2>1, <2>2 DEF DeploymentInv, ScriptTypes, Dep!TypeOK
  <2>4. QED
    BY <1>1, <1>4, <1>6, <2>3 DEF DeploymentInv, ScriptTypes
<1>8. SupplyCounted'
  <2>1. Issuing' = Issuing
    BY <1>4 DEF Same, Issuing
  <2>2. Issuing \subseteq DeployScript
    BY DEF Issuing
  <2>3. Dep!Cardinality(Issuing) \in Nat
    BY <2>2, FS_Subset, FS_CardinalityType, DepSizes DEF Dep!DeploymentAssumption
  <2>4. kind = "issue" => Dep!Cardinality(LateIssues) # 0
    <3>1. kind = "issue" => t \in LateIssues
      BY <1>3 DEF LateIssues
    <3>2. LateIssues \subseteq late /\ Dep!IsFiniteSet(late)
      BY DEF LateIssues, DeploymentInv, ScriptTypes
    <3>3. Dep!IsFiniteSet(LateIssues)
      BY <3>2, FS_Subset, DepSizes
    <3>4. QED
      BY <3>1, <3>3, FS_EmptySet, DepSizes
  <2>5. SupplyCounted /\ overlaps' = overlaps /\ overlaps \in Nat
    BY <1>1 DEF DeploymentInv, ScriptTypes, Dep!TypeOK
  <2>6. QED
    BY <1>6, <2>1, <2>3, <2>4, <2>5 DEF SupplyCounted
<1>9. Backed'
  <2>1. kind # "burn" => (holding > 0 => holding' > 0)
    BY <1>6
  <2>2. QED
    BY <1>1, <1>3, <1>4, <2>1 DEF DeploymentInv, Backed, Same
<1>10. QED
  BY <1>5, <1>7, <1>8, <1>9 DEF DeploymentInv

LEMMA DeploymentStep ==
  ASSUME Dep!DeploymentAssumption, DeploymentInv, [Dep!Next]_deployVars
  PROVE  DeploymentInv'
<1>1. CASE UNCHANGED deployVars
  <2>1. /\ deploy' \in [DeployScript -> DeployState] /\ \A q \in DeployScript : Same(q)
        /\ UNCHANGED <<trustline, holding, logs, stateFile, deploy, late, started, deploy_mishaps, overlaps, excused>>
    BY <1>1 DEF deployVars, DeploymentInv, ScriptTypes, Same
  <2>2. ScriptTypes'
    BY <2>1 DEF DeploymentInv, ScriptTypes, Dep!TypeOK
  <2>3. SupplyCounted' /\ Backed'
    BY <2>1 DEF DeploymentInv, SupplyCounted, Backed, Issuing, LateIssues
  <2>4. LogsKept'
    BY <2>1, SameMovesOn, LogsStay DEF DeploymentInv
  <2>5. QED
    BY <2>2, <2>3, <2>4 DEF DeploymentInv
<1>2. CASE started < DeployRuns /\ started' = started + 1 /\ (Dep!DryRun \/ \E s \in DeployScript : Dep!Deploy(s) \/ Dep!Rollback(s))
  BY <1>2, DryRunKeeps, DeployKeeps, RollbackKeeps
<1>3. CASE UNCHANGED started /\ Dep!ApplyLate
  BY <1>3, ApplyLateKeeps
<1>4. ASSUME UNCHANGED started, NEW s \in DeployScript,
             \/ Dep!Load(s) \/ Dep!SubmitApplied(s) \/ Dep!SubmitRefused(s) \/ Dep!Cut(s)
             \/ Dep!CheckTrustline(s) \/ Dep!CheckSupply(s) \/ Dep!ReadSupply(s) \/ Dep!WriteState(s) \/ Dep!Verify(s)
             \/ Dep!CheckBurn(s) \/ Dep!CheckRemove(s) \/ Dep!FinishRollback(s)
      PROVE  DeploymentInv'
  BY <1>4, LoadKeeps, SubmitAppliedKeeps, SubmitRefusedKeeps, CutKeeps, CheckTrustlineKeeps,
    CheckSupplyKeeps, ReadSupplyKeeps, WriteStateKeeps, VerifyKeeps, CheckBurnKeeps,
    CheckRemoveKeeps, FinishRollbackKeeps
<1>5. QED
  BY <1>1, <1>2, <1>3, <1>4 DEF Dep!Next

LEMMA DeploymentHolds ==
  ASSUME Dep!DeploymentAssumption, DeploymentInv
  PROVE  Dep!SupplyIssuedOnce /\ Dep!StateIsBacked /\ Dep!OnlyDryRunsSucceed
<1>1. Dep!SupplyIssuedOnce
  <2>1. Issuing \subseteq DeployScript /\ LateIssues \subseteq late /\ Dep!IsFiniteSet(late)
    BY DEF Issuing, LateIssues, DeploymentInv, ScriptTypes
  <2>2. Dep!Cardinality(Issuing) \in Nat /\ Dep!Cardinality(LateIssues) \in Nat
    BY <2>1, FS_Subset, FS_CardinalityType, DepSizes DEF Dep!DeploymentAssumption
  <2>3. holding \in Nat /\ overlaps \in Nat
    BY DEF DeploymentInv, ScriptTypes, Dep!TypeOK
  <2>4. QED
    BY <2>2, <2>3 DEF Dep!SupplyIssuedOnce, DeploymentInv, SupplyCounted
<1>2. \A s \in DeployScript : deploy[s].step \in Back => Dep!RollingBack(s)
  BY DEF Dep!RollingBack, Dep!At, Back
<1>3. Dep!StateIsBacked
  BY <1>2 DEF Dep!StateIsBacked, DeploymentInv, Backed
<1>4. Dep!OnlyDryRunsSucceed
  <2>1. SUFFICES ASSUME NEW id \in DOMAIN logs, logs[id].outcome = "success", logs[id].trust # "none"
                 PROVE  \E later \in DOMAIN logs : later > id
    BY DEF Dep!OnlyDryRunsSucceed
  <2>2. id < Len(logs)
    BY <2>1 DEF DeploymentInv, LogsKept, Kept
  <2>3. Len(logs) \in DOMAIN logs /\ Len(logs) > id
    BY <2>2 DEF DeploymentInv, ScriptTypes, Dep!TypeOK
  <2>4. QED
    BY <2>3
<1>5. QED
  BY <1>1, <1>3, <1>4

----
(* Backups *)

CycleState == [step : {"none", "dump", "manifest", "list", "file", "row"},
               now : 0..BackupTime, expired : SUBSET Bak!Id]

\* What a server removes is older than its own cycle.
Going(s) ==
  /\ cycle[s].now <= backup_time /\ (cycle[s].step # "none" => cycle[s].now \in Bak!Id)
  /\ \A x \in cycle[s].expired : x < cycle[s].now
  /\ cycle[s].step \in {"file", "row"} => cycle[s].expired # {}

\* Two servers with one id have shared it, ...
Apart ==
  \A r, s \in BackupServer : r # s /\ cycle[r].now = cycle[s].now /\ cycle[s].now # 0 => cycle[s].now \in shared
Begun ==
  /\ \A i \in Bak!Id : i > backup_time => temps[i] = "none" /\ i \notin manifests
  /\ backup_time \in manifests \/ temps[backup_time] # "none" => \E r \in BackupServer : cycle[r].now = backup_time

\* ... and otherwise a file is whole, nobody touches the id of a cycle before its manifest is
\* written, and what is about to lose its manifest has lost its file.
Whole ==
  \A i \in Bak!Id : /\ temps[i] = "mixed" \/ backup_files[i].holds = "mixed" => i \in shared
                    /\ backup_files[i].holds = "none" => backup_files[i] = Bak!NoFile
                    /\ backup_files[i].holds # "none" => i <= backup_files[i].ended
Own(s) ==
  cycle[s].step \in {"dump", "manifest"} /\ cycle[s].now \notin shared =>
    /\ cycle[s].now \notin manifests /\ \A r \in BackupServer : cycle[s].now \notin cycle[r].expired
    /\ cycle[s].step = "manifest" => backup_files[cycle[s].now].holds = "whole"
Removed(s) ==
  cycle[s].step = "row" /\ Bak!Max(cycle[s].expired) \notin shared => backup_files[Bak!Max(cycle[s].expired)] = Bak!NoFile

\* A server that removes backups has written one, and that or a newer one is there.
Good(m) == m \in manifests /\ (backup_files[m].holds = "whole" \/ m \in shared)
Succeeded(s) ==
  cycle[s].step \in {"list", "file", "row"} => \E m \in Bak!Id : Good(m) /\ cycle[s].now <= m

Between(i) ==
  \/ \E r \in BackupServer : cycle[r].step = "row" /\ Bak!Max(cycle[r].expired) = i
  \/ \E r \in BackupServer : cycle[r].step = "manifest" /\ cycle[r].now = i
  \/ i \in died \/ i \in shared
Matched == \A i \in Bak!Id : (i \in manifests <=> backup_files[i] # Bak!NoFile) \/ Between(i)

BackupsInv ==
  /\ Bak!TypeOK /\ Apart /\ Begun /\ Whole /\ Matched
  /\ completed => \E m \in Bak!Id : Good(m)
  /\ \A s \in BackupServer : Going(s) /\ Own(s) /\ Removed(s) /\ Succeeded(s)

LEMMA CycleRecord ==
  ASSUME NEW step \in {"none", "dump", "manifest", "list", "file", "row"}, NEW start \in 0..BackupTime,
         NEW expired \in SUBSET Bak!Id
  PROVE  \E c \in CycleState : /\ c = [step |-> step, now |-> start, expired |-> expired]
                               /\ c.step = step /\ c.now = start /\ c.expired = expired
<1>1. [step |-> step, now |-> start, expired |-> expired] \in CycleState
  BY DEF CycleState
<1>2. PICK c \in CycleState : c = [step |-> step, now |-> start, expired |-> expired]
  BY <1>1
<1>3. c.step = step /\ c.now = start /\ c.expired = expired
  BY <1>2
<1>4. QED
  BY <1>2, <1>3

LEMMA NewestOf ==
  ASSUME Bak!BackupsAssumption, NEW S \in SUBSET Bak!Id, S # {}
  PROVE  Bak!Max(S) \in S /\ \A x \in S : x <= Bak!Max(S)
<1>1. S \subseteq 0..BackupTime /\ S \subseteq Nat
  BY DEF Bak!BackupsAssumption, Bak!Id
<1>2. PICK m \in S : \A x \in S : x <= m
  BY <1>1, HasLargest DEF Bak!BackupsAssumption
<1>3. \A x \in S : m >= x
  BY <1>1, <1>2
<1>4. Bak!Max(S) \in S /\ \A x \in S : Bak!Max(S) >= x
  BY <1>3, Zenon DEF Bak!Max
<1>5. QED
  BY <1>1, <1>4

LEMMA GoesOn ==
  ASSUME BackupsInv, NEW s \in BackupServer, NEW step \in {"none", "dump", "manifest", "list", "file", "row"},
         NEW expired \in SUBSET Bak!Id, Bak!Goes(s, step, expired)
  PROVE  \E c \in CycleState :
           /\ c.step = step /\ c.now = cycle[s].now /\ c.expired = expired
           /\ cycle' \in [BackupServer -> CycleState] /\ cycle'[s] = c /\ \A q \in BackupServer \ {s} : cycle'[q] = cycle[q]
<1>1. cycle \in [BackupServer -> CycleState] /\ cycle[s].now \in 0..BackupTime
  BY DEF BackupsInv, Bak!TypeOK, CycleState
<1>2. PICK start \in 0..BackupTime : start = cycle[s].now
  BY <1>1
<1>3. PICK c \in CycleState : /\ c = [step |-> step, now |-> start, expired |-> expired]
                              /\ c.step = step /\ c.now = start /\ c.expired = expired
  BY CycleRecord
<1>4. cycle' = [cycle EXCEPT ![s] = c]
  BY <1>2, <1>3, Zenon DEF Bak!Goes, Bak!Now
<1>5. QED
  BY <1>1, <1>2, <1>3, <1>4

LEMMA BackupsInit ==
  ASSUME Bak!BackupsAssumption, Bak!Init
  PROVE  BackupsInv
<1>1. Bak!Idle \in CycleState /\ Bak!Idle.step = "none" /\ Bak!Idle.now = 0 /\ Bak!Idle.expired = {}
  BY DEF Bak!Idle, CycleState, Bak!BackupsAssumption
<1>2. /\ cycle = [s \in BackupServer |-> Bak!Idle] /\ temps = [i \in Bak!Id |-> "none"] /\ backup_files = [i \in Bak!Id |-> Bak!NoFile]
      /\ manifests = {} /\ backup_time = 1 /\ backup_mishaps = 0 /\ died = {} /\ shared = {} /\ completed = FALSE
  BY <1>1, Zenon DEF Bak!Init
<1>3. Bak!NoFile \in [holds : {"none", "whole", "mixed"}, ended : 0..BackupTime] /\ Bak!NoFile.holds = "none"
  BY DEF Bak!NoFile, Bak!BackupsAssumption
<1>4. backup_time \in Bak!Id /\ backup_mishaps \in 0..BackupMishaps
  BY <1>2 DEF Bak!Id, Bak!BackupsAssumption
<1>5. Bak!TypeOK
  BY <1>1, <1>2, <1>3, <1>4 DEF Bak!TypeOK, CycleState
<1>6. \A s \in BackupServer : cycle[s].step = "none" /\ cycle[s].now = 0 /\ cycle[s].expired = {}
  BY <1>1, <1>2
<1>7. Apart /\ Begun /\ Whole /\ Matched
  BY <1>2, <1>3, <1>4, <1>6 DEF Apart, Begun, Whole, Matched
<1>8. \A s \in BackupServer : Going(s) /\ Own(s) /\ Removed(s) /\ Succeeded(s)
  BY <1>2, <1>6 DEF Going, Own, Removed, Succeeded
<1>9. QED
  BY <1>2, <1>5, <1>7, <1>8 DEF BackupsInv

LEMMA CycleTicks ==
  ASSUME Bak!BackupsAssumption, BackupsInv, Bak!Tick \/ UNCHANGED backupVars
  PROVE  BackupsInv'
<1>1. /\ UNCHANGED <<temps, backup_files, manifests, cycle, backup_mishaps, died, shared, completed>>
      /\ backup_time' = backup_time \/ (backup_time < BackupTime /\ backup_time' = backup_time + 1)
  BY DEF Bak!Tick, backupVars
<1>2. backup_time \in Nat /\ backup_time' \in Bak!Id /\ backup_time <= backup_time' /\ BackupTime \in Nat /\ Bak!Id \subseteq Nat
  BY <1>1 DEF BackupsInv, Bak!TypeOK, Bak!Id, Bak!BackupsAssumption
<1>3. Bak!TypeOK' /\ Apart' /\ Whole'
  BY <1>1, <1>2 DEF BackupsInv, Bak!TypeOK, Apart, Whole
<1>4. Matched' /\ (completed' => \E m \in Bak!Id : Good(m)')
  BY <1>1 DEF BackupsInv, Matched, Between, Good
<1>5. Begun'
  <2>1. \A i \in Bak!Id : i > backup_time' => i > backup_time
    BY <1>2
  <2>2. backup_time' # backup_time => backup_time' > backup_time
    BY <1>1, <1>2
  <2>3. QED
    BY <1>1, <1>2, <2>1, <2>2 DEF BackupsInv, Begun
<1>6. ASSUME NEW s \in BackupServer PROVE (Going(s) /\ Own(s) /\ Removed(s) /\ Succeeded(s))'
  <2>1. cycle[s].now \in Nat
    BY DEF BackupsInv, Bak!TypeOK
  <2>2. Going(s)'
    BY <1>1, <1>2, <2>1 DEF BackupsInv, Going
  <2>3. (Own(s) /\ Removed(s) /\ Succeeded(s))'
    BY <1>1 DEF BackupsInv, Own, Removed, Succeeded, Good
  <2>4. QED
    BY <2>2, <2>3
<1>7. QED
  BY <1>3, <1>4, <1>5, <1>6 DEF BackupsInv

\* The cycle of a server ends, or it has found what expired; nothing is written.
LEMMA CycleMoves ==
  ASSUME Bak!BackupsAssumption, BackupsInv, NEW s \in BackupServer, NEW step \in {"none", "file"},
         NEW expired \in SUBSET Bak!Id, Bak!Goes(s, step, expired),
         UNCHANGED <<backup_files, manifests, backup_time, shared, completed>>,
         temps' \in [Bak!Id -> {"none", "whole", "mixed"}], \A i \in Bak!Id : temps'[i] = temps[i] \/ temps'[i] = "none",
         backup_mishaps' \in 0..BackupMishaps, died' \subseteq Bak!Id, died \subseteq died',
         step = "file" => cycle[s].step = "list" /\ expired # {},
         expired \subseteq manifests, \A x \in expired : x < cycle[s].now,
         cycle[s].step = "manifest" => cycle[s].now \in died',
         cycle[s].step = "row" => Bak!Max(cycle[s].expired) \in died'
  PROVE  BackupsInv'
<1>1. PICK c \in CycleState :
        /\ c.step = step /\ c.now = cycle[s].now /\ c.expired = expired
        /\ cycle' \in [BackupServer -> CycleState] /\ cycle'[s] = c /\ \A q \in BackupServer \ {s} : cycle'[q] = cycle[q]
  BY GoesOn
<1>2. \A q \in BackupServer : cycle'[q].now = cycle[q].now
  BY <1>1
<1>3. Bak!TypeOK'
  BY <1>1 DEF BackupsInv, Bak!TypeOK, CycleState
<1>4. Apart' /\ Whole'
  BY <1>2 DEF BackupsInv, Apart, Whole
<1>5. Begun'
  <2>1. backup_time \in Bak!Id
    BY DEF BackupsInv, Bak!TypeOK
  <2>2. QED
    BY <1>2, <2>1 DEF BackupsInv, Begun
<1>6. Matched'
  <2>1. ASSUME NEW i \in Bak!Id, Between(i) PROVE Between(i)'
    BY <1>1, <2>1 DEF Between
  <2>2. QED
    BY <2>1 DEF BackupsInv, Matched
<1>7. completed' => \E m \in Bak!Id : Good(m)'
  BY DEF BackupsInv, Good
<1>8. ASSUME NEW q \in BackupServer PROVE (Going(q) /\ Own(q) /\ Removed(q) /\ Succeeded(q))'
  <2>1. Going(q) /\ Own(q) /\ Removed(q) /\ Succeeded(q)
    BY DEF BackupsInv
  <2>2. Going(q)'
    BY <1>1, <2>1 DEF Going
  <2>3. Own(q)'
    BY <1>1, <2>1 DEF Own
  <2>4. Removed(q)'
    BY <1>1, <2>1 DEF Removed
  <2>5. Succeeded(q)'
    BY <1>1, <2>1 DEF Succeeded, Good
  <2>6. QED
    BY <2>2, <2>3, <2>4, <2>5
<1>9. QED
  BY <1>3, <1>4, <1>5, <1>6, <1>7, <1>8 DEF BackupsInv

LEMMA StartCycleKeeps ==
  ASSUME Bak!BackupsAssumption, BackupsInv, NEW s \in BackupServer, Bak!StartCycle(s)
  PROVE  BackupsInv'
<1>1. /\ backup_time \in Bak!Id /\ backup_time \in 0..BackupTime /\ cycle \in [BackupServer -> CycleState]
      /\ cycle[s].step = "none" /\ cycle[s].now < backup_time
      /\ UNCHANGED <<backup_files, manifests, backup_time, backup_mishaps, died, completed>>
  BY DEF Bak!StartCycle, Bak!At, Bak!Now, BackupsInv, Bak!TypeOK, CycleState, Bak!Id, Bak!BackupsAssumption
<1>2. PICK c \in CycleState : c.step = "dump" /\ c.now = backup_time /\ c.expired = {} /\ cycle' = [cycle EXCEPT ![s] = c]
  <2>1. PICK start \in 0..BackupTime, none \in SUBSET Bak!Id, dump \in {"none", "dump", "manifest", "list", "file", "row"} :
          start = backup_time /\ none = {} /\ dump = "dump"
    BY <1>1
  <2>2. PICK c \in CycleState : /\ c = [step |-> dump, now |-> start, expired |-> none]
                                /\ c.step = dump /\ c.now = start /\ c.expired = none
    BY CycleRecord
  <2>3. cycle' = [cycle EXCEPT ![s] = c]
    BY <2>1, <2>2, Zenon DEF Bak!StartCycle
  <2>4. QED
    BY <2>1, <2>2, <2>3
<1>3. cycle' = [cycle EXCEPT ![s] = c]
  BY <1>2
<1>4. /\ cycle' \in [BackupServer -> CycleState] /\ cycle'[s] = c
      /\ \A q \in BackupServer \ {s} : cycle'[q] = cycle[q]
  BY <1>1, <1>3
<1>5. /\ shared \subseteq shared' /\ shared' \subseteq shared \union {backup_time}
      /\ \A r \in BackupServer \ {s} : cycle[r].now = backup_time => backup_time \in shared'
  BY DEF Bak!StartCycle, Bak!Now
<1>6. /\ temps' \in [Bak!Id -> {"none", "whole", "mixed"}]
      /\ \A i \in Bak!Id \ {backup_time} : temps'[i] = temps[i]
      /\ temps'[backup_time] = "mixed" => temps[backup_time] # "none"
  BY <1>1 DEF Bak!StartCycle, BackupsInv, Bak!TypeOK
<1>7. backup_time \in manifests \/ temps[backup_time] # "none" => backup_time \in shared'
  BY <1>1, <1>5 DEF BackupsInv, Begun
<1>8. Bak!TypeOK'
  BY <1>1, <1>4, <1>5, <1>6 DEF BackupsInv, Bak!TypeOK, CycleState
<1>9. Apart' /\ Begun'
  <2>1. Apart'
    BY <1>1, <1>2, <1>4, <1>5 DEF BackupsInv, Apart
  <2>2. \A i \in Bak!Id : i > backup_time => i # backup_time
    BY <1>1 DEF Bak!Id
  <2>3. Begun'
    BY <1>1, <1>2, <1>4, <1>6, <2>2 DEF BackupsInv, Begun
  <2>4. QED
    BY <2>1, <2>3
<1>10. Whole' /\ Matched'
  <2>1. Whole'
    BY <1>1, <1>5, <1>6, <1>7 DEF BackupsInv, Whole
  <2>2. ASSUME NEW i \in Bak!Id, Between(i) PROVE Between(i)'
    BY <1>1, <1>4, <1>5, <2>2 DEF Between
  <2>3. QED
    BY <1>1, <2>1, <2>2 DEF BackupsInv, Matched
<1>11. \A m \in Bak!Id : Good(m) => Good(m)'
  BY <1>1, <1>5 DEF Good
<1>12. completed' => \E m \in Bak!Id : Good(m)'
  BY <1>1, <1>11 DEF BackupsInv
<1>13. ASSUME NEW q \in BackupServer PROVE (Going(q) /\ Own(q) /\ Removed(q) /\ Succeeded(q))'
  <2>1. Going(q) /\ Own(q) /\ Removed(q) /\ Succeeded(q)
    BY DEF BackupsInv
  <2>2. Going(q)'
    BY <1>1, <1>2, <1>4, <2>1 DEF Going, Bak!Id
  <2>3. \A r \in BackupServer : backup_time \notin cycle'[r].expired
    <3>1. ASSUME NEW r \in BackupServer, r # s PROVE backup_time \notin cycle[r].expired
      <4>1. cycle[r].now \in Nat /\ backup_time \in Nat /\ cycle[r].now <= backup_time
        BY <1>1 DEF BackupsInv, Going, CycleState
      <4>2. backup_time < cycle[r].now => FALSE
        BY <4>1
      <4>3. QED
        BY <4>2 DEF BackupsInv, Going
    <3>2. QED
      BY <1>2, <1>4, <3>1
  <2>4. Own(q)'
    BY <1>1, <1>2, <1>4, <1>5, <1>7, <2>1, <2>3 DEF Own
  <2>5. Removed(q)'
    BY <1>1, <1>2, <1>4, <1>5, <2>1 DEF Removed
  <2>6. Succeeded(q)'
    BY <1>2, <1>4, <1>11, <2>1 DEF Succeeded
  <2>7. QED
    BY <2>2, <2>4, <2>5, <2>6
<1>14. QED
  BY <1>8, <1>9, <1>10, <1>12, <1>13 DEF BackupsInv

LEMMA DumpFailsKeeps ==
  ASSUME Bak!BackupsAssumption, BackupsInv, NEW s \in BackupServer, Bak!DumpFails(s) \/ Bak!Die(s)
  PROVE  BackupsInv'
<1>1. /\ Bak!Goes(s, "none", {}) /\ UNCHANGED <<backup_files, manifests, backup_time, shared, completed>>
      /\ backup_mishaps < BackupMishaps /\ backup_mishaps' = backup_mishaps + 1
  BY DEF Bak!DumpFails, Bak!Die, Bak!End
<1>2. backup_mishaps' \in 0..BackupMishaps
  BY <1>1 DEF BackupsInv, Bak!TypeOK, Bak!BackupsAssumption
<1>3. /\ temps' \in [Bak!Id -> {"none", "whole", "mixed"}]
      /\ \A i \in Bak!Id : temps'[i] = temps[i] \/ temps'[i] = "none"
  BY DEF Bak!DumpFails, Bak!Die, BackupsInv, Bak!TypeOK
<1>4. /\ cycle[s].step = "manifest" => cycle[s].now \in died'
      /\ cycle[s].step = "row" => Bak!Max(cycle[s].expired) \in died'
      /\ died \subseteq died'
  BY DEF Bak!DumpFails, Bak!Die, Bak!At, Bak!Now
<1>5. died' \subseteq Bak!Id
  <2>1. cycle[s].step = "manifest" => cycle[s].now \in Bak!Id
    BY DEF BackupsInv, Going
  <2>2. cycle[s].step = "row" => Bak!Max(cycle[s].expired) \in Bak!Id
    <3>1. cycle[s].expired \in SUBSET Bak!Id /\ (cycle[s].step = "row" => cycle[s].expired # {})
      BY DEF BackupsInv, Bak!TypeOK, Going
    <3>2. QED
      BY <3>1, NewestOf
  <2>3. QED
    BY <2>1, <2>2 DEF Bak!DumpFails, Bak!Die, Bak!At, Bak!Now, BackupsInv, Bak!TypeOK
<1>6. /\ "none" \in {"none", "file"} /\ {} \in SUBSET Bak!Id /\ {} \subseteq manifests
      /\ ("none" = "file" => cycle[s].step = "list" /\ {} # {}) /\ \A x \in {} : x < cycle[s].now
  OBVIOUS
<1>7. QED
  BY <1>1, <1>2, <1>3, <1>4, <1>5, <1>6, CycleMoves

LEMMA ListBackupsKeeps ==
  ASSUME Bak!BackupsAssumption, BackupsInv, NEW s \in BackupServer, Bak!ListBackups(s)
  PROVE  BackupsInv'
<1>1. cycle[s].step = "list" /\ UNCHANGED <<temps, backup_files, manifests, backup_time, backup_mishaps, died, shared, completed>>
  BY DEF Bak!ListBackups, Bak!At
<1>2. /\ temps' \in [Bak!Id -> {"none", "whole", "mixed"}] /\ (\A i \in Bak!Id : temps'[i] = temps[i] \/ temps'[i] = "none")
      /\ backup_mishaps' \in 0..BackupMishaps /\ died' \subseteq Bak!Id /\ died \subseteq died'
  BY <1>1 DEF BackupsInv, Bak!TypeOK
<1>3. /\ cycle[s].step = "manifest" => cycle[s].now \in died'
      /\ cycle[s].step = "row" => Bak!Max(cycle[s].expired) \in died'
  BY <1>1
<1>4. PICK S \in SUBSET Bak!Id : S = Bak!ExpiredAt(Bak!Now(s))
  BY DEF Bak!ExpiredAt, BackupsInv, Bak!TypeOK
<1>5. S \subseteq manifests /\ \A x \in S : x < cycle[s].now
  <2>1. S = {m \in manifests : m + BackupDays <= cycle[s].now}
    BY <1>4, Zenon DEF Bak!ExpiredAt, Bak!Now
  <2>2. cycle[s].now \in Nat /\ manifests \subseteq Nat
    BY DEF BackupsInv, Bak!TypeOK, Bak!Id, Bak!BackupsAssumption
  <2>3. \A x \in manifests : x + BackupDays <= cycle[s].now => x < cycle[s].now
    BY <2>2 DEF Bak!BackupsAssumption
  <2>4. QED
    BY <2>1, <2>3
<1>6. CASE S = {}
  <2>1. Bak!Goes(s, "none", {})
    BY <1>4, <1>6, Zenon DEF Bak!ListBackups, Bak!End
  <2>2. /\ "none" \in {"none", "file"} /\ {} \in SUBSET Bak!Id /\ {} \subseteq manifests
        /\ ("none" = "file" => cycle[s].step = "list" /\ {} # {}) /\ \A x \in {} : x < cycle[s].now
    OBVIOUS
  <2>3. QED
    BY <1>1, <1>2, <1>3, <2>1, <2>2, CycleMoves
<1>7. CASE S # {}
  <2>1. Bak!Goes(s, "file", S)
    BY <1>4, <1>7, Zenon DEF Bak!ListBackups
  <2>2. "file" \in {"none", "file"} /\ ("file" = "file" => cycle[s].step = "list" /\ S # {})
    BY <1>1, <1>7
  <2>3. QED
    BY <1>1, <1>2, <1>3, <1>5, <2>1, <2>2, CycleMoves
<1>8. QED
  BY <1>6, <1>7

LEMMA RenameKeeps ==
  ASSUME Bak!BackupsAssumption, BackupsInv, NEW s \in BackupServer, Bak!Rename(s)
  PROVE  BackupsInv'
<1>1. /\ cycle[s].step = "dump" /\ cycle[s].now \in Bak!Id /\ cycle[s].now <= backup_time /\ cycle[s].expired \in SUBSET Bak!Id
      /\ UNCHANGED <<manifests, backup_time, backup_mishaps, died, shared, completed>>
  BY DEF Bak!Rename, Bak!At, BackupsInv, Bak!TypeOK, Going
<1>2. CASE temps[cycle[s].now] = "none"
  <2>1. Bak!Goes(s, "none", {}) /\ UNCHANGED <<temps, backup_files>>
    BY <1>2, Zenon DEF Bak!Rename, Bak!End, Bak!Now
  <2>2. /\ temps' \in [Bak!Id -> {"none", "whole", "mixed"}] /\ (\A i \in Bak!Id : temps'[i] = temps[i] \/ temps'[i] = "none")
        /\ backup_mishaps' \in 0..BackupMishaps /\ died' \subseteq Bak!Id /\ died \subseteq died'
        /\ cycle[s].step = "manifest" => cycle[s].now \in died'
        /\ cycle[s].step = "row" => Bak!Max(cycle[s].expired) \in died'
    BY <1>1, <2>1 DEF BackupsInv, Bak!TypeOK
  <2>3. /\ "none" \in {"none", "file"} /\ {} \in SUBSET Bak!Id /\ {} \subseteq manifests
        /\ ("none" = "file" => cycle[s].step = "list" /\ {} # {}) /\ \A x \in {} : x < cycle[s].now
    OBVIOUS
  <2>4. QED
    BY <1>1, <2>1, <2>2, <2>3, CycleMoves
<1>3. CASE temps[cycle[s].now] # "none"
  <2>1. PICK n \in Bak!Id : n = cycle[s].now
    BY <1>1
  <2>2. Bak!Goes(s, "manifest", cycle[s].expired)
    BY <1>3, Zenon DEF Bak!Rename, Bak!Go, Bak!Now
  <2>3. PICK c \in CycleState :
          /\ c.step = "manifest" /\ c.now = cycle[s].now /\ c.expired = cycle[s].expired
          /\ cycle' \in [BackupServer -> CycleState] /\ cycle'[s] = c /\ \A q \in BackupServer \ {s} : cycle'[q] = cycle[q]
    BY <1>1, <2>2, GoesOn
  <2>4. PICK held \in {"whole", "mixed"} : held = temps[n]
    BY <1>3, <2>1 DEF BackupsInv, Bak!TypeOK
  <2>5. /\ backup_files' = [backup_files EXCEPT ![n] = [holds |-> held, ended |-> backup_time]]
        /\ temps' = [temps EXCEPT ![n] = "none"]
    BY <1>3, <2>1, <2>4, Zenon DEF Bak!Rename, Bak!Now
  <2>6. /\ [holds |-> held, ended |-> backup_time] \in [holds : {"none", "whole", "mixed"}, ended : 0..BackupTime]
        /\ [holds |-> held, ended |-> backup_time].holds = held /\ [holds |-> held, ended |-> backup_time].ended = backup_time
    BY DEF BackupsInv, Bak!TypeOK, Bak!Id, Bak!BackupsAssumption
  <2>7. /\ backup_files' \in [Bak!Id -> [holds : {"none", "whole", "mixed"}, ended : 0..BackupTime]]
        /\ backup_files'[n].holds = held /\ backup_files'[n].ended = backup_time /\ \A i \in Bak!Id \ {n} : backup_files'[i] = backup_files[i]
    BY <2>5, <2>6 DEF BackupsInv, Bak!TypeOK
  <2>8. /\ temps' \in [Bak!Id -> {"none", "whole", "mixed"}] /\ temps'[n] = "none"
        /\ \A i \in Bak!Id \ {n} : temps'[i] = temps[i]
    BY <2>5 DEF BackupsInv, Bak!TypeOK
  <2>9. held = "mixed" => n \in shared
    BY <2>4 DEF BackupsInv, Whole
  <2>10. Bak!TypeOK'
    BY <1>1, <2>3, <2>7, <2>8 DEF BackupsInv, Bak!TypeOK, CycleState
  <2>11. /\ \A q \in BackupServer : cycle'[q].now = cycle[q].now /\ cycle'[q].expired = cycle[q].expired
         /\ \A q \in BackupServer \ {s} : cycle'[q].step = cycle[q].step
    BY <2>3
  <2>12. Apart' /\ Begun'
    <3>1. \A i \in Bak!Id : temps'[i] # "none" => temps[i] # "none"
      BY <2>8
    <3>2. backup_time \in Bak!Id
      BY DEF BackupsInv, Bak!TypeOK
    <3>3. QED
      BY <1>1, <2>8, <2>11, <3>1, <3>2 DEF BackupsInv, Apart, Begun
  <2>13. Whole'
    BY <1>1, <2>1, <2>4, <2>7, <2>8, <2>9 DEF BackupsInv, Whole
  <2>14. Matched'
    <3>1. Between(n)'
      BY <2>1, <2>3 DEF Between
    <3>2. ASSUME NEW i \in Bak!Id \ {n}, Between(i) PROVE Between(i)'
      BY <1>1, <2>3, <3>2 DEF Between
    <3>3. QED
      BY <1>1, <2>7, <3>1, <3>2 DEF BackupsInv, Matched
  <2>15. \A m \in Bak!Id : Good(m) => Good(m)'
    BY <1>1, <2>7, <2>9 DEF Good
  <2>16. completed' => \E m \in Bak!Id : Good(m)'
    BY <1>1, <2>15 DEF BackupsInv
  <2>17. ASSUME NEW q \in BackupServer PROVE (Going(q) /\ Own(q) /\ Removed(q) /\ Succeeded(q))'
    <3>1. Going(q) /\ Own(q) /\ Removed(q) /\ Succeeded(q) /\ Own(s)
      BY DEF BackupsInv
    <3>2. Going(q)'
      BY <1>1, <2>1, <2>3, <3>1 DEF Going
    <3>3. Own(q)'
      <4>1. CASE q = s
        BY <1>1, <2>1, <2>7, <2>9, <2>11, <3>1, <4>1 DEF Own
      <4>2. CASE q # s
        <5>1. cycle[q].now = n /\ n \in Bak!Id => n \in shared
          BY <2>1, <4>2 DEF BackupsInv, Apart, Bak!Id
        <5>2. cycle[q].step # "none" => cycle[q].now \in Bak!Id
          BY <3>1 DEF Going
        <5>3. QED
          BY <1>1, <2>7, <2>11, <3>1, <4>2, <5>1, <5>2 DEF Own
      <4>3. QED
        BY <4>1, <4>2
    <3>4. Removed(q)'
      <4>1. CASE q # s /\ cycle[q].step = "row" /\ Bak!Max(cycle[q].expired) \notin shared
        <5>1. cycle[q].expired \in SUBSET Bak!Id /\ cycle[q].expired # {}
          BY <3>1, <4>1 DEF BackupsInv, Bak!TypeOK, Going
        <5>2. Bak!Max(cycle[q].expired) \in cycle[q].expired
          BY <5>1, NewestOf
        <5>3. Bak!Max(cycle[q].expired) # n
          BY <1>1, <2>1, <3>1, <4>1, <5>2 DEF Own
        <5>4. backup_files'[Bak!Max(cycle[q].expired)] = Bak!NoFile
          BY <2>7, <3>1, <4>1, <5>1, <5>2, <5>3 DEF Removed
        <5>5. QED
          BY <2>11, <4>1, <5>4 DEF Removed
      <4>2. QED
        BY <1>1, <2>3, <4>1 DEF Removed
    <3>5. Succeeded(q)'
      BY <2>3, <2>15, <3>1 DEF Succeeded
    <3>6. QED
      BY <3>2, <3>3, <3>4, <3>5
  <2>18. QED
    BY <2>10, <2>12, <2>13, <2>14, <2>16, <2>17 DEF BackupsInv
<1>4. QED
  BY <1>2, <1>3

LEMMA WriteManifestKeeps ==
  ASSUME Bak!BackupsAssumption, BackupsInv, NEW s \in BackupServer, Bak!WriteManifest(s)
  PROVE  BackupsInv'
<1>1. /\ cycle[s].step = "manifest" /\ cycle[s].now <= backup_time /\ cycle[s].expired \in SUBSET Bak!Id /\ completed'
      /\ UNCHANGED <<temps, backup_files, backup_time, backup_mishaps, died, shared>>
  BY DEF Bak!WriteManifest, Bak!At, BackupsInv, Bak!TypeOK, Going
<1>2. PICK n \in Bak!Id : n = cycle[s].now
  BY <1>1 DEF BackupsInv, Going
<1>3. manifests' = manifests \union {n}
  BY <1>2 DEF Bak!WriteManifest, Bak!Now
<1>4. Bak!Goes(s, "list", cycle[s].expired)
  BY Zenon DEF Bak!WriteManifest, Bak!Go
<1>5. PICK c \in CycleState :
        /\ c.step = "list" /\ c.now = cycle[s].now /\ c.expired = cycle[s].expired
        /\ cycle' \in [BackupServer -> CycleState] /\ cycle'[s] = c /\ \A q \in BackupServer \ {s} : cycle'[q] = cycle[q]
  BY <1>1, <1>4, GoesOn
<1>6. /\ \A q \in BackupServer : cycle'[q].now = cycle[q].now /\ cycle'[q].expired = cycle[q].expired
      /\ \A q \in BackupServer \ {s} : cycle'[q].step = cycle[q].step
  BY <1>5
<1>7. Bak!TypeOK' /\ Apart' /\ Whole'
  <2>1. Bak!TypeOK'
    BY <1>1, <1>3, <1>5 DEF BackupsInv, Bak!TypeOK, CycleState, Bak!WriteManifest
  <2>2. QED
    BY <1>1, <1>6, <2>1 DEF BackupsInv, Apart, Whole
<1>8. Begun'
  <2>1. backup_time \in Bak!Id /\ \A i \in Bak!Id : i > backup_time => i # n
    BY <1>1, <1>2 DEF BackupsInv, Bak!TypeOK, Bak!Id
  <2>2. QED
    BY <1>1, <1>2, <1>3, <1>6, <2>1 DEF BackupsInv, Begun
<1>9. Good(n)' /\ (n \in shared \/ backup_files[n] # Bak!NoFile)
  BY <1>1, <1>2, <1>3 DEF BackupsInv, Own, Good, Bak!NoFile
<1>10. Matched'
  <2>1. ASSUME NEW i \in Bak!Id \ {n}, Between(i) PROVE Between(i)'
    BY <1>1, <1>2, <1>5, <2>1 DEF Between
  <2>2. n \in shared => Between(n)'
    BY <1>1 DEF Between
  <2>3. QED
    BY <1>1, <1>3, <1>9, <2>1, <2>2 DEF BackupsInv, Matched
<1>11. \A m \in Bak!Id : Good(m) => Good(m)'
  BY <1>1, <1>3 DEF Good
<1>12. ASSUME NEW q \in BackupServer PROVE (Going(q) /\ Own(q) /\ Removed(q) /\ Succeeded(q))'
  <2>1. Going(q) /\ Own(q) /\ Removed(q) /\ Succeeded(q)
    BY DEF BackupsInv
  <2>2. Going(q)'
    BY <1>1, <1>2, <1>5, <2>1 DEF Going
  <2>3. Own(q)'
    <3>1. q # s /\ cycle[q].now = n => n \in shared
      BY <1>2 DEF BackupsInv, Apart, Bak!Id
    <3>2. QED
      BY <1>1, <1>2, <1>3, <1>5, <1>6, <2>1, <3>1 DEF Own
  <2>4. Removed(q)'
    BY <1>1, <1>5, <2>1 DEF Removed
  <2>5. Succeeded(q)'
    <3>1. n <= n
      BY DEF Bak!Id
    <3>2. QED
      BY <1>2, <1>5, <1>9, <1>11, <2>1, <3>1 DEF Succeeded
  <2>6. QED
    BY <2>2, <2>3, <2>4, <2>5
<1>13. QED
  BY <1>7, <1>8, <1>9, <1>10, <1>12 DEF BackupsInv

\* What is removed next is never the last that there is.
LEMMA NewerIsThere ==
  ASSUME Bak!BackupsAssumption, BackupsInv, NEW s \in BackupServer, cycle[s].step \in {"file", "row"}
  PROVE  \E m \in Bak!Id :
           /\ m = Bak!Max(cycle[s].expired) /\ m \in cycle[s].expired
           /\ \A n \in 0..BackupTime : (\E w \in Bak!Id : Good(w) /\ n <= w) => \E w \in Bak!Id \ {m} : Good(w) /\ n <= w
<1>1. cycle[s].expired \in SUBSET Bak!Id /\ cycle[s].expired # {} /\ cycle[s].now \in 0..BackupTime
  BY DEF BackupsInv, Bak!TypeOK, Going
<1>2. PICK m \in Bak!Id : m = Bak!Max(cycle[s].expired) /\ m \in cycle[s].expired
  BY <1>1, NewestOf
<1>3. m < cycle[s].now
  BY <1>2 DEF BackupsInv, Going
<1>4. PICK g \in Bak!Id : Good(g) /\ cycle[s].now <= g
  BY DEF BackupsInv, Succeeded
<1>5. m < g /\ g # m
  BY <1>1, <1>3, <1>4 DEF Bak!Id, Bak!BackupsAssumption
<1>6. ASSUME NEW n \in 0..BackupTime, NEW w \in Bak!Id, Good(w), n <= w
      PROVE  \E v \in Bak!Id \ {m} : Good(v) /\ n <= v
  <2>1. w = m => n <= g
    BY <1>5, <1>6 DEF Bak!Id, Bak!BackupsAssumption
  <2>2. QED
    BY <1>4, <1>5, <1>6, <2>1
<1>7. QED
  BY <1>2, <1>6

LEMMA RemoveFileKeeps ==
  ASSUME Bak!BackupsAssumption, BackupsInv, NEW s \in BackupServer, Bak!RemoveFile(s)
  PROVE  BackupsInv'
<1>1. /\ cycle[s].step = "file" /\ cycle[s].expired \in SUBSET Bak!Id
      /\ UNCHANGED <<temps, manifests, backup_time, backup_mishaps, died, shared, completed>>
  BY DEF Bak!RemoveFile, Bak!At, BackupsInv, Bak!TypeOK
<1>2. PICK m \in Bak!Id :
        /\ m = Bak!Max(cycle[s].expired) /\ m \in cycle[s].expired
        /\ \A n \in 0..BackupTime : (\E w \in Bak!Id : Good(w) /\ n <= w) => \E w \in Bak!Id \ {m} : Good(w) /\ n <= w
  BY <1>1, NewerIsThere
<1>3. backup_files' = [backup_files EXCEPT ![m] = Bak!NoFile]
  BY <1>2, Zenon DEF Bak!RemoveFile
<1>4. Bak!NoFile \in [holds : {"none", "whole", "mixed"}, ended : 0..BackupTime] /\ Bak!NoFile.holds = "none"
  BY DEF Bak!NoFile, Bak!BackupsAssumption
<1>5. /\ backup_files' \in [Bak!Id -> [holds : {"none", "whole", "mixed"}, ended : 0..BackupTime]]
      /\ backup_files'[m] = Bak!NoFile /\ \A i \in Bak!Id \ {m} : backup_files'[i] = backup_files[i]
  BY <1>3, <1>4 DEF BackupsInv, Bak!TypeOK
<1>6. Bak!Goes(s, "row", cycle[s].expired)
  BY Zenon DEF Bak!RemoveFile, Bak!Go
<1>7. PICK c \in CycleState :
        /\ c.step = "row" /\ c.now = cycle[s].now /\ c.expired = cycle[s].expired
        /\ cycle' \in [BackupServer -> CycleState] /\ cycle'[s] = c /\ \A q \in BackupServer \ {s} : cycle'[q] = cycle[q]
  BY <1>1, <1>6, GoesOn
<1>8. /\ \A q \in BackupServer : cycle'[q].now = cycle[q].now /\ cycle'[q].expired = cycle[q].expired
      /\ \A q \in BackupServer \ {s} : cycle'[q].step = cycle[q].step
  BY <1>7
<1>9. Bak!TypeOK' /\ Apart' /\ Begun' /\ Whole'
  <2>1. Bak!TypeOK'
    BY <1>1, <1>5, <1>7 DEF BackupsInv, Bak!TypeOK, CycleState
  <2>2. Apart' /\ Begun'
    <3>1. backup_time \in Bak!Id
      BY DEF BackupsInv, Bak!TypeOK
    <3>2. QED
      BY <1>1, <1>8, <3>1 DEF BackupsInv, Apart, Begun
  <2>3. Whole'
    BY <1>1, <1>4, <1>5 DEF BackupsInv, Whole
  <2>4. QED
    BY <2>1, <2>2, <2>3
<1>10. Matched'
  <2>1. Between(m)'
    BY <1>2, <1>7 DEF Between
  <2>2. ASSUME NEW i \in Bak!Id \ {m}, Between(i) PROVE Between(i)'
    BY <1>1, <1>7, <2>2 DEF Between
  <2>3. QED
    BY <1>1, <1>5, <2>1, <2>2 DEF BackupsInv, Matched
<1>11. \A w \in Bak!Id \ {m} : Good(w) => Good(w)'
  BY <1>1, <1>5 DEF Good
<1>12. completed' => \E w \in Bak!Id : Good(w)'
  <2>1. 0 \in 0..BackupTime /\ \A w \in Bak!Id : 0 <= w
    BY DEF Bak!Id, Bak!BackupsAssumption
  <2>2. QED
    BY <1>1, <1>2, <1>11, <2>1 DEF BackupsInv
<1>13. ASSUME NEW q \in BackupServer PROVE (Going(q) /\ Own(q) /\ Removed(q) /\ Succeeded(q))'
  <2>1. Going(q) /\ Own(q) /\ Removed(q) /\ Succeeded(q) /\ Going(s) /\ cycle[q].now \in 0..BackupTime
    BY DEF BackupsInv, Bak!TypeOK
  <2>2. Going(q)'
    BY <1>1, <1>7, <2>1 DEF Going
  <2>3. Own(q)'
    <3>1. cycle[q].step # "none" => cycle[q].now \in Bak!Id
      BY <2>1 DEF Going
    <3>2. QED
      BY <1>1, <1>2, <1>5, <1>7, <1>8, <2>1, <3>1 DEF Own
  <2>4. Removed(q)'
    <3>1. CASE q = s
      BY <1>2, <1>5, <1>7, <3>1 DEF Removed
    <3>2. CASE q # s /\ cycle[q].step = "row" /\ Bak!Max(cycle[q].expired) \notin shared
      <4>1. Bak!Max(cycle[q].expired) \in Bak!Id
        BY <1>1, <3>2, NewerIsThere
      <4>2. backup_files'[Bak!Max(cycle[q].expired)] = Bak!NoFile
        BY <1>5, <2>1, <3>2, <4>1 DEF Removed
      <4>3. QED
        BY <1>8, <3>2, <4>2 DEF Removed
    <3>3. QED
      BY <1>1, <1>7, <3>1, <3>2 DEF Removed
  <2>5. Succeeded(q)'
    <3>1. cycle[q].step \in {"list", "file", "row"} => \E w \in Bak!Id \ {m} : Good(w) /\ cycle[q].now <= w
      BY <1>2, <2>1 DEF Succeeded
    <3>2. cycle'[q].step \in {"list", "file", "row"} => cycle[q].step \in {"list", "file", "row"}
      BY <1>1, <1>8, SMTT(30)
    <3>3. QED
      BY <1>8, <1>11, <3>1, <3>2 DEF Succeeded
  <2>6. QED
    BY <2>2, <2>3, <2>4, <2>5
<1>14. QED
  BY <1>9, <1>10, <1>12, <1>13 DEF BackupsInv

LEMMA RemoveManifestKeeps ==
  ASSUME Bak!BackupsAssumption, BackupsInv, NEW s \in BackupServer, Bak!RemoveManifest(s)
  PROVE  BackupsInv'
<1>1. /\ cycle[s].step = "row" /\ cycle[s].expired \in SUBSET Bak!Id
      /\ UNCHANGED <<temps, backup_files, backup_time, backup_mishaps, died, shared, completed>>
  BY DEF Bak!RemoveManifest, Bak!At, BackupsInv, Bak!TypeOK
<1>2. PICK m \in Bak!Id :
        /\ m = Bak!Max(cycle[s].expired) /\ m \in cycle[s].expired
        /\ \A n \in 0..BackupTime : (\E w \in Bak!Id : Good(w) /\ n <= w) => \E w \in Bak!Id \ {m} : Good(w) /\ n <= w
  BY <1>1, NewerIsThere
<1>3. manifests' = manifests \ {m}
  BY <1>2, Zenon DEF Bak!RemoveManifest
<1>4. PICK step \in {"none", "dump", "manifest", "list", "file", "row"}, rest \in SUBSET Bak!Id :
        /\ step \in {"none", "file"} /\ (step = "file" => rest # {}) /\ rest \subseteq cycle[s].expired
        /\ Bak!Goes(s, step, rest)
  <2>1. PICK rest \in SUBSET Bak!Id : rest = cycle[s].expired \ {m}
    BY <1>1
  <2>2. CASE rest = {}
    <3>1. Bak!Goes(s, "none", {})
      BY <1>2, <2>1, <2>2, Zenon DEF Bak!RemoveManifest, Bak!End
    <3>2. QED
      BY <3>1
  <2>3. CASE rest # {}
    <3>1. Bak!Goes(s, "file", rest)
      BY <1>2, <2>1, <2>3, Zenon DEF Bak!RemoveManifest
    <3>2. rest \subseteq cycle[s].expired
      BY <2>1
    <3>3. QED
      BY <2>3, <3>1, <3>2
  <2>4. QED
    BY <2>2, <2>3
<1>5. PICK c \in CycleState :
        /\ c.step = step /\ c.now = cycle[s].now /\ c.expired = rest
        /\ cycle' \in [BackupServer -> CycleState] /\ cycle'[s] = c /\ \A q \in BackupServer \ {s} : cycle'[q] = cycle[q]
  BY <1>4, GoesOn
<1>6. /\ \A q \in BackupServer : cycle'[q].now = cycle[q].now /\ cycle'[q].expired \subseteq cycle[q].expired
      /\ \A q \in BackupServer \ {s} : cycle'[q].step = cycle[q].step
  BY <1>4, <1>5
<1>7. Bak!TypeOK' /\ Apart' /\ Begun' /\ Whole'
  <2>1. Bak!TypeOK'
    BY <1>1, <1>3, <1>5 DEF BackupsInv, Bak!TypeOK, CycleState
  <2>2. Apart' /\ Begun'
    <3>1. backup_time \in Bak!Id
      BY DEF BackupsInv, Bak!TypeOK
    <3>2. QED
      BY <1>1, <1>3, <1>6, <3>1 DEF BackupsInv, Apart, Begun
  <2>3. QED
    BY <1>1, <2>1, <2>2 DEF BackupsInv, Whole
<1>8. Matched'
  <2>1. (m \notin manifests' /\ backup_files'[m] = Bak!NoFile) \/ Between(m)'
    BY <1>1, <1>2, <1>3 DEF BackupsInv, Removed, Between
  <2>2. ASSUME NEW i \in Bak!Id \ {m}, Between(i) PROVE Between(i)'
    BY <1>1, <1>2, <1>5, <2>2 DEF Between
  <2>3. QED
    BY <1>1, <1>3, <2>1, <2>2 DEF BackupsInv, Matched
<1>9. \A w \in Bak!Id \ {m} : Good(w) => Good(w)'
  BY <1>1, <1>3 DEF Good
<1>10. completed' => \E w \in Bak!Id : Good(w)'
  <2>1. 0 \in 0..BackupTime /\ \A w \in Bak!Id : 0 <= w
    BY DEF Bak!Id, Bak!BackupsAssumption
  <2>2. QED
    BY <1>1, <1>2, <1>9, <2>1 DEF BackupsInv
<1>11. ASSUME NEW q \in BackupServer PROVE (Going(q) /\ Own(q) /\ Removed(q) /\ Succeeded(q))'
  <2>1. Going(q) /\ Own(q) /\ Removed(q) /\ Succeeded(q) /\ cycle[q].now \in 0..BackupTime
    BY DEF BackupsInv, Bak!TypeOK
  <2>2. Going(q)'
    BY <1>1, <1>4, <1>5, <2>1 DEF Going
  <2>3. Own(q)'
    BY <1>1, <1>3, <1>4, <1>5, <1>6, <2>1 DEF Own
  <2>4. Removed(q)'
    BY <1>1, <1>4, <1>5, <2>1 DEF Removed
  <2>5. Succeeded(q)'
    <3>1. cycle[q].step \in {"list", "file", "row"} => \E w \in Bak!Id \ {m} : Good(w) /\ cycle[q].now <= w
      BY <1>2, <2>1 DEF Succeeded
    <3>2. cycle'[q].step \in {"list", "file", "row"} => cycle[q].step \in {"list", "file", "row"}
      BY <1>1, <1>6
    <3>3. QED
      BY <1>6, <1>9, <3>1, <3>2 DEF Succeeded
  <2>6. QED
    BY <2>2, <2>3, <2>4, <2>5
<1>12. QED
  BY <1>7, <1>8, <1>10, <1>11 DEF BackupsInv

LEMMA BackupsStep ==
  ASSUME Bak!BackupsAssumption, BackupsInv, [Bak!Next]_backupVars
  PROVE  BackupsInv'
<1>1. CASE Bak!Tick \/ UNCHANGED backupVars
  BY <1>1, CycleTicks
<1>2. CASE \E s \in BackupServer :
             \/ Bak!StartCycle(s) \/ Bak!DumpFails(s) \/ Bak!Rename(s) \/ Bak!WriteManifest(s)
             \/ Bak!ListBackups(s) \/ Bak!RemoveFile(s) \/ Bak!RemoveManifest(s) \/ Bak!Die(s)
  <2>1. PICK s \in BackupServer :
             \/ Bak!StartCycle(s) \/ Bak!DumpFails(s) \/ Bak!Rename(s) \/ Bak!WriteManifest(s)
             \/ Bak!ListBackups(s) \/ Bak!RemoveFile(s) \/ Bak!RemoveManifest(s) \/ Bak!Die(s)
    BY <1>2
  <2>2. QED
    BY <2>1, StartCycleKeeps, DumpFailsKeeps, RenameKeeps, WriteManifestKeeps, ListBackupsKeeps,
       RemoveFileKeeps, RemoveManifestKeeps
<1>3. QED
  BY <1>1, <1>2 DEF Bak!Next

LEMMA BackupsHold ==
  ASSUME Bak!BackupsAssumption, BackupsInv
  PROVE  Bak!FileAndManifest /\ Bak!BackupKept /\ Bak!PlanRestores
<1>1. \A i \in Bak!Id : Between(i) => i \in Bak!Pruning \union Bak!Written \union died \union shared
  BY Zenon DEF Between, Bak!Pruning, Bak!Written, Bak!At, Bak!Now
<1>2. \A i \in Bak!Id : (i \in manifests) # (backup_files[i] # Bak!NoFile) => Between(i)
  BY DEF BackupsInv, Matched
<1>3. Bak!FileAndManifest
  BY <1>1, <1>2 DEF Bak!FileAndManifest
<1>4. Bak!BackupKept
  BY DEF BackupsInv, Good, Bak!BackupKept
<1>5. ASSUME NEW t \in 1..backup_time, \E m \in manifests : Bak!Restores(m, t)
      PROVE  \/ Bak!Restores(Bak!selectBackupForTimestamp(t), t)
             \/ /\ backup_files[Bak!selectBackupForTimestamp(t)].holds = "whole" /\ Bak!selectBackupForTimestamp(t) <= t
                /\ t < backup_files[Bak!selectBackupForTimestamp(t)].ended
             \/ Bak!selectBackupForTimestamp(t) \in Bak!Pruning \union died \union shared
  <2>1. manifests \in SUBSET Bak!Id /\ Bak!Id \subseteq Nat /\ t \in Nat
    BY DEF BackupsInv, Bak!TypeOK, Bak!Id, Bak!BackupsAssumption
  <2>2. PICK S \in SUBSET Bak!Id : S = {m \in manifests : m <= t}
    BY <2>1
  <2>3. S # {}
    <3>1. PICK m \in manifests : backup_files[m].holds = "whole" /\ backup_files[m].ended <= t
      BY <1>5 DEF Bak!Restores
    <3>2. m \in Nat /\ m <= backup_files[m].ended /\ backup_files[m].ended \in Nat
      BY <2>1, <3>1 DEF BackupsInv, Whole, Bak!TypeOK
    <3>3. PICK ended \in Nat : ended = backup_files[m].ended /\ m <= ended /\ ended <= t
      BY <3>1, <3>2
    <3>4. m <= t
      BY <2>1, <3>2, <3>3
    <3>5. QED
      BY <2>2, <3>4
  <2>4. PICK p \in Bak!Id : p = Bak!selectBackupForTimestamp(t) /\ p \in S
    <3>1. Bak!selectBackupForTimestamp(t) = Bak!Max(S)
      BY <2>2, Zenon DEF Bak!selectBackupForTimestamp
    <3>2. QED
      BY <2>3, <3>1, NewestOf
  <2>5. p \in manifests /\ p <= t
    BY <2>2, <2>4
  <2>6. CASE p \notin Bak!Pruning \union died \union shared
    <3>1. \A r \in BackupServer : ~(cycle[r].step = "row" /\ Bak!Max(cycle[r].expired) = p)
      BY <2>6, Zenon DEF Bak!Pruning, Bak!At
    <3>2. \A r \in BackupServer : ~(cycle[r].step = "manifest" /\ cycle[r].now = p)
      BY <2>5, <2>6 DEF BackupsInv, Own
    <3>3. backup_files[p] # Bak!NoFile
      BY <2>5, <2>6, <3>1, <3>2 DEF BackupsInv, Matched, Between
    <3>4. backup_files[p].holds = "whole" /\ backup_files[p].ended \in Nat
      BY <2>6, <3>3 DEF BackupsInv, Whole, Bak!TypeOK
    <3>5. backup_files[p].ended <= t \/ t < backup_files[p].ended
      BY <2>1, <3>4
    <3>6. QED
      BY <2>4, <2>5, <3>4, <3>5 DEF Bak!Restores
  <2>7. QED
    BY <2>4, <2>6
<1>6. Bak!PlanRestores
  BY <1>5, Zenon DEF Bak!PlanRestores
<1>7. QED
  BY <1>3, <1>4, <1>6

----
(* The types: the bounds that no other invariant needs *)

CallState == [step : {"none", "fire", "fallback", "done", "failed"},
              attempt : 0..BreakerRetries, about : GuardRequest \cup {Grd!Nobody}]
BreakerTypes ==
  /\ circuit \in [state : {"closed", "open", "half_open"}, of : GuardRequest \cup {Grd!Nobody},
                  fallback : BOOLEAN]
  /\ calls \in [GuardRequest -> CallState]
  /\ errors \in 0..GuardErrors

LEMMA BreakerStep ==
  ASSUME Grd!GuardsAssumption, BreakerTypes, [Grd!BreakerNext]_breakerVars, errors' = errors \/ Grd!Error
  PROVE  BreakerTypes'
<1>1. errors' \in 0..GuardErrors
  BY DEF BreakerTypes, Grd!Error, Grd!GuardsAssumption
<1>2. CASE Grd!ResetTimeout \/ UNCHANGED breakerVars
  BY <1>1, <1>2 DEF BreakerTypes, Grd!ResetTimeout, breakerVars
<1>3. ASSUME NEW r \in GuardRequest, Grd!Execute(r) PROVE BreakerTypes'
  BY <1>1, <1>3 DEF BreakerTypes, CallState, Grd!Execute
<1>4. ASSUME NEW r \in GuardRequest, Grd!Fire(r) PROVE BreakerTypes'
  <2>1. circuit' = circuit \/ \E state \in {"closed", "open"} : circuit' = [circuit EXCEPT !.state = state]
    BY <1>4 DEF Grd!Fire, Grd!CallFails
  <2>2. calls[r] \in CallState /\ BreakerRetries \in Nat
    BY DEF BreakerTypes, Grd!GuardsAssumption
  <2> DEFINE x == IF circuit.fallback THEN [calls[r] EXCEPT !.step = "fallback"]
                  ELSE IF circuit'.state = "closed" /\ calls[r].attempt < BreakerRetries
                  THEN [calls[r] EXCEPT !.attempt = calls[r].attempt + 1]
                  ELSE [calls[r] EXCEPT !.step = "failed"]
  <2>4. x \in CallState
    BY <2>2 DEF CallState
  <2>5. calls' = [calls EXCEPT ![r].step = "done", ![r].about = circuit.of] \/ calls' = [calls EXCEPT ![r] = x]
    BY <1>4 DEF Grd!Fire
  <2> HIDE DEF x
  <2>6. calls' \in [GuardRequest -> CallState]
    BY <2>4, <2>5 DEF CallState, BreakerTypes
  <2>7. QED
    BY <1>1, <2>1, <2>6 DEF BreakerTypes
<1>5. QED
  BY <1>2, <1>3, <1>4 DEF Grd!BreakerNext

\* The stamps and the scripts under way are no more than the scripts there were.
Waiting == {r \in GuardRequest : arrived[r] # -1}
WindowBounds ==
  /\ now \in 0..WindowTime /\ arrived \in [GuardRequest -> {-1} \cup 0..WindowTime] /\ scripts \in 0..WindowScripts
  /\ Cardinality(admitted) + Cardinality(Waiting) <= scripts
  /\ admitted \subseteq Grd!Stamp

LEMMA OneMoreLetThrough ==
  ASSUME WindowTypes, admitted \subseteq Grd!Stamp, NEW t \in 0..WindowTime, Cardinality(admitted) <= WindowScripts,
         Grd!LetThrough(t, TRUE) \/ Grd!LetThrough(t, FALSE), WindowScripts \in Nat
  PROVE  /\ admitted' \subseteq Grd!Stamp
         /\ Cardinality(admitted') <= Cardinality(admitted) + 1 /\ Cardinality(admitted') \in Nat
<1>1. Cardinality(admitted) \in Nat /\ IsFiniteSet(admitted)
  BY GrdSizes, FS_CardinalityType DEF WindowTypes
<1>2. PICK x : /\ \E c \in BOOLEAN : x = [at |-> t, id |-> Cardinality(admitted), counted |-> c]
               /\ admitted' = admitted \cup {x}
  BY Zenon, GrdSizes DEF Grd!LetThrough, Grd!StampAt
<1>3. x \in Grd!Stamp
  BY <1>1, <1>2 DEF Grd!Stamp
<1>4. QED
  BY <1>1, <1>2, <1>3, OneMoreAtMost

LEMMA WindowBound ==
  ASSUME Grd!GuardsAssumption, WindowTypes, WindowBounds, Grd!WindowNext \/ UNCHANGED windowVars
  PROVE  WindowBounds'
<1>1. Cardinality(admitted) \in Nat /\ IsFiniteSet(admitted) /\ Waiting \subseteq GuardRequest /\ IsFiniteSet(GuardRequest)
      /\ Cardinality(Waiting) \in Nat
  BY GrdSizes, FS_Subset, FS_CardinalityType DEF Waiting, Grd!GuardsAssumption, WindowTypes
<1>2. WindowTime \in Nat /\ WindowScripts \in Nat
  BY DEF Grd!GuardsAssumption
<1>3. CASE UNCHANGED windowVars
  BY <1>3 DEF WindowBounds, Waiting, windowVars
<1>4. CASE Grd!Tick
  <2>1. now < WindowTime /\ now' = now + 1 /\ UNCHANGED <<arrived, scripts, admitted>>
    BY <1>4 DEF Grd!Tick
  <2>2. QED
    BY <1>2, <2>1 DEF WindowBounds, Waiting
<1>5. ASSUME NEW r \in GuardRequest, Grd!Arrive(r) PROVE WindowBounds'
  <2>1. /\ arrived[r] = -1 /\ scripts < WindowScripts /\ scripts' = scripts + 1 /\ now' = now
        /\ \/ arrived' = [arrived EXCEPT ![r] = now] /\ UNCHANGED admitted
           \/ Grd!LetThrough(now, FALSE) /\ UNCHANGED arrived
    BY <1>5 DEF Grd!Arrive
  <2>2. CASE arrived' = [arrived EXCEPT ![r] = now] /\ UNCHANGED admitted
    <3>1. Waiting' = Waiting \cup {r} /\ r \notin Waiting
      BY <2>1, <2>2, <1>2 DEF WindowBounds, Waiting
    <3>2. QED
      BY <1>1, <1>2, <2>1, <2>2, <3>1, PartCounted DEF WindowBounds
  <2>3. CASE Grd!LetThrough(now, FALSE) /\ UNCHANGED arrived
    <3>1. Waiting' = Waiting
      BY <2>3 DEF Waiting
    <3>2. now \in 0..WindowTime /\ Cardinality(admitted) <= WindowScripts /\ admitted \subseteq Grd!Stamp
      BY <1>1, <1>2, <2>1 DEF WindowBounds
    <3>3. /\ admitted' \subseteq Grd!Stamp
          /\ Cardinality(admitted') <= Cardinality(admitted) + 1 /\ Cardinality(admitted') \in Nat
      BY <1>2, <2>3, <3>2, OneMoreLetThrough
    <3>4. QED
      BY <1>1, <1>2, <2>1, <2>3, <3>1, <3>3 DEF WindowBounds
  <2>4. QED
    BY <2>1, <2>2, <2>3
<1>6. ASSUME NEW r \in GuardRequest, Grd!RunScript(r) PROVE WindowBounds'
  <2>1. /\ arrived[r] # -1 /\ arrived' = [arrived EXCEPT ![r] = -1] /\ UNCHANGED <<now, scripts>>
        /\ \/ Grd!LetThrough(arrived[r], TRUE) \/ Grd!LetThrough(arrived[r], FALSE)
           \/ admitted' = admitted
    BY Zenon, <1>6 DEF Grd!RunScript
  <2>2. Waiting' = Waiting \ {r} /\ r \in Waiting
    BY <2>1 DEF WindowBounds, Waiting
  <2>3. /\ arrived[r] \in 0..WindowTime /\ admitted \subseteq Grd!Stamp /\ scripts \in 0..WindowScripts
        /\ Cardinality(admitted) + Cardinality(Waiting) <= scripts
    BY <2>1 DEF WindowBounds
  <2>4. /\ admitted' \subseteq Grd!Stamp
        /\ Cardinality(admitted') <= Cardinality(admitted) + 1 /\ Cardinality(admitted') \in Nat
    <3>1. Cardinality(admitted) <= WindowScripts
      BY <1>1, <1>2, <2>3
    <3>2. CASE admitted' = admitted
      BY <1>1, <2>3, <3>2
    <3>3. QED
      BY <1>2, <2>1, <2>3, <3>1, <3>2, OneMoreLetThrough
  <2>5. QED
    BY <1>1, <2>1, <2>2, <2>4, PartCounted DEF WindowBounds
<1>7. QED
  BY <1>3, <1>4, <1>5, <1>6 DEF Grd!WindowNext

\* The failures counted and those to be counted are no more than the failures there were.
Failing == {r \in GuardRequest : login[r].step = "fail"}
LoginBounds ==
  /\ counter.failures <= LoginFailures /\ counter.count + Cardinality(Failing) <= counter.failures
  /\ (\A r \in GuardRequest : login[r].count <= LoginFailures) /\ blocked \in BOOLEAN

LEMMA LoginBound ==
  ASSUME Grd!GuardsAssumption, LoginTypes, LoginBounds, Grd!LoginNext \/ UNCHANGED loginVars
  PROVE  LoginBounds'
<1>1. Failing \subseteq GuardRequest /\ IsFiniteSet(GuardRequest)
  BY GrdSizes DEF Failing, Grd!GuardsAssumption
<1>2. LoginFailures \in Nat /\ counter.count \in Nat /\ counter.failures \in Nat
      /\ counter \in [count : Nat, expires : BOOLEAN, stuck : BOOLEAN, failures : Nat]
      /\ \A r \in GuardRequest : login[r].count \in Nat
  BY DEF Grd!GuardsAssumption, LoginTypes
<1>3. CASE UNCHANGED loginVars
  BY <1>3 DEF LoginBounds, Failing, loginVars
<1>4. CASE Grd!ForgetFailures
  <2>1. UNCHANGED login /\ counter'.failures = counter.failures /\ counter'.count \in {0, counter.count}
    BY <1>2, <1>4 DEF Grd!ForgetFailures
  <2>0. LoginBounds => blocked' \in BOOLEAN
    BY <1>4 DEF Grd!ForgetFailures, LoginBounds
  <2>2. QED
    BY <1>1, <1>2, <2>0, <2>1, PartCounted DEF LoginBounds, Failing
<1>5. ASSUME NEW r \in GuardRequest, Grd!TryLogin(r) PROVE LoginBounds'
  <2>1. /\ login[r].step = "none" /\ counter.failures < LoginFailures /\ blocked' = blocked
        /\ login' = [login EXCEPT ![r].step = "fail"] /\ counter' = [counter EXCEPT !.failures = counter.failures + 1]
    BY <1>5 DEF Grd!TryLogin, Grd!LoginAt
  <2>2. Failing' = Failing \cup {r} /\ r \notin Failing /\ \A q \in GuardRequest : login'[q].count = login[q].count
    BY <2>1 DEF Failing, LoginTypes
  <2>3. counter'.failures = counter.failures + 1 /\ counter'.count = counter.count
    BY <1>2, <2>1
  <2>4. QED
    BY <1>1, <1>2, <2>1, <2>2, <2>3, PartCounted DEF LoginBounds
<1>6. ASSUME NEW r \in GuardRequest, Grd!Increment(r) PROVE LoginBounds'
  <2>1. PICK step \in {"none", "expire", "judge"}, n \in {0, counter.count + 1} :
          /\ login[r].step = "fail" /\ blocked' = blocked
          /\ login' = [login EXCEPT ![r] = [step |-> step, count |-> n]]
    BY <1>6 DEF Grd!Increment, Grd!LoginAt, Grd!EndLogin
  <2>2. Failing' = Failing \ {r} /\ r \in Failing /\ login'[r].count = n
        /\ \A q \in GuardRequest \ {r} : login'[q].count = login[q].count
    BY <2>1 DEF Failing, LoginTypes
  <2>3. counter'.failures = counter.failures /\ counter'.count \in {counter.count, counter.count + 1}
    BY <1>2, <1>6 DEF Grd!Increment
  <2>4. QED
    BY <1>1, <1>2, <2>1, <2>2, <2>3, PartCounted DEF LoginBounds
<1>7. ASSUME NEW r \in GuardRequest, Grd!SetExpiry(r) \/ Grd!Judge(r) PROVE LoginBounds'
  <2>1. /\ login[r].step \in {"expire", "judge"}
        /\ \/ login' = [login EXCEPT ![r].step = "judge"]
           \/ login' = [login EXCEPT ![r] = [step |-> "none", count |-> 0]]
    BY <1>7 DEF Grd!SetExpiry, Grd!Judge, Grd!EndLogin, Grd!LoginAt
  <2>2. Failing' = Failing /\ \A q \in GuardRequest : login'[q].count \in {0, login[q].count}
    BY <2>1 DEF Failing, LoginTypes
  <2>3. counter'.failures = counter.failures /\ counter'.count = counter.count /\ blocked' \in BOOLEAN
    BY <1>2, <1>7 DEF LoginBounds, Grd!SetExpiry, Grd!Judge
  <2>4. QED
    BY <1>1, <1>2, <2>2, <2>3, PartCounted DEF LoginBounds
<1>8. QED
  BY <1>3, <1>4, <1>5, <1>6, <1>7 DEF Grd!LoginNext

\* No balance is above the number of changes.
CacheBounds ==
  /\ cache_changes \in 0..CacheChanges /\ cache_faults \in 0..CacheChanges /\ stale \in BOOLEAN
  /\ \A x \in Bal!Account : cache_balance[x] <= cache_changes
  /\ entry.balance <= CacheChanges /\ entry.left <= CacheTtl
  /\ \A r \in CacheReader : reading[r].balance \in -1..CacheChanges

\* What readers have read, and what is cached, are balances there were.
LEMMA CacheBound ==
  ASSUME Bal!BalanceCacheAssumption, CacheTypes, CacheBounds, Bal!Next \/ UNCHANGED cacheVars
  PROVE  CacheBounds'
<1>1. /\ CacheChanges \in Nat /\ CacheTtl \in Nat /\ cache_changes \in Nat /\ Bal!NoEntry.balance = -1 /\ Bal!NoEntry.left = 0
      /\ cache_balance \in [Bal!Account -> Nat] /\ \A x \in Bal!Account : cache_balance[x] \in -1..CacheChanges
  BY DEF Bal!BalanceCacheAssumption, CacheBounds, CacheTypes, Bal!NoEntry
<1>2. /\ entry.balance \in Int /\ entry.left \in Nat
      /\ entry # Bal!NoEntry => entry \in CachedEntry
  BY EntryForm, <1>1 DEF CacheTypes, CachedEntry
<1> USE DEF Bal!Next, Bal!Tick, Bal!Relink, Bal!AwardPoints, Bal!Transfer, Bal!DeleteEntry, Bal!ReadUser, Bal!LookUp,
     Bal!Ask, Bal!Fill, cacheVars
<1>3. /\ cache_changes' \in 0..CacheChanges /\ cache_changes <= cache_changes'
      /\ cache_faults' \in 0..CacheChanges
  <2>1. cache_changes' = cache_changes \/ Bal!Change
    BY ZenonT(60)
  <2>2. cache_faults' = cache_faults \/ Bal!Fault
    BY ZenonT(60)
  <2>3. QED
    BY <1>1, <2>1, <2>2 DEF Bal!Change, Bal!Fault, CacheBounds
<1>8. stale' \in BOOLEAN
  BY DEF CacheBounds
<1>4. \A x \in Bal!Account : cache_balance'[x] <= cache_changes'
  <2>1. \/ cache_balance' = cache_balance
        \/ /\ cache_changes' = cache_changes + 1
           /\ \E x \in Bal!Account : cache_balance' = [cache_balance EXCEPT ![x] = cache_balance[x] + 1]
    BY DEF Bal!Change
  <2>2. QED
    BY <1>1, <1>3, <2>1 DEF CacheBounds
<1>5. entry'.balance <= CacheChanges /\ entry'.left <= CacheTtl
  <2>1. CASE entry' \in {entry, Bal!NoEntry}
    BY <1>1, <1>2, <2>1 DEF CacheBounds
  <2>2. CASE entry # Bal!NoEntry /\ (entry' = [entry EXCEPT !.excused = TRUE] \/ entry' = [entry EXCEPT !.left = entry.left - 1])
    BY <1>1, <1>2, <2>2 DEF CacheBounds, CachedEntry
  <2>3. CASE \E r \in CacheReader :
               entry' = [account |-> reading[r].account, balance |-> reading[r].balance, left |-> CacheTtl,
                         excused |-> reading[r].excused]
    BY <1>1, <2>3 DEF CacheBounds
  <2>4. \A x : x \in Bal!Account => x # Bal!NoEntry.account
    BY EntryForm
  <2>5. QED
    BY <2>1, <2>2, <2>3, <2>4 DEF Bal!Excuse, Bal!Account
<1>6. ASSUME NEW r \in CacheReader PROVE reading'[r].balance \in -1..CacheChanges
  <2>0. reading[r].balance \in -1..CacheChanges /\ -1 \in -1..CacheChanges /\ reading \in [CacheReader -> ReaderState]
    BY <1>1 DEF CacheBounds, CacheTypes
  <2>1. CASE UNCHANGED reading
    BY <2>0, <2>1
  <2>2. CASE \E account : Bal!ExcuseReaders(account)
    BY <2>0, <2>2 DEF Bal!ExcuseReaders, ReaderState
  <2>3. ASSUME NEW q \in CacheReader, Bal!ReadUser(q) \/ Bal!LookUp(q) \/ Bal!Ask(q) \/ Bal!Fill(q)
        PROVE  reading'[r].balance \in -1..CacheChanges
    <3>1. CASE Bal!Ask(q)
      <4>1. reading[q].account \in Bal!Account
        BY <3>1 DEF CacheTypes, Bal!Ask, Bal!ReadAt
      <4>2. QED
        BY <1>1, <2>0, <3>1, <4>1 DEF Bal!Ask, Bal!Answer, Bal!Quiet, ReaderState
    <3>2. CASE Bal!ReadUser(q) \/ Bal!LookUp(q) \/ Bal!Fill(q)
      BY <1>1, <2>0, <3>2 DEF Bal!ReadUser, Bal!LookUp, Bal!Fill, Bal!Quiet, ReaderState
    <3>3. QED
      BY <2>3, <3>1, <3>2
  <2>4. QED
    BY <2>1, <2>2, <2>3 DEF Bal!Excuse
<1>7. QED
  BY <1>3, <1>4, <1>5, <1>6, <1>8 DEF CacheBounds

\* The bounds of all components that share a step.
TypesInv ==
  component \in Components /\ BreakerTypes /\ WindowBounds /\ LoginBounds /\ CacheBounds

LEMMA TypesInit == ASSUME Init PROVE TypesInv
<1>1. Grd!GuardsAssumption /\ Bal!BalanceCacheAssumption
  BY ServiceAssumptions DEF ServiceAssumptions
<1>2. component \in Components /\ Grd!Init /\ Bal!Init
  BY DEF Init
<1>3. BreakerTypes
  <2>1. PICK fallback \in BOOLEAN : circuit = [state |-> "closed", of |-> Grd!Nobody, fallback |-> fallback]
    BY <1>2 DEF Grd!Init
  <2>2. QED
    BY <1>1, <1>2, <2>1 DEF Grd!GuardsAssumption, Grd!Init, BreakerTypes, CallState
<1>8. blocked \in BOOLEAN /\ stale \in BOOLEAN
  BY <1>2 DEF Grd!Init, Bal!Init
<1>4. Waiting = {} /\ Failing = {} /\ admitted = {}
  BY <1>2 DEF Grd!Init, Waiting, Failing
<1>5. WindowBounds
  BY <1>1, <1>2, <1>4, FS_EmptySet DEF Grd!GuardsAssumption, Grd!Init, WindowBounds
<1>9. LoginBounds
  BY <1>1, <1>2, <1>4, <1>8, FS_EmptySet DEF Grd!GuardsAssumption, Grd!Init, LoginBounds
<1>6. CacheBounds
  BY <1>1, <1>2, <1>8 DEF Bal!BalanceCacheAssumption, Bal!Init, Bal!NoEntry, Bal!Quiet, CacheBounds
<1>7. QED
  BY <1>2, <1>3, <1>5, <1>6, <1>9 DEF TypesInv

----
(* The composition *)

\* A step of the composition is a step or a stutter of each component: all but
\* the chosen one stand still. Errors are shared by the guards.
EachSteps ==
  /\ [Acc!Next]_accountVars /\ [Ses!Next]_sessionVars /\ [Pay!Next]_paymentVars /\ RowsStep
  /\ [Grd!KeyNext]_keyVars /\ [Grd!WindowNext]_windowVars /\ [Grd!LoginNext]_loginVars
  /\ [Grd!BreakerNext]_breakerVars /\ (errors' = errors \/ Grd!Error) /\ [Bal!Next]_cacheVars
  /\ [Mig!Next]_migrationVars /\ [Enc!Next]_fieldVars /\ [Dep!Next]_deployVars /\ [Bak!Next]_backupVars

LEMMA StepOfEach ==
  ASSUME [Next]_vars
  PROVE  EachSteps /\ component' = component
<1> USE DEF EachSteps, RowsStep, guardVars
<1>1. CASE Others_accounts /\ Acc!Next
  BY <1>1 DEF Others_accounts
<1>2. CASE Others_sessions /\ Ses!Next
  BY <1>2 DEF Others_sessions
<1>3. CASE Others_payments /\ Pay!Next
  BY <1>3 DEF Others_payments
<1>4. CASE Others_refunds /\ Txs!RefundNext
  BY <1>4 DEF Others_refunds
<1>5. CASE Others_pages /\ Txs!PageNext
  BY <1>5 DEF Others_pages
<1>6. CASE Others_keys /\ Grd!KeyNext
  BY <1>6 DEF Others_keys, Grd!KeyNext, Grd!ReadKey, Grd!ReadKeyFails, Grd!Handle, Grd!StoreAnswer, Grd!ForgetKey
<1>7. CASE Others_window /\ Grd!WindowNext
  BY <1>7 DEF Others_window, Grd!WindowNext, Grd!Tick, Grd!Arrive, Grd!RunScript
<1>8. CASE Others_failures /\ Grd!LoginNext
  BY <1>8 DEF Others_failures, Grd!LoginNext, Grd!TryLogin, Grd!Increment, Grd!SetExpiry, Grd!Judge, Grd!ForgetFailures
<1>9. CASE Others_breaker /\ Grd!BreakerNext
  BY <1>9 DEF Others_breaker, Grd!BreakerNext, Grd!ResetTimeout, Grd!Execute, Grd!Fire, Grd!CallFails
<1>10. CASE Others_cache /\ Bal!Next
  BY <1>10 DEF Others_cache
<1>11. CASE Others_deployment /\ Dep!Next
  BY <1>11 DEF Others_deployment
<1>12. CASE Others_encryption /\ Enc!Next
  BY <1>12 DEF Others_encryption
<1>13. CASE Others_migrations /\ Mig!Next
  BY <1>13 DEF Others_migrations
<1>14. CASE Others_backups /\ Bak!Next
  BY <1>14 DEF Others_backups
<1>15. CASE UNCHANGED vars
  BY <1>15 DEF vars
<1>16. QED
  BY <1>1, <1>2, <1>3, <1>4, <1>5, <1>6, <1>7, <1>8, <1>9, <1>10, <1>11, <1>12, <1>13, <1>14,
     <1>15 DEF Next

\* The inductive invariant of the composition: that of every component.
ServiceInv ==
  /\ AccountsInv /\ SessionsInv /\ PaymentsInv /\ TransactionsInv /\ PagesInv
  /\ KeyInv /\ WindowInv /\ LoginInv /\ CacheInv
  /\ MigrationsInv /\ FieldsInv /\ DeploymentInv /\ BackupsInv

LEMMA ServiceInit ==
  ASSUME Init
  PROVE  ServiceInv
<1> USE ServiceAssumptions DEF ServiceAssumptions
<1>1. AccountsInv /\ SessionsInv /\ PaymentsInv
  BY AccountsInit, SessionsInit, PaymentsInit DEF Init
<1>2. TransactionsInv /\ PagesInv
  BY TransactionsInit, PagesInit DEF Init
<1>3. KeyInv /\ WindowInv /\ LoginInv /\ CacheInv
  BY KeyInit, WindowInit, LoginInit, CacheInit DEF Init
<1>4. MigrationsInv /\ FieldsInv /\ DeploymentInv /\ BackupsInv
  BY MigrationsInit, FieldsInit, DeploymentInit, BackupsInit DEF Init
<1>5. QED
  BY <1>1, <1>2, <1>3, <1>4 DEF ServiceInv

LEMMA ServiceStep ==
  ASSUME ServiceInv, [Next]_vars
  PROVE  ServiceInv'
<1> USE ServiceAssumptions, StepOfEach DEF ServiceAssumptions, EachSteps
<1>1. AccountsInv' /\ SessionsInv' /\ PaymentsInv'
  BY AccountsStep, SessionsStep, PaymentsStep DEF ServiceInv
<1>2. TransactionsInv' /\ PagesInv'
  BY TransactionsStep, PagesStep DEF ServiceInv
<1>3. KeyInv' /\ WindowInv' /\ LoginInv' /\ CacheInv'
  BY KeyStep, WindowStep, LoginStep, CacheStep DEF ServiceInv
<1>4. MigrationsInv' /\ FieldsInv' /\ DeploymentInv' /\ BackupsInv'
  BY MigrationsStep, FieldsStep, DeploymentStep, BackupsStep DEF ServiceInv
<1>5. QED
  BY <1>1, <1>2, <1>3, <1>4 DEF ServiceInv

LEMMA ServiceInvariant == Spec => []ServiceInv
BY ServiceInit, ServiceStep, PTL DEF Spec

----
\* stellarAuthService, users, tokenService and passwordResetService: however requests
\* overlap, a challenge and a reset token are used once unless they were read before,
\* deleted accounts stay anonymous, and the tokens still good are no more than the logins
\* and the refreshes that raced.
THEOREM IdentityAlwaysHolds == Spec => []IdentityHolds
<1>1. ServiceInv => IdentityHolds
  <2>1. SUFFICES ASSUME ServiceInv PROVE IdentityHolds
    OBVIOUS
  <2>2. Acc!AccountsAssumption /\ Ses!SessionsAssumption
    BY ServiceAssumptions DEF ServiceAssumptions
  <2>3. Acc!ChallengeUsedUp /\ Acc!DeletedIsAnonymous
    BY <2>1, <2>2, AccountsHold DEF ServiceInv
  <2>4. Ses!ActiveTokensBounded /\ Ses!ResetTokenUsedUp
    BY <2>1, <2>2, SessionsHold DEF ServiceInv
  <2>5. QED
    BY <2>3, <2>4 DEF IdentityHolds
<1>2. QED
  BY <1>1, ServiceInvariant, PTL

\* stellarTransactionService, tokenTransferService and transactionRepository: a payment is
\* applied once and once more for each lost answer, processRefund refunds a transaction
\* once whatever else is recorded, a row is reconciled once, and the pages of a listing
\* in either direction show every row once but for those of a page's last millisecond.
THEOREM MoneyAlwaysAccounted == Spec => []MoneyAccounted
<1>1. ServiceInv => MoneyAccounted
  <2>1. SUFFICES ASSUME ServiceInv PROVE MoneyAccounted
    OBVIOUS
  <2>2. Pay!PaymentsAssumption
    BY ServiceAssumptions DEF ServiceAssumptions
  <2>3. Pay!PaidOncePerLoss
    BY <2>1, <2>2, PaymentsHold DEF ServiceInv
  <2>4. Txs!RefundedOnce /\ Txs!ReconciledOnce /\ Txs!PagesComplete
    BY <2>1, TransactionsHold DEF ServiceInv
  <2>5. QED
    BY <2>3, <2>4 DEF MoneyAccounted
<1>2. QED
  BY <1>1, ServiceInvariant, PTL

\* idempotency, slidingRateLimiter, abuseDetection and cacheService: a key is handled once
\* but for what overlapped or Redis failed, a window in order exceeds its limit only by
\* what Redis failed to count, failures expire unless Redis failed the first, and what is
\* served from the cache is current or excused.
THEOREM GuardsAlwaysHold == Spec => []GuardsHold
<1>1. ServiceInv => GuardsHold
  <2>1. SUFFICES ASSUME ServiceInv PROVE GuardsHold
    OBVIOUS
  <2>2. Grd!HandledOncePerKey
    BY <2>1, KeyHolds DEF ServiceInv
  <2>3. Grd!WindowWithinLimit /\ Grd!FailuresExpire
    BY <2>1 DEF ServiceInv, WindowInv, LoginInv
  <2>4. Bal!ServedIsCurrent
    BY <2>1 DEF ServiceInv, CacheInv, Bal!ServedIsCurrent
  <2>5. QED
    BY <2>2, <2>3, <2>4 DEF GuardsHold
<1>2. QED
  BY <1>1, ServiceInvariant, PTL

\* deploy, encrypt-existing-rows, migrate, backupService and restore-pitr: the supply is
\* issued again only where deployments overlapped, every server reads every row while the
\* keys rotate, the schema is what is recorded of it, and the plan of a recovery names a
\* backup that is there and was complete in time.
THEOREM OperationsAlwaysAccounted == Spec => []OperationsAccounted
<1>1. ServiceInv => OperationsAccounted
  <2>1. SUFFICES ASSUME ServiceInv PROVE OperationsAccounted
    OBVIOUS
  <2>2. Dep!DeploymentAssumption /\ Bak!BackupsAssumption
    BY ServiceAssumptions DEF ServiceAssumptions
  <2>3. Dep!SupplyIssuedOnce /\ Dep!StateIsBacked /\ Dep!OnlyDryRunsSucceed
    BY <2>1, <2>2, DeploymentHolds DEF ServiceInv
  <2>4. Enc!EveryServerReads /\ Enc!CleanRunMigrates
    BY <2>1, FieldsHold DEF ServiceInv
  <2>5. Mig!SchemaAsRecorded /\ Mig!LastRolledBack
    BY <2>1 DEF ServiceInv, MigrationsInv
  <2>6. Bak!FileAndManifest /\ Bak!BackupKept /\ Bak!PlanRestores
    BY <2>1, <2>2, BackupsHold DEF ServiceInv
  <2>7. QED
    BY <2>3, <2>4, <2>5, <2>6 DEF OperationsAccounted
<1>2. QED
  BY <1>1, ServiceInvariant, PTL

\* The stored values of every component have the types its code stores, and its counters
\* keep within their bounds.
THEOREM ServicesTypeCorrect == Spec => []TypeOK
<1>1. ASSUME ServiceInv, TypesInv, [Next]_vars PROVE TypesInv'
  <2>1. Grd!GuardsAssumption /\ Bal!BalanceCacheAssumption
    BY ServiceAssumptions DEF ServiceAssumptions
  <2>2. ServiceInv' /\ WindowTypes /\ LoginTypes /\ CacheTypes
    BY <1>1, ServiceStep DEF ServiceInv, WindowInv, LoginInv, CacheInv
  <2>3. EachSteps /\ component' = component
    BY <1>1, StepOfEach
  <2>4. BreakerTypes' /\ WindowBounds' /\ LoginBounds'
    BY <1>1, <2>1, <2>2, <2>3, BreakerStep, WindowBound, LoginBound DEF TypesInv, EachSteps
  <2>5. CacheBounds'
    BY <1>1, <2>1, <2>2, <2>3, CacheBound DEF TypesInv, ServiceInv, EachSteps
  <2>6. QED
    BY <1>1, <2>3, <2>4, <2>5 DEF TypesInv
<1>2. ASSUME ServiceInv, TypesInv PROVE TypeOK
  <2>1. Txs!TypeOK
    BY <1>2 DEF ServiceInv, TypesInv, TransactionsInv, RowsTyped, PagesInv, PagesTyped, ReaderType, Txs!TypeOK
  <2>2. Grd!TypeOK
    <3>1. LoginFailures \in Nat /\ Cardinality(Failing) \in Nat
      BY ServiceAssumptions, GrdSizes, FS_Subset, FS_CardinalityType DEF ServiceAssumptions, Grd!GuardsAssumption, Failing
    <3>2. /\ login \in [GuardRequest -> [step : {"none", "fail", "expire", "judge"}, count : 0..LoginFailures]]
          /\ counter \in [count : 0..LoginFailures, expires : BOOLEAN, stuck : BOOLEAN, failures : 0..LoginFailures]
      BY <1>2, <3>1 DEF ServiceInv, TypesInv, LoginInv, LoginTypes, LoginBounds
    <3>3. QED
      BY <1>2, <3>2 DEF ServiceInv, TypesInv, KeyInv, KeyTypes, WindowInv, WindowTypes, WindowBounds, LoginBounds,
         BreakerTypes, CallState, Grd!Counted, Grd!TypeOK
  <2>3. Bal!TypeOK
    <3>1. CacheTypes /\ CacheBounds /\ CacheChanges \in Nat /\ CacheTtl \in Nat
      BY <1>2, ServiceAssumptions DEF ServiceAssumptions, Bal!BalanceCacheAssumption, ServiceInv, TypesInv, CacheInv
    <3>2. entry \in [account : Bal!Account \cup {"none"}, balance : -1..CacheChanges, left : 0..CacheTtl, excused : BOOLEAN]
      <4>1. CASE entry \in CachedEntry
        BY <3>1, <4>1 DEF CacheBounds, CachedEntry
      <4>2. CASE entry = Bal!NoEntry
        BY <3>1, <4>2 DEF Bal!NoEntry
      <4>3. QED
        BY <3>1, <4>1, <4>2 DEF CacheTypes
    <3>3. reading \in [CacheReader -> [step : {"none", "look", "ask", "fill"}, account : Bal!Account \cup {"none"},
                                      balance : -1..CacheChanges, excused : BOOLEAN]]
      BY <3>1 DEF CacheTypes, CacheBounds, ReaderState
    <3>4. QED
      BY <3>1, <3>2, <3>3 DEF CacheTypes, CacheBounds, WriterState, Bal!TypeOK
  <2>4. QED
    BY <1>2, <2>1, <2>2, <2>3 DEF ServiceInv, TypesInv, AccountsInv, SessionsInv, PaymentsInv, MigrationsInv, FieldsInv,
       FieldTypes, DeploymentInv, ScriptTypes, BackupsInv, TypeOK
<1>3. QED
  BY <1>1, <1>2, TypesInit, ServiceInvariant, PTL DEF Spec

==============================================================================
