----------------------------- MODULE Governance -----------------------------
(***************************************************************************)
(* The governance contract (contracts/governance), composed with the NOVA  *)
(* token whose live balances weigh the votes and whose live supply sets a  *)
(* percentage quorum.  One action is one invocation of either contract.    *)
(* Upgrades by multisig are in ContractState.                              *)
(***************************************************************************)
EXTENDS Totals

CONSTANTS Address, NoAddress, NoAllowance, Amounts, MaxAmount, MaxLedger,
                            \* as in NovaToken
          VotingPeriod,     \* VOTING_PERIOD, in ledgers
          BpsDenominator,   \* BPS_DENOMINATOR
          MaxProposals,     \* bound on the proposals explored
          Quorums,          \* arguments of initialize and set_quorum
          NoQuorum,         \* value of the quorum key before initialize
          NoProposal        \* value of a proposal key that was never written

Ids == 1..MaxProposals
MinAmount == -MaxAmount - 1

Quorum == [kind : {"Absolute", "Percent"}, value : MinAmount..MaxAmount]

Proposal == [proposer : Address, yes_votes : MinAmount..MaxAmount,
             no_votes : MinAmount..MaxAmount, end_ledger : Nat,
             status : {"Active", "Passed", "Rejected", "Executed"}]

GovernanceAssumption ==
  /\ IsFiniteSet(Address) /\ NoAddress \notin Address
  /\ Amounts \subseteq Int
  /\ VotingPeriod \in Nat
  /\ BpsDenominator \in Nat \ {0}
  /\ MaxProposals \in Nat
  /\ MaxAmount \in Nat \ {0}
  /\ MaxLedger \in Nat \ {0}
  /\ Quorums \subseteq Quorum
  /\ NoQuorum \notin Quorum
  /\ NoProposal \notin Proposal

VARIABLES admin,          \* DataKey::Admin
          quorum,         \* DataKey::Quorum
          proposalCount,  \* DataKey::ProposalCount, unwrap_or(0)
          proposals,      \* DataKey::Proposal(id)
          hasVoted,       \* the pairs (id, voter) of DataKey::HasVoted
          cast,           \* history: the votes counted in the stored proposals
          moved,          \* history: ids whose holdings moved since creation
          tokenAdmin, balances, supply, allowances, ledger, signers, saturated

Token == INSTANCE NovaToken WITH admin <- tokenAdmin, Grants <- {}

govVars == <<admin, quorum, proposalCount, proposals, hasVoted, cast, moved>>
tokenVars == <<tokenAdmin, balances, supply, allowances, saturated>>
vars == <<govVars, tokenVars, ledger, signers>>

-----------------------------------------------------------------------------
ValidQuorum(q) == /\ q.value > 0
                  /\ q.kind = "Percent" => q.value <= BpsDenominator

\* i128 division truncates towards zero.
Truncated(n, d) == IF n >= 0 THEN n \div d ELSE -((-n) \div d)

\* The dividend of the ceiling: the product saturates, the addition is checked.
QuorumDividend(q) == Token!Saturate(Token!total_supply * q.value) + (BpsDenominator - 1)

\* The yes-votes a proposal needs now.
quorum_votes(q) ==
  IF q.kind = "Absolute" THEN q.value
  ELSE Truncated(QuorumDividend(q), BpsDenominator)

\* quorum_votes returns instead of trapping on an i128 overflow.
QuorumComputes(q) == q.kind = "Percent" => QuorumDividend(q) <= MaxAmount

\* saturating_add of one vote's weight.
Tally(votes, weight) == Token!Saturate(votes + weight)

Stored == {id \in Ids : proposals[id] # NoProposal}

-----------------------------------------------------------------------------
Init ==
  /\ Token!Init
  /\ admin = NoAddress
  /\ quorum = NoQuorum
  /\ proposalCount = 0
  /\ proposals = [id \in Ids |-> NoProposal]
  /\ hasVoted = {}
  /\ cast = {}
  /\ moved = {}

\* The proposal counter restarts, whatever was proposed before.
Initialize(a, q) ==
  /\ admin = NoAddress
  /\ ValidQuorum(q)
  /\ signers' = {}
  /\ admin' = a
  /\ quorum' = q
  /\ proposalCount' = 0
  /\ UNCHANGED <<proposals, hasVoted, cast, moved, tokenVars, ledger>>

\* Works before initialize too: it reads nothing initialize writes.
CreateProposal(proposer) ==
  LET id == proposalCount + 1
  IN  /\ id <= MaxProposals
      /\ signers' = {proposer}
      /\ proposals' = [proposals EXCEPT ![id] =
                         [proposer |-> proposer, yes_votes |-> 0, no_votes |-> 0,
                          end_ledger |-> ledger + VotingPeriod, status |-> "Active"]]
      /\ proposalCount' = id
      /\ cast' = {v \in cast : v[1] # id}
      /\ moved' = moved \ {id}
      /\ UNCHANGED <<admin, quorum, hasVoted, tokenVars, ledger>>

\* Variant: the voter may vote again.
Vote_Again(voter, id, support) ==
  /\ quorum # NoQuorum
  /\ id \in Stored
  /\ proposals[id].status = "Active"
  /\ ledger <= proposals[id].end_ledger
  /\ signers' = {voter}
  /\ IF support
     THEN proposals' = [proposals EXCEPT ![id].yes_votes = Tally(@, balances[voter])]
     ELSE proposals' = [proposals EXCEPT ![id].no_votes = Tally(@, balances[voter])]
  /\ hasVoted' = hasVoted \cup {<<id, voter>>}
  /\ cast' = cast \cup {<<id, voter>>}
  /\ UNCHANGED <<admin, quorum, proposalCount, moved, tokenVars, ledger>>

\* The weight is the voter's balance in this ledger.  The token address is
\* only known after initialize.
Vote(voter, id, support) ==
  /\ quorum # NoQuorum
  /\ <<id, voter>> \notin hasVoted
  /\ id \in Stored
  /\ proposals[id].status = "Active"
  /\ ledger <= proposals[id].end_ledger
  /\ signers' = {voter}
  /\ IF support
     THEN proposals' = [proposals EXCEPT ![id].yes_votes = Tally(@, balances[voter])]
     ELSE proposals' = [proposals EXCEPT ![id].no_votes = Tally(@, balances[voter])]
  /\ hasVoted' = hasVoted \cup {<<id, voter>>}
  /\ cast' = cast \cup {<<id, voter>>}
  /\ UNCHANGED <<admin, quorum, proposalCount, moved, tokenVars, ledger>>

Passes(p) == p.yes_votes >= quorum_votes(quorum) /\ p.yes_votes > p.no_votes

\* Anyone may call it.
Finalise(id) ==
  /\ id \in Stored
  /\ proposals[id].status = "Active"
  /\ ledger > proposals[id].end_ledger
  /\ quorum # NoQuorum
  /\ QuorumComputes(quorum)
  /\ proposals' = [proposals EXCEPT ![id].status =
                     IF Passes(proposals[id]) THEN "Passed" ELSE "Rejected"]
  /\ signers' = {}
  /\ UNCHANGED <<admin, quorum, proposalCount, hasVoted, cast, moved, tokenVars, ledger>>

Execute(id) ==
  /\ admin # NoAddress
  /\ id \in Stored
  /\ proposals[id].status = "Passed"
  /\ signers' = {admin}
  /\ proposals' = [proposals EXCEPT ![id].status = "Executed"]
  /\ UNCHANGED <<admin, quorum, proposalCount, hasVoted, cast, moved, tokenVars, ledger>>

\* Takes effect at once, for the proposals being voted on too.
SetQuorum(q) ==
  /\ admin # NoAddress
  /\ ValidQuorum(q)
  /\ signers' = {admin}
  /\ quorum' = q
  /\ UNCHANGED <<admin, proposalCount, proposals, hasVoted, cast, moved, tokenVars, ledger>>

-----------------------------------------------------------------------------
\* The invocations of the token that change a balance or the supply.
TokenStep ==
  /\ \/ \E a \in Address : Token!Initialize(a)
     \/ \E a \in Address, n \in Amounts : Token!Mint(a, n) \/ Token!Burn(a, n)
     \/ \E a, b \in Address, n \in Amounts : Token!Transfer(a, b, n)
  /\ moved' = IF balances' = balances THEN moved ELSE Ids
  /\ UNCHANGED <<admin, quorum, proposalCount, proposals, hasVoted, cast>>

CloseLedger == Token!CloseLedger /\ UNCHANGED govVars

Next ==
  \/ \E a \in Address, q \in Quorums : Initialize(a, q)
  \/ \E a \in Address : CreateProposal(a)
  \/ \E a \in Address, id \in Ids, s \in BOOLEAN : Vote(a, id, s)
  \/ \E id \in Ids : Finalise(id)
  \/ \E id \in Ids : Execute(id)
  \/ \E q \in Quorums : SetQuorum(q)
  \/ TokenStep
  \/ CloseLedger

Spec == Init /\ [][Next]_vars

-----------------------------------------------------------------------------
\* The stored values have the types the contract stores.
TypeOK ==
  /\ admin \in Address \cup {NoAddress}
  /\ quorum \in Quorum \cup {NoQuorum}
  /\ proposalCount \in 0..MaxProposals
  /\ proposals \in [Ids -> Proposal \cup {NoProposal}]
  /\ hasVoted \subseteq Ids \X Address
  /\ cast \subseteq hasVoted
  /\ moved \subseteq Ids
  /\ Token!TypeOK

\* As long as no token moves after a proposal was opened, its two tallies add
\* up to the holdings of those who voted: every unit votes at most once, on
\* one side, whatever is voted, finalised, executed or reconfigured in between.
TalliesAreHoldings ==
  \A id \in Stored : id \notin moved /\ ~saturated =>
    proposals[id].yes_votes + proposals[id].no_votes
      = Total(balances, {a \in Address : <<id, a>> \in cast})

\* A percentage quorum never asks for more than the holders own together, even
\* when the supply counter has saturated: it can be reached by voting.
QuorumReachable ==
  quorum # NoQuorum /\ quorum.kind = "Percent" /\ QuorumComputes(quorum) =>
    quorum_votes(quorum) <= Total(balances, Address)

\* The decision of a numbered proposal is final: once it is not Active its
\* tallies never change, a rejected proposal stays rejected and a passed one
\* can only become executed, once.
DecisionsFinal ==
  [][\A id \in 1..proposalCount : proposals[id].status # "Active" =>
       \/ proposals'[id] = proposals[id]
       \/ /\ proposals[id].status = "Passed"
          /\ proposals'[id] = [proposals[id] EXCEPT !.status = "Executed"]]_vars

=============================================================================
