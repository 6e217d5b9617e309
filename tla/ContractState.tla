---------------------------- MODULE ContractState ----------------------------
(***************************************************************************)
(* The key/value store with versioned snapshots (contracts/contract_state) *)
(* and its M-of-N upgrade multisig, whose code escrow and governance carry *)
(* as well.  One action is one invocation; those of the store are signed   *)
(* by the admin, stored by initialize together with the signers.           *)
(***************************************************************************)
EXTENDS Naturals, Sequences, FiniteSets, SequencesExt

CONSTANTS Key,          \* the keys, with the empty one among them
          EmptyKey,
          Value,
          Absent,       \* value of a key that is not stored
          MaxVersion,   \* bound on the versions explored
          Address,
          Hash,         \* WASM hashes
          NoHash,       \* history: no upgrade in the last invocation
          SignerLists,  \* signers arguments of initialize
          Thresholds,   \* threshold arguments of initialize
          NotInitialised

\* Assumed of the constants.
StateAssumption ==
  /\ EmptyKey \in Key
  /\ Absent \notin Value
  /\ MaxVersion \in Nat
  /\ IsFiniteSet(Address)
  /\ NoHash \notin Hash
  /\ SignerLists \subseteq Seq(Address)
  /\ Thresholds \subseteq Nat
  /\ NotInitialised \notin Seq(Address)

VARIABLES version,    \* DataKey::Version, unwrap_or(0)
          state,      \* DataKey::State(key)
          snapshots,  \* DataKey::Snapshot(key, version)
          frozen,     \* history: what each migration left behind
          signers,    \* DataKey::Signers
          threshold,  \* DataKey::Threshold, unwrap_or(1)
          approvals,  \* DataKey::UpgradeApprovals(hash), unwrap_or(empty)
          upgraded,   \* the hash the last invocation upgraded to
          endorsers   \* history: who approved each hash since it was last applied

storeVars == <<version, state, snapshots, frozen>>
upgradeVars == <<signers, threshold, approvals, upgraded, endorsers>>
vars == <<storeVars, upgradeVars>>

\* initialize has stored the admin, and with it the signers.
initialised == signers # NotInitialised

Versions == 0..MaxVersion

Init ==
  /\ version = 0
  /\ state = [k \in Key |-> Absent]
  /\ snapshots = [k \in Key |-> [v \in Versions |-> Absent]]
  /\ frozen = [v \in Versions |-> [k \in Key |-> Absent]]
  /\ signers = NotInitialised
  /\ threshold = 1
  /\ approvals = [h \in Hash |-> <<>>]
  /\ upgraded = NoHash
  /\ endorsers = [h \in Hash |-> {}]

Initialize(list, m) ==
  /\ ~initialised
  /\ m >= 1
  /\ Len(list) >= m
  /\ version' = 0
  /\ signers' = list
  /\ threshold' = m
  /\ upgraded' = NoHash
  /\ UNCHANGED <<state, snapshots, frozen, approvals, endorsers>>

Set(k, val) ==
  /\ initialised
  /\ k # EmptyKey
  /\ state' = [state EXCEPT ![k] = val]
  /\ UNCHANGED <<upgradeVars, version, snapshots, frozen>>

Delete(k) ==
  /\ initialised
  /\ state[k] # Absent
  /\ state' = [state EXCEPT ![k] = Absent]
  /\ UNCHANGED <<upgradeVars, version, snapshots, frozen>>

\* A later snapshot of the key at the same version replaces it.
Snapshot(k) ==
  /\ initialised
  /\ state[k] # Absent
  /\ snapshots' = [snapshots EXCEPT ![k][version] = state[k]]
  /\ UNCHANGED <<upgradeVars, version, state, frozen>>

Migrate ==
  /\ initialised
  /\ version < MaxVersion
  /\ version' = version + 1
  /\ frozen' = [frozen EXCEPT ![version] = [k \in Key |-> snapshots[k][version]]]
  /\ UNCHANGED <<upgradeVars, state, snapshots>>

\* Restores a key that has been deleted since, too; the version stays.
Recover(k, v) ==
  /\ initialised
  /\ snapshots[k][v] # Absent
  /\ state' = [state EXCEPT ![k] = snapshots[k][v]]
  /\ UNCHANGED <<upgradeVars, version, snapshots, frozen>>

\* Variant: the same signer may approve again.
ApproveUpgrade_Again(signer, h) ==
  LET list == Append(approvals[h], signer)
  IN  /\ initialised
      /\ signer \in ToSet(signers)
      /\ IF Len(list) >= threshold
         THEN /\ approvals' = [approvals EXCEPT ![h] = <<>>]
              /\ upgraded' = h
         ELSE /\ approvals' = [approvals EXCEPT ![h] = list]
              /\ upgraded' = NoHash
      /\ endorsers' = [endorsers EXCEPT ![h] =
                         IF approvals[h] = <<>> THEN {signer} ELSE @ \cup {signer}]
      /\ UNCHANGED <<storeVars, signers, threshold>>

\* The approval that reaches the threshold clears the list and upgrades.  A
\* list that is empty starts a new round for its hash.
ApproveUpgrade(signer, h) ==
  LET list == Append(approvals[h], signer)
  IN  /\ initialised
      /\ signer \in ToSet(signers)
      /\ signer \notin ToSet(approvals[h])
      /\ IF Len(list) >= threshold
         THEN /\ approvals' = [approvals EXCEPT ![h] = <<>>]
              /\ upgraded' = h
         ELSE /\ approvals' = [approvals EXCEPT ![h] = list]
              /\ upgraded' = NoHash
      /\ endorsers' = [endorsers EXCEPT ![h] =
                         IF approvals[h] = <<>> THEN {signer} ELSE @ \cup {signer}]
      /\ UNCHANGED <<storeVars, signers, threshold>>

Next ==
  \/ \E list \in SignerLists, m \in Thresholds : Initialize(list, m)
  \/ \E k \in Key, val \in Value : Set(k, val)
  \/ \E k \in Key : Delete(k)
  \/ \E k \in Key : Snapshot(k)
  \/ Migrate
  \/ \E k \in Key, v \in Versions : Recover(k, v)
  \/ \E a \in Address, h \in Hash : ApproveUpgrade(a, h)

Spec == Init /\ [][Next]_vars

-----------------------------------------------------------------------------
UpgradeTypeOK ==
  /\ signers \in Seq(Address) \cup {NotInitialised}
  /\ threshold \in Nat \ {0}
  /\ approvals \in [Hash -> Seq(Address)]
  /\ upgraded \in Hash \cup {NoHash}
  /\ endorsers \in [Hash -> SUBSET Address]

\* The stored values have the types the contract stores; nothing is filed
\* under the empty key.
TypeOK ==
  /\ version \in Versions
  /\ state \in [Key -> Value \cup {Absent}]
  /\ state[EmptyKey] = Absent
  /\ snapshots \in [Key -> [Versions -> Value \cup {Absent}]]
  /\ frozen \in [Versions -> [Key -> Value \cup {Absent}]]
  /\ UpgradeTypeOK

\* What a recovery to an earlier version can bring back is exactly what was in
\* the snapshots when that version was migrated away from, whatever was set,
\* deleted, recovered or snapshot since; the future has no snapshots yet.
SnapshotsFrozen ==
  \A k \in Key, v \in Versions :
    /\ v < version => snapshots[k][v] = frozen[v][k]
    /\ v > version => snapshots[k][v] = Absent

\* The contract's code is replaced only after as many different configured
\* signers as the threshold approved that very hash in this round; and a hash
\* with approvals enough is never left waiting.
UpgradedByThreshold ==
  /\ upgraded # NoHash =>
       /\ Cardinality(endorsers[upgraded]) >= threshold
       /\ endorsers[upgraded] \subseteq ToSet(signers)
  /\ \A h \in Hash : Len(approvals[h]) < threshold

=============================================================================
