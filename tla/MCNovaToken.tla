---------------------------- MODULE MCNovaToken -----------------------------
(* A small instance of the token for TLC: the owner can delegate to another *)
(* account and to itself, and i128::MAX is small enough to be reached.      *)
EXTENDS NovaToken

CONSTANTS alice, bob

MCAddress == {alice, bob}
MCGrants  == {<<alice, bob>>, <<alice, alice>>}
MCAmounts == {-1, 0, 1, 2}
MCPositiveAmounts == {1, 2}

=============================================================================
