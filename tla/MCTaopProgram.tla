---------------------------- MODULE MCTaopProgram ---------------------------
(* A small instance of the whole program for TLC. *)
EXTENDS TransactionAccounts

CONSTANTS k1, k2

MCFunds == [k \in Keys |-> IF k = k1 THEN 2 ELSE 5]

\* One vault of each kind receives donations.
MCGiftTargets == {ChallengeVault(<<k2, 0>>), CapabilityVault(<<"t", k2, 1>>)}
=============================================================================
