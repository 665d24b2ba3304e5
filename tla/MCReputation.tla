---------------------------- MODULE MCReputation ----------------------------
(* A small instance of the reputation component for TLC. *)
EXTENDS Reputation

CONSTANTS k1, k2

MCFunds == [k \in Keys |-> IF k = k1 THEN 2 ELSE 5]

\* One vault receives donations, before, during and after its challenge.
MCGiftTargets == {ChallengeVault(<<k1, 0>>)}
=============================================================================
