------------------------ MODULE MCCapabilityRegistry ------------------------
(* A small instance of the capability component for TLC. *)
EXTENDS CapabilityRegistry

CONSTANTS k1, k2, t1, t2

MCFunds == [k \in Keys |-> IF k = k1 THEN 4 ELSE 5]

\* One vault receives donations, and the treasury's owner (k1) can spend.
MCGiftTargets == {CapabilityVault(<<t1, k2, 1>>), k2}
=============================================================================
