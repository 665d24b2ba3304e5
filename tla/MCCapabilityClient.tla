-------------------------- MODULE MCCapabilityClient -------------------------
(* A small instance of the capability registry and a client session for TLC: k1
   is the admin, k2 the certifier and the session's wallet; both create. *)
EXTENDS CapabilityClient

CONSTANTS k1, k2, t1

MCFunds == [k \in Keys |-> IF k = k1 THEN 2 ELSE 4]

\* One vault takes donations.
MCGiftTargets == {CapabilityVault(<<t1, k2, 1>>)}
=============================================================================
