------------------------- MODULE MCReputationClient -------------------------
(* A small instance of the client session for TLC: k1 is the admin and k2, the
   certifier, owns the session, so that k2 may ask for any of the calls. *)
EXTENDS ToolServer

CONSTANTS k1, k2

MCFunds == [k \in Keys |-> IF k = k1 THEN 2 ELSE 4]

MCTargets == {<<k1, 0>>}
=============================================================================
