---------------------------- MODULE MCOperations -----------------------------
(* A small instance of the configuration and the operators' scripts for TLC. *)
EXTENDS Operations

CONSTANTS k1, k2

MCFunds == [k \in Keys |-> 4]
=============================================================================
