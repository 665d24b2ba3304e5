----------------------------- MODULE MCOffChain ------------------------------
(***************************************************************************)
(* A small instance for TLC of what runs beside the program: the           *)
(* operators' scripts and the demo's reads, which share nothing.  A        *)
(* behaviour is one of the scripts or one of the reads, as `part' says.    *)
(***************************************************************************)
EXTENDS MCOperations, DemoReads

VARIABLE part

scriptVars == <<runtimeVars, configVars, operationsVars>>

Init ==
    /\ part \in {"scripts", "reads"}
    /\ OperationsSystemInit
    /\ ReadsInit
    /\ part = "reads" => upgradeAuthority = k1
    /\ part = "scripts" => cache = [key \in ReadKeys |-> Absent]

Next ==
    \/ part = "scripts" /\ OperationsSystemNext /\ UNCHANGED <<part, readVars>>
    \/ part = "reads" /\ ReadsNext /\ UNCHANGED <<part, scriptVars>>

\* Only the reads have a liveness property: of the behaviours of the scripts, in which
\* the demo's clock stands still, the fairness leaves none that goes on for ever.
Spec ==
    /\ Init
    /\ [][Next]_<<part, scriptVars, readVars>>
    /\ WF_readVars(TimePasses)
    /\ \A r \in ReadIds : WF_readVars(TimeOut(r))
=============================================================================
