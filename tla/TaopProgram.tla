---------------------------- MODULE TaopProgram -----------------------------
(***************************************************************************)
(* The taop_reputation program: the configuration, the reputation and the  *)
(* capability handlers over one ledger, one clock and one Config account,  *)
(* interleaved with whatever wallets do outside the program.               *)
(***************************************************************************)
EXTENDS Reputation, CapabilityRegistry

vars == <<runtimeVars, configVars, reputationVars, capabilityVars>>

TypeOK ==
    /\ RuntimeTypeOK
    /\ ConfigTypeOK
    /\ ReputationTypeOK
    /\ CapabilityTypeOK

Init ==
    /\ RuntimeInit
    /\ ConfigInit
    /\ ReputationInit
    /\ CapabilityInit

Next ==
    \/ RuntimeStep /\ UNCHANGED <<configVars, reputationVars, capabilityVars>>
    \/ ConfigStep /\ UNCHANGED <<reputationVars, capabilityVars>>
    \/ ReputationStep /\ UNCHANGED capabilityVars
    \/ CapabilityStep /\ UNCHANGED reputationVars

Spec == Init /\ [][Next]_vars

\* The cluster's clock advances, and a challenger who may take a bond back does.
\* Nothing is assumed of the authority: it may stay silent for ever.
ProgramFairness ==
    /\ WF_vars(Tick /\ UNCHANGED <<configVars, reputationVars, capabilityVars>>)
    /\ \A challenger \in Keys, c \in CompletionKeys :
           WF_vars(CancelChallenge(challenger, c) /\ UNCHANGED capabilityVars)

FairSpec == Spec /\ ProgramFairness

-----------------------------------------------------------------------------
(* The program as the escrow of BondEscrow: its slots are the vaults. *)

UnusedBond == [phase |-> "unused", owner |-> None, owed |-> 0]
ClosedBond == [phase |-> "closed", owner |-> None, owed |-> 0]
HeldBond(owner, owed) == [phase |-> "held", owner |-> owner, owed |-> owed]

\* A challenge account is kept after its verdict, with the bond settled.
ChallengeBond(c) ==
    IF challenges[c] = None THEN UnusedBond
    ELSE IF Pending(c)
         THEN HeldBond(challenges[c].challenger, challenges[c].bond_lamports)
         ELSE ClosedBond

\* A capability id is used once: when the counter has passed it, an address that
\* holds no record never will.
CapabilityBond(k) ==
    IF ~Live(k) /\ (config = None \/ IdOf(k) >= config.next_capability_id)
    THEN UnusedBond
    ELSE IF Live(k) /\ capabilities[k].bond_remaining > 0
         THEN HeldBond(CreatorOf(k), capabilities[k].bond_remaining)
         ELSE ClosedBond

EscrowBonds ==
    [v \in Vaults |-> IF v \in ChallengeVaults THEN ChallengeBond(v[2])
                                               ELSE CapabilityBond(v[2])]

Escrow == INSTANCE BondEscrow WITH
    Wallets <- Keys,
    Slots <- Vaults,
    treasury <- IF config = None THEN None ELSE config.treasury,
    bonds <- EscrowBonds

\* Every handler, and every transfer outside the program, is a step of the
\* escrow or invisible to it: a bond is taken once, stays covered, and goes back
\* whole to whoever posted it unless an authority sends it to the treasury.
ImplementsEscrow == Escrow!Spec
=============================================================================
