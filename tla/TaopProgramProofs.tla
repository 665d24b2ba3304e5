------------------------- MODULE TaopProgramProofs --------------------------
(***************************************************************************)
(* The program's invariant is that of its components, each of which        *)
(* survives the steps of the others; what the runs check follows from it:   *)
(* what always holds, that the program implements the escrow, and what a   *)
(* step may never do, one handler at a time.                               *)
(***************************************************************************)
EXTENDS TransactionAccounts, HandlerProofs

Inv == ReputationInv /\ CapabilityInv

\* Nothing is recorded, and nothing is in any vault, before the first transaction.
LEMMA InitEstablishesInv ==
    ASSUME Init
    PROVE  Inv
  BY InitEstablishesReputation, InitEstablishesRegistry DEF Init, Inv

\* Each component keeps its own invariant and spares the other's.
LEMMA NextKeepsInv ==
    ASSUME Inv, [Next]_vars
    PROVE  Inv'
  <1>1. ConfigInv /\ ReputationInv /\ CapabilityInv
    BY DEF Inv, ReputationInv
  <1>2. CASE RuntimeStep /\ UNCHANGED <<configVars, reputationVars, capabilityVars>>
    <2>1. /\ RuntimeTypeOK'
          /\ \A v \in Vaults : lamports'[v] >= lamports[v]
          /\ clock' >= clock
      BY <1>1, <1>2, StepsOfRuntime DEF ConfigInv
    <2>2. config' = config /\ ConfigInv'
      BY <1>1, <1>2, <2>1 DEF configVars, ConfigInv, ConfigTypeOK, ConfigInRange
    <2>3. config # None =>
              /\ config'.next_completion_id >= config.next_completion_id
              /\ config'.next_capability_id >= config.next_capability_id
      BY <1>1, <2>2, RuntimeAssumption DEF ConfigInv, ConfigTypeOK, Config
    <2>4. UNCHANGED reputationVars /\ UNCHANGED capabilityVars
      BY <1>2
    <2>5. /\ \A v \in ChallengeVaults : lamports'[v] >= lamports[v]
          /\ \A v \in CapabilityVaults : lamports'[v] >= lamports[v]
      BY <2>1 DEF Vaults
    <2>6. ReputationInv'
      BY <1>1, <2>1, <2>2, <2>3, <2>4, <2>5, ReputationFrame
    <2>7. CapabilityInv'
      BY <1>1, <2>2, <2>3, <2>4, <2>5, CapabilityFrame
    <2> QED
      BY <2>6, <2>7 DEF Inv
  <1>3. CASE ConfigStep /\ UNCHANGED <<reputationVars, capabilityVars>>
    <2>1. ConfigStepKeeps
      BY <1>1, <1>3, StepsOfConfig
    <2>2. ConfigInv' /\ clock' = clock /\ clock \in Int
      BY <1>1, <2>1, RuntimeAssumption DEF ConfigStepKeeps, ConfigInv, RuntimeTypeOK
    <2>3. config # None =>
              /\ config' # None
              /\ config'.next_completion_id >= config.next_completion_id
              /\ config'.next_capability_id >= config.next_capability_id
      BY <1>1, <2>1, RuntimeAssumption
      DEF ConfigStepKeeps, CountersKept, ConfigInv, ConfigTypeOK, Config
    <2>4. \A v \in Vaults : lamports'[v] >= lamports[v]
      BY <1>1, <2>1 DEF ConfigStepKeeps, VaultsKept, ConfigInv, RuntimeTypeOK, Accounts
    <2>5. UNCHANGED reputationVars /\ UNCHANGED capabilityVars
      BY <1>3
    <2>6. ReputationInv'
      BY <1>1, <2>2, <2>3, <2>4, <2>5, ReputationFrame DEF Vaults
    <2>7. CapabilityInv'
      BY <1>1, <2>2, <2>3, <2>4, <2>5, CapabilityFrame DEF Vaults
    <2> QED
      BY <2>6, <2>7 DEF Inv
  <1>4. CASE ReputationStep /\ UNCHANGED capabilityVars
    <2>1. ReputationInv'
      BY <1>1, <1>4, StepsOfReputation
    <2>2. /\ \A v \in CapabilityVaults : lamports'[v] >= lamports[v]
          /\ config # None => /\ config' # None
                              /\ config'.next_capability_id = config.next_capability_id
      BY <1>1, <1>4, ReputationSparesCapabilities
    <2>3. config # None => config'.next_capability_id >= config.next_capability_id
      BY <1>1, <2>2, RuntimeAssumption DEF ConfigInv, ConfigTypeOK, Config
    <2>4. CapabilityInv'
      BY <1>1, <1>4, <2>1, <2>2, <2>3, CapabilityFrame DEF ReputationInv
    <2> QED
      BY <2>1, <2>4 DEF Inv
  <1>5. CASE CapabilityStep /\ UNCHANGED reputationVars
    <2>1. CapabilityInv'
      BY <1>1, <1>5, StepsOfCapability
    <2>2. /\ \A v \in ChallengeVaults : lamports'[v] >= lamports[v]
          /\ config # None => /\ config' # None
                              /\ config'.next_completion_id = config.next_completion_id
          /\ clock' = clock
      BY <1>1, <1>5, CapabilitySparesReputation
    <2>3. config # None => config'.next_completion_id >= config.next_completion_id
      BY <1>1, <2>2, RuntimeAssumption DEF ConfigInv, ConfigTypeOK, Config
    <2>4. clock' >= clock
      BY <1>1, <2>2, RuntimeAssumption DEF ConfigInv, RuntimeTypeOK
    <2>5. ReputationInv'
      BY <1>1, <1>5, <2>1, <2>2, <2>3, <2>4, ReputationFrame DEF CapabilityInv
    <2> QED
      BY <2>1, <2>5 DEF Inv
  <1>6. CASE UNCHANGED vars
    <2>1. /\ UNCHANGED <<agents, completions, challenges, capabilities, index>>
          /\ UNCHANGED <<config, pendingAdmin, upgradeAuthority, lamports, clock>>
      BY <1>6 DEF vars, runtimeVars, configVars, reputationVars, capabilityVars
    <2>2. ConfigInv'
      BY <1>1, <2>1 DEF ConfigInv, RuntimeTypeOK, ConfigTypeOK, ConfigInRange
    <2>3. ReputationInv'
      <3>1. ReputationTypeOK' /\ CompletionLogDense' /\ BondsBacked'
        BY <1>1, <2>1 DEF ReputationInv, ReputationTypeOK, CompletionLogDense, BondsBacked
      <3>2. DisputesMatchVerdicts'
        BY <1>1, <2>1 DEF ReputationInv, DisputesMatchVerdicts, DisputedSeqs, Upheld
      <3>3. CompletionIdsOrdered' /\ TimesPast'
        BY <1>1, <2>1 DEF ReputationInv, CompletionIdsOrdered, TimesPast
      <3> QED
        BY <2>2, <3>1, <3>2, <3>3 DEF ReputationInv
    <2>4. CapabilityInv'
      BY <1>1, <2>1, <2>2
      DEF CapabilityInv, CapabilityTypeOK, IndexExact, IndexFinite, RemaindersBacked, Live
    <2> QED
      BY <2>3, <2>4 DEF Inv
  <1> QED
    BY <1>2, <1>3, <1>4, <1>5, <1>6 DEF Next

\* The invariant holds of every state the program reaches.
THEOREM ProgramInvariant == Spec => []Inv
  <1>1. Init => Inv
    BY InitEstablishesInv
  <1>2. Inv /\ [Next]_vars => Inv'
    BY NextKeepsInv
  <1> QED
    BY <1>1, <1>2, PTL DEF Spec

-----------------------------------------------------------------------------
\* No handler puts a value of the wrong kind, or a counter beyond u64::MAX, into
\* an account.
THEOREM TypeCorrect == Spec => []TypeOK
  <1>1. Inv => TypeOK
    BY DEF Inv, ReputationInv, CapabilityInv, ConfigInv, TypeOK
  <1> QED
    BY <1>1, ProgramInvariant, PTL

\* The configured bond always funds a vault and the decay period always decays.
THEOREM ConfigAlwaysInRange == Spec => []ConfigInRange
  <1>1. Inv => ConfigInRange
    BY DEF Inv, ReputationInv, ConfigInv
  <1> QED
    BY <1>1, ProgramInvariant, PTL

\* Neither settlement of a pending challenge fails for lack of lamports or on the
\* rent rule.
THEOREM PendingBondsPayable == Spec => []PendingBondPayable
  <1>1. Inv => PendingBondPayable
    BY BackedBondsPayable DEF Inv
  <1> QED
    BY <1>1, ProgramInvariant, PTL

\* An agent's dispute counter is the number of verdicts against it.
THEOREM DisputesCounted == Spec => []DisputesMatchVerdicts
  <1>1. Inv => DisputesMatchVerdicts
    BY DEF Inv, ReputationInv
  <1> QED
    BY <1>1, ProgramInvariant, PTL

\* Completions are numbered without a gap, one challenge account to each that is
\* marked challenged.
THEOREM LogDense == Spec => []CompletionLogDense
  <1>1. Inv => CompletionLogDense
    BY DEF Inv, ReputationInv
  <1> QED
    BY <1>1, ProgramInvariant, PTL

\* Completion ids are unique and in the order of time.
THEOREM IdsOrdered == Spec => []CompletionIdsOrdered
  <1>1. Inv => CompletionIdsOrdered
    BY DEF Inv, ReputationInv
  <1> QED
    BY <1>1, ProgramInvariant, PTL

\* What is left of a capability's bond can be paid out in every way the handlers
\* offer.
THEOREM CapabilityBondsBacked == Spec => []CapabilityBondBacked
  <1>1. Inv => CapabilityBondBacked
    BY RemaindersPayable DEF Inv
  <1> QED
    BY <1>1, ProgramInvariant, PTL

\* An index lists exactly the live records of its type.
THEOREM IndexAlwaysExact == Spec => []IndexExact
  <1>1. Inv => IndexExact
    BY DEF Inv, CapabilityInv
  <1> QED
    BY <1>1, ProgramInvariant, PTL

-----------------------------------------------------------------------------
(* The program implements the escrow of BondEscrow: its initial states map to *)
(* the escrow's, and each of its steps to one of the escrow's or to none.     *)

Treasury == IF config = None THEN None ELSE config.treasury

\* Each vault stands for the bond of the challenge or record it belongs to.
LEMMA BondsOfVaults ==
    /\ \A c \in CompletionKeys : EscrowBonds[ChallengeVault(c)] = ChallengeBond(c)
    /\ \A k \in CapabilityKeys : EscrowBonds[CapabilityVault(k)] = CapabilityBond(k)
    /\ DOMAIN EscrowBonds = Vaults
    /\ \A v \in Vaults : \/ \E c \in CompletionKeys : v = ChallengeVault(c)
                         \/ \E k \in CapabilityKeys : v = CapabilityVault(k)
  <1>1. \A c \in CompletionKeys : EscrowBonds[ChallengeVault(c)] = ChallengeBond(c)
    BY VaultAddresses DEF EscrowBonds
  <1>2. \A k \in CapabilityKeys : EscrowBonds[CapabilityVault(k)] = CapabilityBond(k)
    BY VaultAddresses DEF EscrowBonds
  <1> QED
    BY <1>1, <1>2 DEF EscrowBonds, Vaults, ChallengeVaults, CapabilityVaults

LEMMA NextBondsOfVaults ==
    /\ \A c \in CompletionKeys : EscrowBonds'[ChallengeVault(c)] = ChallengeBond(c)'
    /\ \A k \in CapabilityKeys : EscrowBonds'[CapabilityVault(k)] = CapabilityBond(k)'
    /\ DOMAIN EscrowBonds' = Vaults
  <1>1. \A c \in CompletionKeys : EscrowBonds'[ChallengeVault(c)] = ChallengeBond(c)'
    BY VaultAddresses DEF EscrowBonds
  <1>2. \A k \in CapabilityKeys : EscrowBonds'[CapabilityVault(k)] = CapabilityBond(k)'
    BY VaultAddresses DEF EscrowBonds
  <1> QED
    BY <1>1, <1>2 DEF EscrowBonds

\* The bonds are the same when those of the challenges and of the records are.
LEMMA SameBonds ==
    ASSUME \A c \in CompletionKeys : ChallengeBond(c)' = ChallengeBond(c),
           \A k \in CapabilityKeys : CapabilityBond(k)' = CapabilityBond(k)
    PROVE  EscrowBonds' = EscrowBonds
  <1>1. \A v \in Vaults : EscrowBonds'[v] = EscrowBonds[v]
    BY BondsOfVaults, NextBondsOfVaults
  <1> QED
    BY <1>1 DEF EscrowBonds

LEMMA SameChallengeBonds ==
    ASSUME UNCHANGED <<completions, challenges>>
    PROVE  \A c \in CompletionKeys : ChallengeBond(c)' = ChallengeBond(c)
  BY DEF ChallengeBond, Pending

LEMMA SameCapabilityBonds ==
    ASSUME UNCHANGED <<config, capabilities>>
    PROVE  \A k \in CapabilityKeys : CapabilityBond(k)' = CapabilityBond(k)
  BY DEF CapabilityBond, Live

\* A System transfer is a payment of the escrow.
LEMMA TransfersPay ==
    ASSUME NEW from \in Accounts, NEW to \in Accounts, NEW amount \in Nat,
           lamports \in [Accounts -> Nat], SystemTransfer(from, to, amount)
    PROVE  /\ Escrow!Pay(from, to, amount)
           /\ amount \in 0 .. lamports[from]
  BY DEF SystemTransfer, CanPay, Moved, Escrow!Pay

-----------------------------------------------------------------------------
LEMMA InitImplements ==
    ASSUME Init
    PROVE  Escrow!Init
  <1>1. /\ config = None
        /\ challenges = [c \in CompletionKeys |-> None]
        /\ capabilities = [k \in CapabilityKeys |-> None]
    BY DEF Init, ConfigInit, ReputationInit, CapabilityInit
  <1>2. /\ lamports \in [Keys \cup Vaults -> Nat]
        /\ \A v \in Vaults : lamports[v] = 0
    BY RuntimeAssumption DEF Init, RuntimeInit, Accounts
  <1>3. /\ \A c \in CompletionKeys : ChallengeBond(c) = UnusedBond
        /\ \A k \in CapabilityKeys : CapabilityBond(k) = UnusedBond
    BY <1>1 DEF ChallengeBond, CapabilityBond, Live
  <1>4. \A v \in Vaults : EscrowBonds[v] = UnusedBond
    BY <1>3, BondsOfVaults
  <1>5. EscrowBonds = [v \in Vaults |-> UnusedBond]
    BY <1>4 DEF EscrowBonds
  <1> QED
    BY <1>1, <1>2, <1>5 DEF Escrow!Init, Escrow!Unused, UnusedBond

\* What the steps below use of the invariant.
LEMMA StateFacts ==
    ASSUME Inv
    PROVE  /\ lamports \in [Accounts -> Nat]
           /\ config # None => config \in Config
           /\ completions \in [CompletionKeys -> Completion \cup {None}]
           /\ challenges \in [CompletionKeys -> Challenge \cup {None}]
           /\ capabilities \in [CapabilityKeys -> Capability \cup {None}]
           /\ None \notin Challenge /\ None \notin Capability /\ None \notin Keys
           /\ \A c \in CompletionKeys :
                  challenges[c] # None <=> completions[c] # None /\ completions[c].challenged
           /\ \A k \in CapabilityKeys :
                  Live(k) => config # None /\ IdOf(k) < config.next_capability_id
           /\ Rent \in Nat /\ Rent > 0
           /\ MaxU64 \in Nat
  <1>1. \A c \in CompletionKeys :
            challenges[c] # None <=> completions[c] # None /\ completions[c].challenged
    BY PairsOfKeys DEF Inv, ReputationInv, CompletionLogDense
  <1>2. \A k \in CapabilityKeys : Live(k) => config # None /\ IdOf(k) < config.next_capability_id
    BY DEF Inv, CapabilityInv, IndexExact
  <1> QED
    BY <1>1, <1>2, RuntimeAssumption, ReputationAssumption, CapabilityAssumption
    DEF Inv, ReputationInv, CapabilityInv, ConfigInv, ConfigTypeOK, RuntimeTypeOK,
        ReputationTypeOK, CapabilityTypeOK

\* The bonds are well typed after every step.
LEMMA NextBondsTyped ==
    ASSUME Inv'
    PROVE  /\ \A c \in CompletionKeys : ChallengeBond(c)' \in Escrow!Bond
           /\ \A k \in CapabilityKeys : CapabilityBond(k)' \in Escrow!Bond
  <1>1. ASSUME NEW owner \in Keys, NEW owed \in Nat
        PROVE  HeldBond(owner, owed) \in Escrow!Bond
    BY DEF HeldBond, Escrow!Bond
  <1>2. UnusedBond \in Escrow!Bond /\ ClosedBond \in Escrow!Bond
    BY DEF UnusedBond, ClosedBond, Escrow!Bond, Escrow!Unused, Escrow!Closed
  <1>3. /\ challenges' \in [CompletionKeys -> Challenge \cup {None}]
        /\ capabilities' \in [CapabilityKeys -> Capability \cup {None}]
    BY DEF Inv, ReputationInv, ReputationTypeOK, CapabilityInv, CapabilityTypeOK
  <1>4. ASSUME NEW c \in CompletionKeys
        PROVE  ChallengeBond(c)' \in Escrow!Bond
    <2>1. challenges'[c] # None =>
              challenges'[c].challenger \in Keys /\ challenges'[c].bond_lamports \in Nat
      BY <1>3 DEF Challenge
    <2> QED
      BY <1>1, <1>2, <2>1 DEF ChallengeBond
  <1>5. ASSUME NEW k \in CapabilityKeys
        PROVE  CapabilityBond(k)' \in Escrow!Bond
    <2>1. Live(k)' => capabilities'[k].bond_remaining \in Nat
      BY <1>3 DEF Live, Capability
    <2>2. CreatorOf(k) \in Keys
      BY PartsOfKeys
    <2> QED
      BY <1>1, <1>2, <2>1, <2>2 DEF CapabilityBond
  <1> QED
    BY <1>4, <1>5

LEMMA NextStateFacts ==
    ASSUME Inv'
    PROVE  \A c \in CompletionKeys :
               challenges'[c] # None <=> completions'[c] # None /\ completions'[c].challenged
  BY PairsOfKeys DEF Inv, ReputationInv, CompletionLogDense

-----------------------------------------------------------------------------
\* A transfer outside the program is one of the escrow; the clock is invisible.
LEMMA RuntimeImplements ==
    ASSUME Inv, RuntimeStep, UNCHANGED <<configVars, reputationVars, capabilityVars>>
    PROVE  [Escrow!Next]_(Escrow!escrowVars)
  <1>1. UNCHANGED <<config, completions, challenges, capabilities>>
    BY DEF configVars, reputationVars, capabilityVars
  <1>2. EscrowBonds' = EscrowBonds /\ Treasury' = Treasury
    BY <1>1, SameBonds, SameChallengeBonds, SameCapabilityBonds DEF Treasury
  <1>3. ASSUME NEW from \in Keys, NEW to \in GiftTargets, NEW amount \in Gifts,
               WalletTransfer(from, to, amount)
        PROVE  Escrow!Next
    <2>1. from \in Accounts /\ to \in Keys \cup Vaults /\ to \in Accounts /\ amount \in Nat
      BY RuntimeAssumption DEF Accounts
    <2>2. Escrow!Pay(from, to, amount) /\ amount \in 0 .. lamports[from]
      BY <1>3, <2>1, StateFacts, TransfersPay DEF WalletTransfer
    <2>3. Escrow!Transfer(from, to, amount)
      BY <1>2, <2>2 DEF Escrow!Transfer, Treasury
    <2> QED
      BY <2>1, <2>2, <2>3 DEF Escrow!Next
  <1>4. CASE Tick
    BY <1>2, <1>4 DEF Tick, Escrow!escrowVars, Treasury
  <1> QED
    BY <1>3, <1>4 DEF RuntimeStep

\* The initialization names the treasury; nothing else about the configuration
\* shows in the escrow.
LEMMA ConfigImplements ==
    ASSUME Inv, ConfigStep, UNCHANGED <<reputationVars, capabilityVars>>
    PROVE  [Escrow!Next]_(Escrow!escrowVars)
  <1>1. UNCHANGED <<completions, challenges, capabilities>>
    BY DEF reputationVars, capabilityVars
  <1>2. CountersKept
    BY StepsOfConfig DEF ConfigStepKeeps, Inv, ReputationInv
  <1>3. \A k \in CapabilityKeys : CapabilityBond(k)' = CapabilityBond(k)
    <2> SUFFICES ASSUME NEW k \in CapabilityKeys
                 PROVE  CapabilityBond(k)' = CapabilityBond(k)
      OBVIOUS
    <2>1. CASE config # None
      BY <1>1, <1>2, <2>1 DEF CountersKept, CapabilityBond, Live
    <2>2. CASE config = None
      <3>1. ~Live(k) /\ ~Live(k)'
        BY <1>1, <2>2, StateFacts DEF Live
      <3>2. IdOf(k) >= 1
        BY PartsOfKeys, RuntimeAssumption
      <3>3. config' = None \/ config'.next_capability_id = 1
        BY <1>2, <2>2 DEF CountersKept
      <3> QED
        BY <2>2, <3>1, <3>2, <3>3 DEF CapabilityBond
    <2> QED
      BY <2>1, <2>2
  <1>4. EscrowBonds' = EscrowBonds
    BY <1>1, <1>3, SameBonds, SameChallengeBonds
  <1>5. ASSUME NEW signer \in Keys, NEW certifier \in CertifierChoices,
               NEW treasury \in TreasuryChoices, NEW bond \in BondChoices,
               NEW decay \in DecayChoices,
               InitializeConfig(signer, certifier, treasury, bond, decay)
        PROVE  Escrow!Next
    <2>1. /\ config = None /\ treasury # ZeroKey
          /\ SystemTransfer(signer, treasury, Rent)
          /\ config' = [admin |-> signer, certifier |-> certifier, treasury |-> treasury,
                        challenge_bond_lamports |-> bond, decay_period_secs |-> decay,
                        paused |-> FALSE, next_completion_id |-> 1, next_capability_id |-> 1]
      BY <1>5 DEF InitializeConfig
    <2>2. config' # None
      <3>1. /\ certifier \in Keys /\ treasury \in Keys /\ bond \in Nat /\ decay \in Nat
            /\ 1 \in 1 .. MaxU64
        BY <1>5, ConfigAssumption, RuntimeAssumption DEF InitializeConfig
      <3>2. config' \in Config
        BY <2>1, <3>1 DEF Config
      <3> QED
        BY <3>2, ConfigAccountAssumption
    <2>3. treasury \in Keys /\ signer \in Accounts /\ treasury \in Accounts
      BY <2>1, ConfigAssumption, VaultAddresses
    <2>4. Escrow!Pay(signer, treasury, Rent)
      BY <2>1, <2>3, StateFacts, TransfersPay
    <2>5. Escrow!NameTreasury(signer, treasury)
      BY <1>4, <2>1, <2>2, <2>4 DEF Escrow!NameTreasury
    <2> QED
      BY <2>3, <2>5 DEF Escrow!Next
  <1>6. ASSUME UNCHANGED lamports, config' = config \/ config # None
        PROVE  UNCHANGED Escrow!escrowVars
    <2>1. (config = None <=> config' = None) /\ (config # None => config'.treasury = config.treasury)
      BY <1>2, <1>6 DEF CountersKept
    <2> QED
      BY <1>4, <1>6, <2>1 DEF Escrow!escrowVars
  <1>7. ASSUME ~\E signer \in Keys, certifier \in CertifierChoices,
                   treasury \in TreasuryChoices, bond \in BondChoices,
                   decay \in DecayChoices :
                    InitializeConfig(signer, certifier, treasury, bond, decay)
        PROVE  UNCHANGED lamports /\ (config' = config \/ config # None)
    BY <1>7 DEF ConfigStep, SetUpgradeAuthority, UpdateConfig, SetCertifier, TransferAdmin,
                AcceptAdmin, runtimeVars
  <1> QED
    BY <1>5, <1>6, <1>7

-----------------------------------------------------------------------------
\* The slot of one vault closes, its whole balance paid to one wallet.
LEMMA SettlementImplements ==
    ASSUME Inv, config # None, config' = config,
           NEW vault \in Vaults, NEW to \in Keys,
           NEW owner \in Keys, NEW owed \in Nat,
           SystemTransfer(vault, to, lamports[vault]),
           lamports[vault] >= owed,
           to \in {owner, config.treasury},
           EscrowBonds[vault] = HeldBond(owner, owed),
           EscrowBonds' = [EscrowBonds EXCEPT ![vault] = ClosedBond]
    PROVE  Escrow!Next
  <1>1. vault \in Accounts /\ to \in Accounts /\ lamports[vault] \in Nat
    BY StateFacts DEF Accounts
  <1>2. Escrow!Pay(vault, to, lamports[vault])
    BY <1>1, StateFacts, TransfersPay
  <1>3. Escrow!IsHeld(vault) /\ EscrowBonds[vault].owed = owed /\ EscrowBonds[vault].owner = owner
    BY DEF Escrow!IsHeld, HeldBond
  <1>4. ClosedBond = Escrow!Closed
    BY DEF ClosedBond, Escrow!Closed
  <1>5. Escrow!Settle(vault, to)
    BY <1>2, <1>3, <1>4 DEF Escrow!Settle
  <1> QED
    BY <1>5 DEF Escrow!Next

\* A bond is taken in one slot; slots that were never used may close with it.
LEMMA DepositImplements ==
    ASSUME Inv, Inv', config # None, config' # None, config'.treasury = config.treasury,
           NEW vault \in Vaults, NEW owner \in Keys, NEW amount \in Nat,
           SystemTransfer(owner, vault, amount),
           amount >= Rent,
           EscrowBonds[vault] = UnusedBond,
           EscrowBonds'[vault] = HeldBond(owner, amount),
           \A other \in Vaults \ {vault} :
               \/ EscrowBonds'[other] = EscrowBonds[other]
               \/ EscrowBonds[other] = UnusedBond /\ EscrowBonds'[other] = ClosedBond
    PROVE  Escrow!Next
  <1>1. vault \in Accounts /\ owner \in Accounts
    BY DEF Accounts
  <1>2. Escrow!Pay(owner, vault, amount) /\ amount \in 0 .. lamports[owner]
    BY <1>1, StateFacts, TransfersPay
  <1>3. amount \in 1 .. lamports[owner]
    <2>1. lamports[owner] \in Nat
      BY <1>1, StateFacts
    <2> QED
      BY <1>2, <2>1, StateFacts
  <1>4. EscrowBonds' \in [Vaults -> Escrow!Bond]
    <2>1. /\ \A c \in CompletionKeys : ChallengeBond(c)' \in Escrow!Bond
          /\ \A k \in CapabilityKeys : CapabilityBond(k)' \in Escrow!Bond
      BY NextBondsTyped
    <2>2. \A v \in Vaults : EscrowBonds'[v] \in Escrow!Bond
      BY <2>1, BondsOfVaults, NextBondsOfVaults
    <2> QED
      BY <2>2 DEF EscrowBonds
  <1>5. config.treasury # None
    BY StateFacts DEF Config
  <1>6. Escrow!Deposit(owner, vault, amount)
    BY <1>2, <1>4, <1>5
    DEF Escrow!Deposit, UnusedBond, ClosedBond, HeldBond,
        Escrow!Unused, Escrow!Closed, Escrow!Held
  <1> QED
    BY <1>3, <1>6 DEF Escrow!Next

\* One slot changes.
LEMMA OneBondChanges ==
    ASSUME NEW vault \in Vaults, NEW bond,
           EscrowBonds'[vault] = bond,
           \A v \in Vaults : v # vault => EscrowBonds'[v] = EscrowBonds[v]
    PROVE  EscrowBonds' = [EscrowBonds EXCEPT ![vault] = bond]
  BY DEF EscrowBonds

LEMMA ReputationImplements ==
    ASSUME Inv, Inv', ReputationStep, UNCHANGED capabilityVars
    PROVE  [Escrow!Next]_(Escrow!escrowVars)
  <1>1. UNCHANGED capabilities
    BY DEF capabilityVars
  \* What does not concern the configuration, but for the completion counter, leaves
  \* the records' bonds as they are.
  <1>2. ASSUME \/ config' = config
               \/ /\ config # None /\ config' # None
                  /\ config'.next_capability_id = config.next_capability_id
        PROVE  \A k \in CapabilityKeys : CapabilityBond(k)' = CapabilityBond(k)
    BY <1>1, <1>2 DEF CapabilityBond, Live
  <1>3. ASSUME NEW authority \in Keys, NEW profile \in Profiles,
               RegisterAgent(authority, profile)
        PROVE  UNCHANGED Escrow!escrowVars
    <2>1. UNCHANGED <<completions, challenges, config, lamports>>
      BY <1>3 DEF RegisterAgent, configVars, runtimeVars
    <2> QED
      BY <1>2, <2>1, SameBonds, SameChallengeBonds DEF Escrow!escrowVars
  <1>4. ASSUME NEW authority \in Keys, NEW seq \in Seqs, AttestCompletion(authority, seq)
        PROVE  UNCHANGED Escrow!escrowVars
    <2> DEFINE c == <<authority, seq>>
    <2>1. /\ config # None
          /\ config' = [config EXCEPT !.next_completion_id = @ + 1]
          /\ completions[c] = None
          /\ \A d \in CompletionKeys : d # c => completions'[d] = completions[d]
          /\ UNCHANGED <<challenges, lamports>>
      BY <1>4, StateFacts DEF AttestCompletion, runtimeVars
    <2>2. /\ config' # None /\ config'.treasury = config.treasury
          /\ config'.next_capability_id = config.next_capability_id
      <3>1. config \in Config
        BY <2>1, StateFacts
      <3>2. config' # None
        BY ReputationSparesCapabilities, <2>1 DEF Inv
      <3> QED
        BY <2>1, <3>1, <3>2 DEF Config
    <2>3. c \in CompletionKeys /\ challenges[c] = None
      BY <2>1, PairsOfKeys, StateFacts
    <2>4. \A d \in CompletionKeys : ChallengeBond(d)' = ChallengeBond(d)
      BY <2>1, <2>3 DEF ChallengeBond, Pending
    <2> QED
      BY <1>2, <2>1, <2>2, <2>4, SameBonds DEF Escrow!escrowVars
  <1>5. ASSUME NEW signer \in Keys, NEW c \in CompletionKeys, ChallengeCompletion(signer, c)
        PROVE  Escrow!Next
    <2> DEFINE bond == config.challenge_bond_lamports
               vault == ChallengeVault(c)
    <2>1. /\ config # None /\ config' = config
          /\ completions[c] # None /\ ~completions[c].challenged
          /\ SystemTransfer(signer, vault, bond)
          /\ challenges' = [challenges EXCEPT ![c] =
                               [challenger |-> signer, timestamp |-> clock,
                                resolved |-> FALSE, upheld |-> FALSE,
                                bond_lamports |-> bond]]
          /\ completions' = [completions EXCEPT ![c].challenged = TRUE]
      BY <1>5 DEF ChallengeCompletion, Challengeable, configVars
    <2>2. bond \in Nat /\ bond >= Rent
      BY <2>1, StateFacts DEF Config, Inv, ReputationInv, ConfigInv, ConfigInRange
    <2>3. challenges[c] = None
      BY <2>1, StateFacts
    <2>4. \A d \in CompletionKeys :
              d # c => completions'[d] = completions[d] /\ challenges'[d] = challenges[d]
      BY <2>1, StateFacts
    <2>5. /\ ChallengeBond(c) = UnusedBond
          /\ \A d \in CompletionKeys : d # c => ChallengeBond(d)' = ChallengeBond(d)
      BY <2>3, <2>4 DEF ChallengeBond, Pending
    <2>6. ChallengeBond(c)' = HeldBond(signer, bond)
      <3>1. /\ challenges'[c] # None /\ ~challenges'[c].resolved
            /\ challenges'[c].challenger = signer
            /\ challenges'[c].bond_lamports = bond
        <4>1. /\ challenges'[c].challenger = signer
              /\ challenges'[c].bond_lamports = bond
              /\ ~challenges'[c].resolved
          BY <2>1, StateFacts
        <4>2. challenges'[c] # None
          <5>1. clock \in Nat
            BY RuntimeAssumption DEF Inv, ReputationInv, ConfigInv, RuntimeTypeOK
          <5>2. [challenger |-> signer, timestamp |-> clock, resolved |-> FALSE,
                 upheld |-> FALSE, bond_lamports |-> bond] \in Challenge
            BY <2>2, <5>1 DEF Challenge
          <5> QED
            BY <2>1, <5>2, StateFacts
        <4> QED
          BY <4>1, <4>2
      <3>2. completions'[c] # None /\ completions'[c].challenged
        BY <3>1, NextStateFacts
      <3> QED
        BY <3>1, <3>2 DEF ChallengeBond, Pending
    <2>7. \A k \in CapabilityKeys : CapabilityBond(k)' = CapabilityBond(k)
      BY <1>2, <2>1
    <2>8. \A v \in Vaults \ {vault} : EscrowBonds'[v] = EscrowBonds[v]
      BY <2>5, <2>7, BondsOfVaults, NextBondsOfVaults
    <2>9. vault \in Vaults /\ EscrowBonds[vault] = UnusedBond
                           /\ EscrowBonds'[vault] = HeldBond(signer, bond)
      BY <2>5, <2>6, BondsOfVaults, NextBondsOfVaults, VaultAddresses
    <2> HIDE DEF bond, vault
    <2> QED
      BY <2>1, <2>2, <2>8, <2>9, DepositImplements
  \* A verdict, or the challenger taking the bond back.
  <1>6. ASSUME NEW c \in CompletionKeys, NEW to \in Keys, NEW upheld \in BOOLEAN,
               config # None, config' = config, Pending(c),
               SweepTo(ChallengeVault(c), to),
               to \in {challenges[c].challenger, config.treasury},
               challenges' = Settled(c, upheld),
               \A d \in CompletionKeys : d # c => completions'[d] = completions[d]
        PROVE  Escrow!Next
    <2> DEFINE vault == ChallengeVault(c)
               owner == challenges[c].challenger
               owed == challenges[c].bond_lamports
    <2>1. /\ challenges[c] \in Challenge /\ ~challenges[c].resolved
          /\ owner \in Keys /\ owed \in Nat
      BY <1>6, StateFacts DEF Pending, Challenge
    <2>2. lamports[vault] >= owed
      BY <1>6, <2>1 DEF Inv, ReputationInv, BondsBacked, Pending
    <2>3. /\ challenges'[c] = [[challenges[c] EXCEPT !.resolved = TRUE] EXCEPT !.upheld = upheld]
          /\ \A d \in CompletionKeys : d # c => challenges'[d] = challenges[d]
      BY <1>6, <2>1, StateFacts DEF Settled
    <2>4. challenges'[c] # None /\ challenges'[c].resolved
      BY <2>1, <2>3, StateFacts DEF Challenge
    <2>5. /\ ChallengeBond(c) = HeldBond(owner, owed)
          /\ ChallengeBond(c)' = ClosedBond
          /\ \A d \in CompletionKeys : d # c => ChallengeBond(d)' = ChallengeBond(d)
      BY <1>6, <2>3, <2>4 DEF ChallengeBond, Pending
    <2>6. \A k \in CapabilityKeys : CapabilityBond(k)' = CapabilityBond(k)
      BY <1>2, <1>6
    <2>7. /\ vault \in Vaults
          /\ EscrowBonds[vault] = HeldBond(owner, owed)
          /\ EscrowBonds'[vault] = ClosedBond
          /\ \A v \in Vaults : v # vault => EscrowBonds'[v] = EscrowBonds[v]
      BY <2>5, <2>6, BondsOfVaults, NextBondsOfVaults, VaultAddresses
    <2>8. EscrowBonds' = [EscrowBonds EXCEPT ![vault] = ClosedBond]
      BY <2>7, OneBondChanges
    <2>9. SystemTransfer(vault, to, lamports[vault]) /\ to \in {owner, config.treasury}
      BY <1>6 DEF SweepTo
    <2> HIDE DEF vault, owner, owed
    <2> QED
      BY <1>6, <2>1, <2>2, <2>7, <2>8, <2>9, SettlementImplements
  <1>7. ASSUME NEW signer \in Keys, NEW c \in CompletionKeys, NEW upheld \in BOOLEAN,
               ResolveChallenge(signer, c, upheld)
        PROVE  Escrow!Next
    <2> DEFINE to == IF upheld THEN challenges[c].challenger ELSE config.treasury
    <2>1. /\ config # None /\ config' = config /\ Pending(c)
          /\ SweepTo(ChallengeVault(c), to)
          /\ challenges' = Settled(c, upheld)
          /\ \A d \in CompletionKeys : d # c => completions'[d] = completions[d]
      BY <1>7, StateFacts DEF ResolveChallenge, IsAuthority, configVars
    <2>2. to \in Keys /\ to \in {challenges[c].challenger, config.treasury}
      BY <2>1, StateFacts DEF Pending, Challenge, Config
    <2> HIDE DEF to
    <2> QED
      BY <1>6, <2>1, <2>2
  <1>8. ASSUME NEW signer \in Keys, NEW c \in CompletionKeys, CancelChallenge(signer, c)
        PROVE  Escrow!Next
    <2>1. /\ config' = config /\ Pending(c) /\ signer = challenges[c].challenger
          /\ SweepTo(ChallengeVault(c), signer)
          /\ challenges' = Settled(c, FALSE)
          /\ UNCHANGED completions
      BY <1>8 DEF CancelChallenge, configVars
    <2>2. config # None
      BY <2>1 DEF Inv, ReputationInv, BondsBacked, Pending
    <2> QED
      BY <1>6, <2>1, <2>2
  <1> QED
    BY <1>3, <1>4, <1>5, <1>7, <1>8 DEF ReputationStep

LEMMA CapabilityImplements ==
    ASSUME Inv, Inv', CapabilityStep, UNCHANGED reputationVars
    PROVE  [Escrow!Next]_(Escrow!escrowVars)
  <1>1. \A c \in CompletionKeys : ChallengeBond(c)' = ChallengeBond(c)
    BY SameChallengeBonds DEF reputationVars
  <1>2. ASSUME NEW creator \in Keys, NEW k \in CapabilityKeys, NEW bond \in CapabilityBonds,
               RegisterCapability(creator, k, bond)
        PROVE  Escrow!Next
    <2> DEFINE vault == CapabilityVault(k)
    <2>1. /\ config # None /\ bond >= Rent /\ bond \in Nat /\ bond > 0
          /\ CreatorOf(k) = creator /\ ~Live(k)
          /\ IdOf(k) = config.next_capability_id
          /\ config' = [config EXCEPT !.next_capability_id = @ + 1]
          /\ SystemTransfer(creator, vault, bond)
          /\ capabilities' = [capabilities EXCEPT ![k] =
                                 [bond_remaining |-> bond, certified |-> FALSE,
                                  slashed |-> FALSE, active |-> TRUE]]
      BY <1>2, CapabilityAssumption DEF RegisterCapability, UsesNextId
    <2>2. /\ config' # None /\ config'.treasury = config.treasury
          /\ config.next_capability_id \in Int
          /\ config'.next_capability_id = config.next_capability_id + 1
      <3>1. config \in Config
        BY <2>1, StateFacts
      <3>2. config' # None
        BY CapabilitySparesReputation, <2>1 DEF Inv
      <3> QED
        BY <2>1, <3>1, <3>2, RuntimeAssumption DEF Config
    <2>3. /\ capabilities'[k] # None
          /\ capabilities'[k].bond_remaining = bond
      <3>1. [bond_remaining |-> bond, certified |-> FALSE,
             slashed |-> FALSE, active |-> TRUE] \in Capability
        BY <2>1 DEF Capability
      <3> QED
        BY <2>1, <3>1, StateFacts
    <2>4. /\ CapabilityBond(k) = UnusedBond
          /\ CapabilityBond(k)' = HeldBond(creator, bond)
      BY <2>1, <2>2, <2>3 DEF CapabilityBond, Live
    <2>5. \A l \in CapabilityKeys :
              l # k => \/ CapabilityBond(l)' = CapabilityBond(l)
                       \/ CapabilityBond(l) = UnusedBond /\ CapabilityBond(l)' = ClosedBond
      <3> SUFFICES ASSUME NEW l \in CapabilityKeys, l # k
                   PROVE  \/ CapabilityBond(l)' = CapabilityBond(l)
                          \/ CapabilityBond(l) = UnusedBond /\ CapabilityBond(l)' = ClosedBond
        OBVIOUS
      <3>1. capabilities'[l] = capabilities[l]
        BY <2>1, StateFacts
      <3>2. IdOf(l) \in Int
        BY PartsOfKeys, RuntimeAssumption
      <3> QED
        BY <2>1, <2>2, <3>1, <3>2 DEF CapabilityBond, Live
    <2>6. /\ vault \in Vaults
          /\ EscrowBonds[vault] = UnusedBond
          /\ EscrowBonds'[vault] = HeldBond(creator, bond)
      BY <2>4, BondsOfVaults, NextBondsOfVaults, VaultAddresses
    <2>7. \A other \in Vaults \ {vault} :
              \/ EscrowBonds'[other] = EscrowBonds[other]
              \/ EscrowBonds[other] = UnusedBond /\ EscrowBonds'[other] = ClosedBond
      BY <1>1, <2>5, BondsOfVaults, NextBondsOfVaults
    <2> HIDE DEF vault
    <2> QED
      BY <2>1, <2>2, <2>6, <2>7, DepositImplements
  <1>3. ASSUME NEW signer \in Keys, NEW k \in CapabilityKeys, CertifyCapability(signer, k)
        PROVE  UNCHANGED Escrow!escrowVars
    <2>1. /\ UNCHANGED <<config, lamports>>
          /\ capabilities[k] \in Capability
          /\ capabilities' = [capabilities EXCEPT ![k].certified = TRUE]
      BY <1>3, StateFacts DEF CertifyCapability, configVars, runtimeVars, Live
    <2>2. /\ capabilities'[k].bond_remaining = capabilities[k].bond_remaining
          /\ capabilities'[k] \in Capability
      BY <2>1, StateFacts DEF Capability
    <2>3. \A l \in CapabilityKeys : l # k => capabilities'[l] = capabilities[l]
      BY <2>1, StateFacts
    <2>4. \A l \in CapabilityKeys : CapabilityBond(l)' = CapabilityBond(l)
      <3>1. capabilities[k] # None /\ capabilities'[k] # None /\ config' = config
        BY <2>1, <2>2, StateFacts
      <3>2. CapabilityBond(k)' = CapabilityBond(k)
        BY <2>2, <3>1 DEF CapabilityBond, Live
      <3>3. \A l \in CapabilityKeys : l # k => CapabilityBond(l)' = CapabilityBond(l)
        BY <2>3, <3>1 DEF CapabilityBond, Live
      <3> QED
        BY <3>2, <3>3
    <2> QED
      BY <1>1, <2>1, <2>4, SameBonds DEF Escrow!escrowVars
  <1>4. ASSUME NEW signer \in Keys, NEW k \in CapabilityKeys, NEW penalty \in Penalties,
               SlashCapability(signer, k, penalty)
        PROVE  Escrow!Next
    <2> DEFINE vault == CapabilityVault(k)
               owed == capabilities[k].bond_remaining
               remaining == owed - penalty
               amount == SlashedAmount(k, remaining, penalty)
    <2>1. /\ config # None /\ config' = config /\ Live(k)
          /\ capabilities[k] \in Capability
          /\ penalty > 0 /\ penalty <= owed
          /\ lamports[vault] >= owed
          /\ remaining = 0 \/ remaining >= Rent
          /\ SystemTransfer(vault, config.treasury, amount)
          /\ capabilities'[k] = [[capabilities[k] EXCEPT !.bond_remaining = remaining]
                                     EXCEPT !.slashed = TRUE]
          /\ \A l \in CapabilityKeys : l # k => capabilities'[l] = capabilities[l]
      BY <1>4, StateFacts
      DEF SlashCapability, LeavesRentExempt, IsAuthority, Live, configVars
    <2>2. /\ penalty \in Nat /\ owed \in Nat /\ remaining \in Nat
          /\ config.treasury \in Keys /\ CreatorOf(k) \in Keys
          /\ vault \in Vaults /\ vault \in Accounts
      BY <2>1, StateFacts, CapabilityAssumption, PartsOfKeys, VaultAddresses
      DEF Capability, Config
    <2>3. /\ capabilities'[k] # None
          /\ capabilities'[k].bond_remaining = remaining
      <3> HIDE DEF remaining
      <3>1. capabilities'[k] \in Capability
        BY <2>1, <2>2 DEF Capability
      <3> QED
        BY <2>1, <2>2, <3>1, StateFacts DEF Capability
    <2>4. CapabilityBond(k) = HeldBond(CreatorOf(k), owed)
      BY <2>1, <2>2 DEF CapabilityBond
    <2>5. \A l \in CapabilityKeys : l # k => CapabilityBond(l)' = CapabilityBond(l)
      BY <2>1 DEF CapabilityBond, Live
    <2>6. /\ EscrowBonds[vault] = HeldBond(CreatorOf(k), owed)
          /\ EscrowBonds'[vault] = CapabilityBond(k)'
          /\ \A v \in Vaults : v # vault => EscrowBonds'[v] = EscrowBonds[v]
      BY <1>1, <2>4, <2>5, BondsOfVaults, NextBondsOfVaults
    <2>7. CASE remaining = 0
      <3>1. CapabilityBond(k)' = ClosedBond
        BY <2>3, <2>7 DEF CapabilityBond, Live
      <3>2. EscrowBonds' = [EscrowBonds EXCEPT ![vault] = ClosedBond]
        BY <2>2, <2>6, <3>1, OneBondChanges
      <3>3. SystemTransfer(vault, config.treasury, lamports[vault])
        BY <2>1, <2>7 DEF SlashedAmount
      <3> HIDE DEF vault, owed
      <3> QED
        BY <2>1, <2>2, <2>6, <3>2, <3>3, SettlementImplements
    <2>8. CASE remaining # 0
      <3>1. CapabilityBond(k)' = HeldBond(CreatorOf(k), remaining)
        BY <2>2, <2>3, <2>8 DEF CapabilityBond, Live
      <3>2. EscrowBonds' = [EscrowBonds EXCEPT ![vault] = HeldBond(CreatorOf(k), remaining)]
        BY <2>2, <2>6, <3>1, OneBondChanges
      <3>3. HeldBond(CreatorOf(k), remaining) = [EscrowBonds[vault] EXCEPT !.owed = @ - penalty]
        BY <2>6 DEF HeldBond
      <3>4. SystemTransfer(vault, config.treasury, penalty)
        BY <2>1, <2>8 DEF SlashedAmount
      <3>5. Escrow!Pay(vault, config.treasury, penalty)
        BY <2>2, <3>4, StateFacts, TransfersPay, VaultAddresses
      <3>6. /\ Escrow!IsHeld(vault) /\ EscrowBonds[vault].owed = owed
            /\ penalty + Rent <= owed
        <4>1. remaining >= Rent
          BY <2>1, <2>8
        <4>2. penalty + Rent <= owed
          BY <2>2, <4>1, StateFacts
        <4> QED
          BY <2>6, <4>2 DEF Escrow!IsHeld, HeldBond
      <3>7. EscrowBonds' = [EscrowBonds EXCEPT ![vault].owed = @ - penalty]
        <4>1. vault \in DOMAIN EscrowBonds
          BY <2>2, BondsOfVaults
        <4> HIDE DEF vault, owed, remaining
        <4> QED
          BY <3>2, <3>3, <4>1
      <3>8. Escrow!Penalize(vault, penalty)
        <4> HIDE DEF vault, owed, remaining
        <4> QED
          BY <2>1, <3>5, <3>6, <3>7 DEF Escrow!Penalize
      <3>9. penalty \in 1 .. EscrowBonds[vault].owed
        BY <2>1, <2>2, <3>6
      <3> QED
        BY <2>2, <3>8, <3>9 DEF Escrow!Next
    <2> QED
      BY <2>7, <2>8
  <1>5. ASSUME NEW signer \in Keys, NEW k \in CapabilityKeys,
               WithdrawCapabilityBond(signer, k)
        PROVE  Escrow!Next
    <2> DEFINE vault == CapabilityVault(k)
               owed == capabilities[k].bond_remaining
    <2>1. /\ config # None /\ config' = config /\ Live(k)
          /\ signer = CreatorOf(k) /\ owed > 0
          /\ lamports[vault] >= owed
          /\ SystemTransfer(vault, signer, lamports[vault])
          /\ capabilities'[k] = None
          /\ \A l \in CapabilityKeys : l # k => capabilities'[l] = capabilities[l]
      BY <1>5, StateFacts DEF WithdrawCapabilityBond, HasBond, configVars
    <2>2. /\ owed \in Nat /\ vault \in Vaults
          /\ IdOf(k) < config.next_capability_id /\ IdOf(k) \in Int
          /\ config.next_capability_id \in Int
      BY <2>1, StateFacts, VaultAddresses, PartsOfKeys, RuntimeAssumption
      DEF Live, Capability, Config
    <2>3. /\ CapabilityBond(k) = HeldBond(signer, owed)
          /\ CapabilityBond(k)' = ClosedBond
          /\ \A l \in CapabilityKeys : l # k => CapabilityBond(l)' = CapabilityBond(l)
      BY <2>1, <2>2 DEF CapabilityBond, Live
    <2>4. /\ EscrowBonds[vault] = HeldBond(signer, owed)
          /\ EscrowBonds'[vault] = ClosedBond
          /\ \A v \in Vaults : v # vault => EscrowBonds'[v] = EscrowBonds[v]
      BY <1>1, <2>3, BondsOfVaults, NextBondsOfVaults
    <2>5. EscrowBonds' = [EscrowBonds EXCEPT ![vault] = ClosedBond]
      BY <2>2, <2>4, OneBondChanges
    <2> HIDE DEF vault, owed
    <2> QED
      BY <2>1, <2>2, <2>4, <2>5, SettlementImplements
  <1> QED
    BY <1>2, <1>3, <1>4, <1>5 DEF CapabilityStep

-----------------------------------------------------------------------------
\* The program keeps the promise of BondEscrow about other people's money: every
\* handler, and every transfer outside the program, is a step of the escrow or
\* invisible to it.
THEOREM ProgramImplementsEscrow == Spec => ImplementsEscrow
  <1>1. Init => Escrow!Init
    BY InitImplements
  <1>2. ASSUME Inv, [Next]_vars
        PROVE  [Escrow!Next]_(Escrow!escrowVars)
    <2>1. Inv'
      BY <1>2, NextKeepsInv
    <2>2. CASE UNCHANGED vars
      <3>1. UNCHANGED <<lamports, config, completions, challenges, capabilities>>
        BY <2>2 DEF vars, runtimeVars, configVars, reputationVars, capabilityVars
      <3> QED
        BY <3>1, SameBonds, SameChallengeBonds, SameCapabilityBonds DEF Escrow!escrowVars
    <2> QED
      BY <1>2, <2>1, <2>2, RuntimeImplements, ConfigImplements, ReputationImplements,
         CapabilityImplements DEF Next
  <1>3. Spec => [][Escrow!Next]_(Escrow!escrowVars)
    BY <1>2, ProgramInvariant, PTL DEF Spec
  <1>4. Spec => Escrow!Spec
    BY <1>1, <1>3, PTL DEF Spec, Escrow!Spec
  <1> QED
    BY <1>4 DEF ImplementsEscrow

-----------------------------------------------------------------------------
(* The configuration. *)

\* Apart from its one creation, the handlers of other components write only the id
\* counters of the Config account, and only upwards.
ConfigCounted ==
    /\ UNCHANGED <<pendingAdmin, upgradeAuthority>>
    /\ config = None => config' = None
    /\ config # None =>
           /\ config' # None
           /\ config'.admin = config.admin
           /\ config'.treasury = config.treasury
           /\ config'.next_completion_id >= config.next_completion_id
           /\ config'.next_capability_id >= config.next_capability_id

LEMMA OthersOnlyCount ==
    ASSUME Inv, (RuntimeStep /\ UNCHANGED configVars) \/ ReputationStep \/ CapabilityStep
    PROVE  ConfigCounted
  <1>1. /\ config # None => config \in Config
        /\ MaxU64 \in Nat
        /\ None \notin Config
    BY RuntimeAssumption, ConfigAccountAssumption
    DEF Inv, ReputationInv, ConfigInv, ConfigTypeOK
  <1>2. CASE UNCHANGED configVars
    BY <1>1, <1>2 DEF configVars, ConfigCounted, Config
  <1>3. ASSUME NEW authority \in Keys, NEW seq \in Seqs, AttestCompletion(authority, seq)
        PROVE  ConfigCounted
    <2>1. /\ config # None
          /\ config' = [config EXCEPT !.next_completion_id = @ + 1]
          /\ config.next_completion_id < MaxU64
          /\ UNCHANGED <<pendingAdmin, upgradeAuthority>>
      BY <1>3 DEF AttestCompletion, HasRoom
    <2>2. /\ config.next_completion_id \in Nat /\ config.next_capability_id \in Nat
          /\ config \in Config
      BY <1>1, <2>1 DEF Config
    <2>3. config' \in Config
      BY <1>1, <2>1, <2>2 DEF Config
    <2> QED
      BY <1>1, <2>1, <2>2, <2>3 DEF ConfigCounted, Config
  <1>4. ASSUME NEW creator \in Keys, NEW k \in CapabilityKeys, NEW bond \in CapabilityBonds,
               RegisterCapability(creator, k, bond)
        PROVE  ConfigCounted
    <2>1. /\ config # None
          /\ config' = [config EXCEPT !.next_capability_id = @ + 1]
          /\ config.next_capability_id < MaxU64
          /\ UNCHANGED <<pendingAdmin, upgradeAuthority>>
      BY <1>4 DEF RegisterCapability, HasRoom
    <2>2. /\ config.next_completion_id \in Nat /\ config.next_capability_id \in Nat
          /\ config \in Config
      BY <1>1, <2>1 DEF Config
    <2>3. config' \in Config
      BY <1>1, <2>1, <2>2 DEF Config
    <2> QED
      BY <1>1, <2>1, <2>2, <2>3 DEF ConfigCounted, Config
  <1>5. CASE ReputationStep
    <2>1. ASSUME NEW authority \in Keys, NEW profile \in Profiles,
                 RegisterAgent(authority, profile)
          PROVE  UNCHANGED configVars
      BY <2>1 DEF RegisterAgent
    <2>2. ASSUME NEW signer \in Keys, NEW c \in CompletionKeys,
                 \/ ChallengeCompletion(signer, c) \/ CancelChallenge(signer, c)
                 \/ \E upheld \in BOOLEAN : ResolveChallenge(signer, c, upheld)
          PROVE  UNCHANGED configVars
      BY <2>2 DEF ChallengeCompletion, CancelChallenge, ResolveChallenge
    <2> QED
      BY <1>2, <1>3, <1>5, <2>1, <2>2 DEF ReputationStep
  <1>6. CASE CapabilityStep
    <2>1. ASSUME NEW signer \in Keys, NEW k \in CapabilityKeys,
                 \/ CertifyCapability(signer, k) \/ WithdrawCapabilityBond(signer, k)
                 \/ \E penalty \in Penalties : SlashCapability(signer, k, penalty)
          PROVE  UNCHANGED configVars
      BY <2>1 DEF CertifyCapability, WithdrawCapabilityBond, SlashCapability
    <2> QED
      BY <1>2, <1>4, <1>6, <2>1 DEF CapabilityStep
  <1> QED
    BY <1>2, <1>5, <1>6

LEMMA StepsHandOver ==
    ASSUME Inv, [Next]_vars
    PROVE  [HandoverStep]_configVars
  <1>1. /\ config # None => config \in Config
        /\ MaxU64 \in Nat
        /\ ConfigInv
    BY RuntimeAssumption DEF Inv, ReputationInv, ConfigInv, ConfigTypeOK
  <1>2. CASE ConfigStep
    BY <1>1, <1>2, ConfigStepsHandOver
  <1>3. CASE ~ConfigStep /\ ~UNCHANGED configVars
    <2>1. ConfigCounted
      BY <1>3, OthersOnlyCount DEF Next, vars, configVars
    <2> QED
      BY <2>1 DEF ConfigCounted, HandoverStep
  <1> QED
    BY <1>2, <1>3

\* The admin role moves only to a key that was proposed and accepts.
THEOREM AdminHandoverHolds == Spec => AdminHandover
  <1>1. Inv /\ [Next]_vars => [HandoverStep]_configVars
    BY StepsHandOver
  <1>2. Spec => [][HandoverStep]_configVars
    BY <1>1, ProgramInvariant, PTL DEF Spec
  <1> QED
    BY <1>2 DEF AdminHandover

-----------------------------------------------------------------------------
(* The accounts of a transaction. *)

\* A transfer changes the balances of its two ends and takes from the payer only.
LEMMA TransferWithin ==
    ASSUME NEW from \in Accounts, NEW to \in Accounts, NEW amount \in Nat,
           lamports \in [Accounts -> Nat],
           SystemTransfer(from, to, amount)
    PROVE  /\ \A a \in Accounts : lamports'[a] # lamports[a] => a \in {from, to}
           /\ \A key \in Keys : lamports'[key] < lamports[key] => key = from
  <1>1. Keys \subseteq Accounts
    BY VaultAddresses
  <1>2. /\ \A a \in Accounts : a \notin {from, to} => lamports'[a] = lamports[a]
        /\ lamports' \in [Accounts -> Nat]
        /\ lamports'[to] >= lamports[to]
    BY TransferEffect
  <1>3. \A key \in Keys : lamports[key] \in Nat /\ lamports'[key] \in Nat
    BY <1>1, <1>2
  <1> QED
    BY <1>1, <1>2, <1>3

LEMMA NobodyPays ==
    ASSUME lamports \in [Accounts -> Nat], UNCHANGED lamports
    PROVE  /\ \A a \in Accounts : lamports'[a] = lamports[a]
           /\ \A signer : PaidOnlyBy(signer)
  <1>1. \A key \in Keys : lamports[key] \in Nat
    BY VaultAddresses
  <1> QED
    BY <1>1 DEF PaidOnlyBy

\* A sweep pays from a vault, so no wallet pays.
LEMMA SweepWithin ==
    ASSUME NEW vault \in Vaults, NEW to \in Keys, NEW amount \in Nat,
           lamports \in [Accounts -> Nat],
           SystemTransfer(vault, to, amount)
    PROVE  /\ \A a \in Accounts : lamports'[a] # lamports[a] => a \in {vault, to}
           /\ \A signer : PaidOnlyBy(signer)
  <1>1. vault \in Accounts /\ to \in Accounts /\ vault \notin Keys
    BY RuntimeAssumption DEF Accounts
  <1> QED
    BY <1>1, TransferWithin DEF PaidOnlyBy

LEMMA ConfigStepsDeclared ==
    ASSUME Inv, ConfigStep, UNCHANGED <<reputationVars, capabilityVars>>
    PROVE  OutsideStep \/ ConfigStepWithin
  <1>1. lamports \in [Accounts -> Nat]
    BY DEF Inv, ReputationInv, ConfigInv, RuntimeTypeOK
  <1>2. UNCHANGED <<agents, completions, challenges, capabilities, index>>
    BY DEF reputationVars, capabilityVars
  <1>3. ASSUME NEW signer \in Keys, NEW certifier \in CertifierChoices,
               NEW treasury \in TreasuryChoices, NEW bond \in BondChoices,
               NEW decay \in DecayChoices,
               InitializeConfig(signer, certifier, treasury, bond, decay)
        PROVE  ConfigStepWithin
    <2>1. /\ SystemTransfer(signer, treasury, Rent)
          /\ UNCHANGED <<pendingAdmin, clock>>
          /\ treasury # ZeroKey
      BY <1>3 DEF InitializeConfig
    <2>2. signer \in Accounts /\ treasury \in Accounts /\ Rent \in Nat
      BY <2>1, VaultAddresses, RuntimeAssumption, ConfigAssumption
    <2>3. /\ \A a \in Accounts : lamports'[a] # lamports[a] => a \in {signer, treasury}
          /\ PaidOnlyBy(signer)
      BY <1>1, <2>1, <2>2, TransferWithin DEF PaidOnlyBy
    <2>4. ChangesOnly({ConfigAccount, signer, treasury})
      BY <1>2, <2>1, <2>3 DEF ChangesOnly
    <2>5. Within(InitializeConfigAccounts(signer, treasury))
      BY <2>3, <2>4 DEF Within, InitializeConfigAccounts
    <2> QED
      BY <1>3, <2>5 DEF ConfigStepWithin
  <1>4. ASSUME NEW signer \in Keys, NEW bond \in BondChoices \cup {None},
               NEW decay \in DecayChoices \cup {None}, NEW paused \in PauseChoices \cup {None},
               UpdateConfig(signer, bond, decay, paused)
        PROVE  ConfigStepWithin
    <2>1. UNCHANGED <<pendingAdmin, lamports>>
      BY <1>4 DEF UpdateConfig, runtimeVars
    <2>2. Within(UpdateConfigAccounts(signer))
      BY <1>1, <1>2, <2>1, NobodyPays DEF Within, UpdateConfigAccounts, ChangesOnly
    <2> QED
      BY <1>4, <2>2 DEF ConfigStepWithin
  <1>5. ASSUME NEW signer \in Keys, NEW certifier \in CertifierChoices,
               SetCertifier(signer, certifier)
        PROVE  ConfigStepWithin
    <2>1. UNCHANGED <<pendingAdmin, lamports>>
      BY <1>5 DEF SetCertifier, runtimeVars
    <2>2. Within(SetCertifierAccounts(signer))
      BY <1>1, <1>2, <2>1, NobodyPays DEF Within, SetCertifierAccounts, ChangesOnly
    <2> QED
      BY <1>5, <2>2 DEF ConfigStepWithin
  <1>6. ASSUME NEW signer \in Keys, NEW newAdmin \in AdminChoices,
               TransferAdmin(signer, newAdmin)
        PROVE  ConfigStepWithin
    <2>1. UNCHANGED <<config, lamports>>
      BY <1>6 DEF TransferAdmin, runtimeVars
    <2>2. Within(TransferAdminAccounts(signer))
      BY <1>1, <1>2, <2>1, NobodyPays DEF Within, TransferAdminAccounts, ChangesOnly
    <2> QED
      BY <1>6, <2>2 DEF ConfigStepWithin
  <1>7. ASSUME NEW signer \in Keys, AcceptAdmin(signer)
        PROVE  ConfigStepWithin
    <2>1. UNCHANGED lamports
      BY <1>7 DEF AcceptAdmin, runtimeVars
    <2>2. Within(AcceptAdminAccounts(signer))
      BY <1>1, <1>2, <2>1, NobodyPays DEF Within, AcceptAdminAccounts, ChangesOnly
    <2> QED
      BY <1>7, <2>2 DEF ConfigStepWithin
  <1>8. ASSUME NEW authority, SetUpgradeAuthority(authority)
        PROVE  OutsideStep
    BY <1>8 DEF SetUpgradeAuthority, OutsideStep
  <1> QED
    BY <1>3, <1>4, <1>5, <1>6, <1>7, <1>8 DEF ConfigStep

LEMMA ReputationStepsDeclared ==
    ASSUME Inv, ReputationStep, UNCHANGED capabilityVars
    PROVE  ReputationStepWithin
  <1>1. /\ lamports \in [Accounts -> Nat]
        /\ agents \in [Keys -> Agent \cup {None}]
        /\ completions \in [CompletionKeys -> Completion \cup {None}]
        /\ challenges \in [CompletionKeys -> Challenge \cup {None}]
        /\ config \in Config \cup {None}
    BY DEF Inv, ReputationInv, ConfigInv, RuntimeTypeOK, ReputationTypeOK, ConfigTypeOK
  <1>2. UNCHANGED <<capabilities, index>>
    BY DEF capabilityVars
  <1>3. ASSUME NEW authority \in Keys, NEW profile \in Profiles,
               RegisterAgent(authority, profile)
        PROVE  ReputationStepWithin
    <2>1. /\ UNCHANGED <<completions, challenges, config, pendingAdmin, lamports>>
          /\ \A a \in Keys : agents'[a] # agents[a] => a = authority
      BY <1>1, <1>3 DEF RegisterAgent, configVars, runtimeVars
    <2>2. Within(RegisterAgentAccounts(authority))
      BY <1>1, <1>2, <2>1, NobodyPays DEF Within, RegisterAgentAccounts, ChangesOnly
    <2> QED
      BY <1>3, <2>2 DEF ReputationStepWithin
  <1>4. ASSUME NEW authority \in Keys, NEW seq \in Seqs, AttestCompletion(authority, seq)
        PROVE  ReputationStepWithin
    <2>1. /\ UNCHANGED <<challenges, pendingAdmin, lamports>>
          /\ \A a \in Keys : agents'[a] # agents[a] => a = authority
          /\ \A c \in CompletionKeys :
                 completions'[c] # completions[c] => c = <<authority, seq>>
      BY <1>1, <1>4 DEF AttestCompletion, runtimeVars
    <2>2. Within(AttestCompletionAccounts(authority, seq))
      BY <1>1, <1>2, <2>1, NobodyPays DEF Within, AttestCompletionAccounts, ChangesOnly
    <2> QED
      BY <1>4, <2>2 DEF ReputationStepWithin
  <1>5. ASSUME NEW signer \in Keys, NEW c \in CompletionKeys, ChallengeCompletion(signer, c)
        PROVE  ReputationStepWithin
    <2>1. /\ UNCHANGED <<agents, config, pendingAdmin>>
          /\ SystemTransfer(signer, ChallengeVault(c), config.challenge_bond_lamports)
          /\ config # None
          /\ \A d \in CompletionKeys :
                 d # c => completions'[d] = completions[d] /\ challenges'[d] = challenges[d]
      BY <1>1, <1>5 DEF ChallengeCompletion, configVars
    <2>2. /\ signer \in Accounts /\ ChallengeVault(c) \in Accounts
          /\ config.challenge_bond_lamports \in Nat
      BY <1>1, <2>1, VaultAddresses DEF Config
    <2>3. /\ \A a \in Accounts : lamports'[a] # lamports[a] => a \in {signer, ChallengeVault(c)}
          /\ PaidOnlyBy(signer)
      BY <1>1, <2>1, <2>2, TransferWithin DEF PaidOnlyBy
    <2>4. Within(ChallengeCompletionAccounts(signer, c))
      BY <1>2, <2>1, <2>3 DEF Within, ChallengeCompletionAccounts, ChangesOnly
    <2> QED
      BY <1>5, <2>4 DEF ReputationStepWithin
  <1>6. ASSUME NEW signer \in Keys, NEW c \in CompletionKeys, NEW upheld \in BOOLEAN,
               ResolveChallenge(signer, c, upheld)
        PROVE  ReputationStepWithin
    <2> DEFINE vault == ChallengeVault(c)
               to == IF upheld THEN challenges[c].challenger ELSE config.treasury
    <2>1. /\ UNCHANGED <<config, pendingAdmin>>
          /\ config # None /\ challenges[c] # None
          /\ SystemTransfer(vault, to, lamports[vault])
          /\ \A a \in Keys : a # c[1] => agents'[a] = agents[a]
          /\ \A d \in CompletionKeys :
                 d # c => completions'[d] = completions[d] /\ challenges'[d] = challenges[d]
      BY <1>1, <1>6
      DEF ResolveChallenge, IsAuthority, Pending, SweepTo, Settled, configVars
    <2>2. /\ vault \in Vaults /\ lamports[vault] \in Nat
          /\ to \in Keys /\ to \in {challenges[c].challenger, config.treasury}
      BY <1>1, <2>1, VaultAddresses DEF Config, Challenge
    <2>3. /\ \A a \in Accounts : lamports'[a] # lamports[a] => a \in {vault, to}
          /\ PaidOnlyBy(signer)
      BY <1>1, <2>1, <2>2, SweepWithin
    <2>4. ChangesOnly({CompletionAccount(c), AgentAccount(c[1]), ChallengeAccount(c),
                       vault, challenges[c].challenger, config.treasury, signer})
      BY <1>2, <2>1, <2>2, <2>3 DEF ChangesOnly
    <2>5. Within(ResolveChallengeAccounts(signer, c, challenges[c].challenger,
                                          config.treasury))
      BY <2>3, <2>4 DEF Within, ResolveChallengeAccounts
    <2> QED
      BY <1>6, <2>5 DEF ReputationStepWithin
  <1>7. ASSUME NEW signer \in Keys, NEW c \in CompletionKeys, CancelChallenge(signer, c)
        PROVE  ReputationStepWithin
    <2> DEFINE vault == ChallengeVault(c)
    <2>1. /\ UNCHANGED <<agents, completions, config, pendingAdmin>>
          /\ SystemTransfer(vault, signer, lamports[vault])
          /\ \A d \in CompletionKeys : d # c => challenges'[d] = challenges[d]
      BY <1>1, <1>7 DEF CancelChallenge, SweepTo, Settled, configVars
    <2>2. vault \in Vaults /\ lamports[vault] \in Nat
      BY <1>1, VaultAddresses
    <2>3. /\ \A a \in Accounts : lamports'[a] # lamports[a] => a \in {vault, signer}
          /\ PaidOnlyBy(signer)
      BY <1>1, <2>1, <2>2, SweepWithin
    <2>4. Within(CancelChallengeAccounts(signer, c))
      BY <1>2, <2>1, <2>3 DEF Within, CancelChallengeAccounts, ChangesOnly
    <2> QED
      BY <1>7, <2>4 DEF ReputationStepWithin
  <1> QED
    BY <1>3, <1>4, <1>5, <1>6, <1>7 DEF ReputationStep

LEMMA CapabilityStepsDeclared ==
    ASSUME Inv, CapabilityStep, UNCHANGED reputationVars
    PROVE  CapabilityStepWithin
  <1>1. /\ lamports \in [Accounts -> Nat]
        /\ capabilities \in [CapabilityKeys -> Capability \cup {None}]
        /\ index \in [CapabilityTypes -> SUBSET CapabilityKeys]
        /\ config \in Config \cup {None}
    BY DEF Inv, CapabilityInv, ConfigInv, RuntimeTypeOK, CapabilityTypeOK, ConfigTypeOK
  <1>2. UNCHANGED <<agents, completions, challenges>>
    BY DEF reputationVars
  <1>3. ASSUME NEW creator \in Keys, NEW k \in CapabilityKeys, NEW bond \in CapabilityBonds,
               RegisterCapability(creator, k, bond)
        PROVE  CapabilityStepWithin
    <2>1. /\ UNCHANGED pendingAdmin
          /\ SystemTransfer(creator, CapabilityVault(k), bond)
          /\ \A l \in CapabilityKeys : l # k => capabilities'[l] = capabilities[l]
          /\ \A t \in CapabilityTypes : t # TypeOf(k) => index'[t] = index[t]
      BY <1>1, <1>3 DEF RegisterCapability
    <2>2. creator \in Accounts /\ CapabilityVault(k) \in Accounts /\ bond \in Nat
      BY VaultAddresses, CapabilityAssumption
    <2>3. /\ \A a \in Accounts : lamports'[a] # lamports[a] => a \in {creator, CapabilityVault(k)}
          /\ PaidOnlyBy(creator)
      BY <1>1, <2>1, <2>2, TransferWithin DEF PaidOnlyBy
    <2>4. Within(RegisterCapabilityAccounts(creator, k))
      BY <1>2, <2>1, <2>3 DEF Within, RegisterCapabilityAccounts, ChangesOnly
    <2> QED
      BY <1>3, <2>4 DEF CapabilityStepWithin
  <1>4. ASSUME NEW signer \in Keys, NEW k \in CapabilityKeys, CertifyCapability(signer, k)
        PROVE  CapabilityStepWithin
    <2>1. /\ UNCHANGED <<config, pendingAdmin, index, lamports>>
          /\ \A l \in CapabilityKeys : l # k => capabilities'[l] = capabilities[l]
      BY <1>1, <1>4 DEF CertifyCapability, configVars, runtimeVars
    <2>2. Within(CertifyCapabilityAccounts(signer, k))
      BY <1>1, <1>2, <2>1, NobodyPays DEF Within, CertifyCapabilityAccounts, ChangesOnly
    <2> QED
      BY <1>4, <2>2 DEF CapabilityStepWithin
  <1>5. ASSUME NEW signer \in Keys, NEW k \in CapabilityKeys, NEW penalty \in Penalties,
               SlashCapability(signer, k, penalty)
        PROVE  CapabilityStepWithin
    <2> DEFINE vault == CapabilityVault(k)
               amount == SlashedAmount(k, capabilities[k].bond_remaining - penalty, penalty)
    <2>1. /\ UNCHANGED <<config, pendingAdmin, index>>
          /\ config # None
          /\ SystemTransfer(vault, config.treasury, amount)
          /\ \A l \in CapabilityKeys : l # k => capabilities'[l] = capabilities[l]
      BY <1>1, <1>5 DEF SlashCapability, IsAuthority, configVars
    <2>2. vault \in Vaults /\ lamports[vault] \in Nat /\ config.treasury \in Keys
      BY <1>1, <2>1, VaultAddresses DEF Config
    <2>3. amount \in Nat
      BY <2>2, CapabilityAssumption DEF SlashedAmount
    <2>4. /\ \A a \in Accounts : lamports'[a] # lamports[a] => a \in {vault, config.treasury}
          /\ PaidOnlyBy(signer)
      BY <1>1, <2>1, <2>2, <2>3, SweepWithin
    <2>5. Within(SlashCapabilityAccounts(signer, k, config.treasury))
      BY <1>2, <2>1, <2>4 DEF Within, SlashCapabilityAccounts, ChangesOnly
    <2> QED
      BY <1>5, <2>5 DEF CapabilityStepWithin
  <1>6. ASSUME NEW signer \in Keys, NEW k \in CapabilityKeys,
               WithdrawCapabilityBond(signer, k)
        PROVE  CapabilityStepWithin
    <2> DEFINE vault == CapabilityVault(k)
    <2>1. /\ UNCHANGED <<config, pendingAdmin>>
          /\ SystemTransfer(vault, signer, lamports[vault])
          /\ \A l \in CapabilityKeys : l # k => capabilities'[l] = capabilities[l]
          /\ \A t \in CapabilityTypes : t # TypeOf(k) => index'[t] = index[t]
      BY <1>1, <1>6 DEF WithdrawCapabilityBond, PrunedIndex, configVars
    <2>2. vault \in Vaults /\ lamports[vault] \in Nat
      BY <1>1, VaultAddresses
    <2>3. /\ \A a \in Accounts : lamports'[a] # lamports[a] => a \in {vault, signer}
          /\ PaidOnlyBy(signer)
      BY <1>1, <2>1, <2>2, SweepWithin
    <2>4. Within(WithdrawCapabilityBondAccounts(signer, k))
      BY <1>2, <2>1, <2>3 DEF Within, WithdrawCapabilityBondAccounts, ChangesOnly
    <2> QED
      BY <1>6, <2>4 DEF CapabilityStepWithin
  <1> QED
    BY <1>3, <1>4, <1>5, <1>6 DEF CapabilityStep

\* Every handler changes only what its transaction locks for writing, and only who
\* signed it pays.
THEOREM OnlyDeclaredAccounts == Spec => DeclaredAccountsOnly
  <1>1. ASSUME Inv, [Next]_vars
        PROVE  [DeclaredStep]_vars
    BY <1>1, ConfigStepsDeclared, ReputationStepsDeclared, CapabilityStepsDeclared
    DEF Next, DeclaredStep, OutsideStep
  <1>2. Spec => [][DeclaredStep]_vars
    BY <1>1, ProgramInvariant, PTL DEF Spec
  <1> QED
    BY <1>2 DEF DeclaredAccountsOnly

-----------------------------------------------------------------------------
(* What is recorded about agents. *)

\* No step rewrites what is recorded about agents, completions and verdicts.
THEOREM HistoryIsKept == Spec => HistoryKept
  <1>1. ASSUME Inv, [Next]_vars
        PROVE  [HistoryStep]_reputationVars
    BY <1>1, ReputationStepsKeepHistory DEF Inv, Next, vars, reputationVars
  <1>2. Spec => [][HistoryStep]_reputationVars
    BY <1>1, ProgramInvariant, PTL DEF Spec
  <1> QED
    BY <1>2 DEF HistoryKept

-----------------------------------------------------------------------------
(* The bonds of challenges. *)

\* A settlement empties the vault of its challenge into one wallet and leaves the
\* other vaults alone.
LEMMA SettlementPays ==
    ASSUME Inv, NEW c \in CompletionKeys, NEW upheld \in BOOLEAN, NEW to \in Keys,
           Pending(c),
           SweepTo(ChallengeVault(c), to),
           challenges' = Settled(c, upheld),
           IF upheld THEN to = challenges[c].challenger
           ELSE to = config.treasury \/ (TimedOut(c) /\ to = challenges[c].challenger)
    PROVE  BondLeavesStep
  <1> DEFINE vault == ChallengeVault(c)
  <1>1. /\ lamports \in [Accounts -> Nat]
        /\ challenges \in [CompletionKeys -> Challenge \cup {None}]
    BY DEF Inv, ReputationInv, ReputationTypeOK, ConfigInv, RuntimeTypeOK
  <1>2. vault \in Accounts /\ to \in Accounts /\ vault # to /\ lamports[vault] \in Nat
    BY <1>1, VaultAddresses
  <1>3. /\ lamports' \in [Accounts -> Nat]
        /\ \A a \in Accounts : a \notin {vault, to} => lamports'[a] = lamports[a]
        /\ lamports'[vault] = lamports[vault] - lamports[vault]
        /\ lamports'[to] = lamports[to] + lamports[vault]
    BY <1>1, <1>2, TransferEffect DEF SweepTo
  <1>4. \A d \in CompletionKeys :
            d # c => /\ ChallengeVault(d) \in Accounts /\ ChallengeVault(d) \notin {vault, to}
                     /\ lamports[ChallengeVault(d)] \in Nat
    BY <1>1, VaultAddresses
  <1>5. /\ challenges'[c] \in Challenge
        /\ challenges'[c].resolved /\ challenges'[c].upheld = upheld
    BY <1>1 DEF Settled, Pending, Challenge
  <1>6. ~Pending(c)' /\ (upheld <=> Upheld(c)')
    BY <1>5, ReputationAssumption DEF Pending, Upheld
  <1>7. lamports'[vault] = 0
    BY <1>2, <1>3
  <1> SUFFICES ASSUME NEW d \in CompletionKeys,
                      lamports'[ChallengeVault(d)] < lamports[ChallengeVault(d)]
               PROVE  d = c
    BY <1>3, <1>6, <1>7 DEF BondLeavesStep
  <1> QED
    BY <1>3, <1>4

LEMMA ReputationStepsPay ==
    ASSUME Inv, ReputationStep
    PROVE  BondLeavesStep
  <1>1. /\ lamports \in [Accounts -> Nat]
        /\ challenges \in [CompletionKeys -> Challenge \cup {None}]
        /\ config \in Config \cup {None}
    BY DEF Inv, ReputationInv, ReputationTypeOK, ConfigInv, RuntimeTypeOK, ConfigTypeOK
  <1>2. \A c \in CompletionKeys :
            ChallengeVault(c) \in Accounts /\ lamports[ChallengeVault(c)] \in Nat
    BY <1>1, VaultAddresses
  <1>3. ASSUME UNCHANGED lamports
        PROVE  BondLeavesStep
    BY <1>2, <1>3 DEF BondLeavesStep
  <1>4. ASSUME NEW signer \in Keys, NEW c \in CompletionKeys, ChallengeCompletion(signer, c)
        PROVE  BondLeavesStep
    <2>1. /\ SystemTransfer(signer, ChallengeVault(c), config.challenge_bond_lamports)
          /\ config # None
      BY <1>4 DEF ChallengeCompletion
    <2>2. /\ signer \in Accounts /\ ChallengeVault(c) \in Accounts
          /\ signer # ChallengeVault(c)
          /\ config.challenge_bond_lamports \in Nat
      BY <1>1, <2>1, VaultAddresses DEF Config
    <2>3. /\ \A a \in Accounts : a \notin {signer, ChallengeVault(c)} => lamports'[a] = lamports[a]
          /\ lamports' \in [Accounts -> Nat]
          /\ lamports'[ChallengeVault(c)] >= lamports[ChallengeVault(c)]
      BY <1>1, <2>1, <2>2, TransferEffect
    <2>4. ASSUME NEW d \in CompletionKeys
          PROVE  ~(lamports'[ChallengeVault(d)] < lamports[ChallengeVault(d)])
      <3>1. /\ ChallengeVault(d) \in Accounts /\ ChallengeVault(d) # signer
            /\ lamports[ChallengeVault(d)] \in Nat
            /\ lamports'[ChallengeVault(d)] \in Nat
        BY <1>2, <2>3, VaultAddresses
      <3> QED
        BY <2>3, <3>1
    <2> QED
      BY <2>4 DEF BondLeavesStep
  <1>5. ASSUME NEW signer \in Keys, NEW c \in CompletionKeys, NEW upheld \in BOOLEAN,
               ResolveChallenge(signer, c, upheld)
        PROVE  BondLeavesStep
    <2> DEFINE to == IF upheld THEN challenges[c].challenger ELSE config.treasury
    <2>1. /\ Pending(c) /\ config # None
          /\ SweepTo(ChallengeVault(c), to)
          /\ challenges' = Settled(c, upheld)
      BY <1>5 DEF ResolveChallenge, IsAuthority
    <2>2. to \in Keys
      BY <1>1, <2>1 DEF Pending, Challenge, Config
    <2> QED
      BY <2>1, <2>2, SettlementPays
  <1>6. ASSUME NEW signer \in Keys, NEW c \in CompletionKeys, CancelChallenge(signer, c)
        PROVE  BondLeavesStep
    <2>1. /\ Pending(c) /\ signer = challenges[c].challenger /\ TimedOut(c)
          /\ SweepTo(ChallengeVault(c), signer)
          /\ challenges' = Settled(c, FALSE)
      BY <1>6 DEF CancelChallenge
    <2> QED
      BY <2>1, SettlementPays
  <1>7. ASSUME NEW authority \in Keys,
               \/ \E profile \in Profiles : RegisterAgent(authority, profile)
               \/ \E seq \in Seqs : AttestCompletion(authority, seq)
        PROVE  BondLeavesStep
    BY <1>3, <1>7 DEF RegisterAgent, AttestCompletion, runtimeVars
  <1> QED
    BY <1>4, <1>5, <1>6, <1>7 DEF ReputationStep

\* A challenge's bond leaves its vault by the settlement only, whole, to the party that
\* the verdict names, and after the timeout to the challenger who cancels.
THEOREM BondsLeaveBySettlement == Spec => BondLeavesBySettlement
  <1>1. ASSUME Inv, [Next]_vars
        PROVE  [BondLeavesStep]_<<lamports, reputationVars>>
    <2>1. ConfigInv /\ RuntimeTypeOK /\ CapabilityInv
      BY <1>1 DEF Inv, ReputationInv, ConfigInv
    <2>2. ASSUME \A c \in CompletionKeys :
                     lamports'[ChallengeVault(c)] >= lamports[ChallengeVault(c)],
                 lamports' \in [Accounts -> Nat]
          PROVE  BondLeavesStep
      <3>1. \A c \in CompletionKeys : /\ lamports[ChallengeVault(c)] \in Nat
                                      /\ lamports'[ChallengeVault(c)] \in Nat
        BY <2>1, <2>2, VaultAddresses DEF RuntimeTypeOK
      <3> QED
        BY <2>2, <3>1 DEF BondLeavesStep
    <2>3. lamports' \in [Accounts -> Nat]
      BY <1>1, NextKeepsInv DEF Inv, ReputationInv, ConfigInv, RuntimeTypeOK
    <2>4. CASE RuntimeStep
      BY <2>1, <2>2, <2>3, <2>4, StepsOfRuntime, VaultAddresses
    <2>5. CASE ConfigStep
      <3>1. \A v \in Vaults : lamports'[v] = lamports[v]
        BY <2>1, <2>5, StepsOfConfig DEF ConfigStepKeeps, VaultsKept
      <3>2. \A c \in CompletionKeys : lamports[ChallengeVault(c)] \in Nat
        BY <2>1, VaultAddresses DEF RuntimeTypeOK
      <3> QED
        BY <2>2, <2>3, <3>1, <3>2, VaultAddresses
    <2>6. CASE CapabilityStep
      BY <2>1, <2>2, <2>3, <2>6, CapabilitySparesReputation, VaultAddresses
    <2> QED
      BY <1>1, <2>4, <2>5, <2>6, ReputationStepsPay DEF Next, vars, runtimeVars
  <1>2. Spec => [][BondLeavesStep]_<<lamports, reputationVars>>
    BY <1>1, ProgramInvariant, PTL DEF Spec
  <1> QED
    BY <1>2 DEF BondLeavesBySettlement

-----------------------------------------------------------------------------
(* The life of a capability record. *)

\* A record's bond shrinks by slashes that the treasury receives and otherwise goes
\* back to the creator whole.
THEOREM CapabilitiesLive == Spec => CapabilityLifecycle
  <1>1. ASSUME Inv, [Next]_vars
        PROVE  [LifecycleStep]_<<lamports, capabilityVars>>
    <2>1. CASE UNCHANGED capabilityVars
      BY <1>1, <2>1, UntouchedRecord DEF Inv, LifecycleStep, capabilityVars
    <2> QED
      BY <1>1, <2>1, CapabilityStepsLive DEF Inv, Next, vars
  <1>2. Spec => [][LifecycleStep]_<<lamports, capabilityVars>>
    BY <1>1, ProgramInvariant, PTL DEF Spec
  <1> QED
    BY <1>2 DEF CapabilityLifecycle

-----------------------------------------------------------------------------
(* Taking a bond back. *)

\* What cancel_challenge asks for, of the challenger's transaction.
CanTakeBack(c) ==
    LET vault == ChallengeVault(c)
    IN  /\ Pending(c)
        /\ TimedOut(c)
        /\ CanPay(lamports, vault, challenges[c].challenger, lamports[vault])

TakeBackStep ==
    \A c \in CompletionKeys :
        Pending(c) /\ TimedOut(c) =>
            /\ CanTakeBack(c)
            /\ ~Pending(c)' \/ (CanTakeBack(c)' /\ challenges'[c] = challenges[c])

\* A pending challenge is left as it is by every step that does not settle it.
LEMMA PendingUntouched ==
    ASSUME Inv, [Next]_vars, NEW c \in CompletionKeys, Pending(c), Pending(c)'
    PROVE  challenges'[c] = challenges[c] /\ clock' >= clock
  <1>1. /\ challenges \in [CompletionKeys -> Challenge \cup {None}]
        /\ clock \in Int
    BY RuntimeAssumption DEF Inv, ReputationInv, ReputationTypeOK, ConfigInv, RuntimeTypeOK
  <1>2. ~challenges'[c].resolved
    BY DEF Pending
  <1>3. CASE UNCHANGED <<challenges, clock>>
    BY <1>1, <1>3
  <1>4. CASE UNCHANGED challenges /\ clock' = clock + 1
    BY <1>1, <1>4
  <1>5. ASSUME NEW challenger \in Keys, NEW d \in CompletionKeys,
               ChallengeCompletion(challenger, d)
        PROVE  challenges'[c] = challenges[c] /\ clock' = clock
    <2>1. c # d
      BY <1>5 DEF ChallengeCompletion, Challengeable, Pending
    <2> QED
      BY <1>1, <1>5, <2>1 DEF ChallengeCompletion
  <1>6. ASSUME NEW d \in CompletionKeys, NEW upheld \in BOOLEAN, Pending(d),
               challenges' = Settled(d, upheld)
        PROVE  challenges'[c] = challenges[c]
    <2>1. challenges[d] \in Challenge
      BY <1>1, <1>6 DEF Pending
    <2>2. challenges'[d].resolved = TRUE
      BY <1>1, <1>6, <2>1 DEF Settled, Challenge
    <2>3. c # d
      BY <1>2, <2>2
    <2> QED
      BY <1>1, <1>6, <2>3 DEF Settled
  <1>7. CASE RuntimeStep /\ UNCHANGED <<configVars, reputationVars, capabilityVars>>
    <2>1. UNCHANGED challenges
      BY <1>7 DEF reputationVars
    <2>2. UNCHANGED clock \/ clock' = clock + 1
      BY <1>7 DEF RuntimeStep, WalletTransfer, Tick
    <2> QED
      BY <1>3, <1>4, <2>1, <2>2
  <1>8. CASE ConfigStep /\ UNCHANGED <<reputationVars, capabilityVars>>
    <2>1. UNCHANGED <<challenges, clock>>
      BY <1>8, StepsOfConfig DEF Inv, ReputationInv, reputationVars, ConfigStepKeeps
    <2> QED
      BY <1>3, <2>1
  <1>9. CASE ReputationStep /\ UNCHANGED capabilityVars
    <2>1. ASSUME NEW authority \in Keys, NEW profile \in Profiles,
                 RegisterAgent(authority, profile)
          PROVE  UNCHANGED <<challenges, clock>>
      BY <2>1 DEF RegisterAgent, runtimeVars
    <2>2. ASSUME NEW authority \in Keys, NEW seq \in Seqs, AttestCompletion(authority, seq)
          PROVE  UNCHANGED <<challenges, clock>>
      BY <2>2 DEF AttestCompletion, runtimeVars
    <2>3. ASSUME NEW signer \in Keys, NEW d \in CompletionKeys, NEW upheld \in BOOLEAN,
                 ResolveChallenge(signer, d, upheld)
          PROVE  challenges'[c] = challenges[c] /\ clock' = clock
      BY <1>6, <2>3 DEF ResolveChallenge
    <2>4. ASSUME NEW signer \in Keys, NEW d \in CompletionKeys, CancelChallenge(signer, d)
          PROVE  challenges'[c] = challenges[c] /\ clock' = clock
      BY <1>6, <2>4 DEF CancelChallenge
    <2> QED
      BY <1>1, <1>3, <1>5, <1>9, <2>1, <2>2, <2>3, <2>4 DEF ReputationStep
  <1>10. CASE CapabilityStep /\ UNCHANGED reputationVars
    <2>1. UNCHANGED <<challenges, clock>>
      BY <1>10, CapabilitySparesReputation DEF Inv, reputationVars
    <2> QED
      BY <1>3, <2>1
  <1>11. CASE UNCHANGED vars
    BY <1>3, <1>11 DEF vars, runtimeVars, reputationVars
  <1> QED
    BY <1>7, <1>8, <1>9, <1>10, <1>11 DEF Next

LEMMA TakeBackStays ==
    ASSUME Inv, PendingBondPayable, PendingBondPayable', [Next]_vars
    PROVE  TakeBackStep
  <1> SUFFICES ASSUME NEW c \in CompletionKeys, Pending(c), TimedOut(c)
               PROVE  /\ CanTakeBack(c)
                      /\ ~Pending(c)' \/ (CanTakeBack(c)' /\ challenges'[c] = challenges[c])
    BY DEF TakeBackStep
  <1>1. CanTakeBack(c)
    BY DEF PendingBondPayable, CanTakeBack
  <1>2. ASSUME Pending(c)'
        PROVE  CanTakeBack(c)' /\ challenges'[c] = challenges[c]
    <2>1. challenges'[c] = challenges[c] /\ clock' >= clock
      BY <1>2, PendingUntouched
    <2>2. TimedOut(c)'
      <3>1. clock \in Int /\ clock' \in Int /\ challenges[c].timestamp \in Int
        BY NextKeepsInv, RuntimeAssumption
        DEF Pending, Inv, ReputationInv, ReputationTypeOK, ConfigInv, RuntimeTypeOK, Challenge
      <3> QED
        BY <2>1, <3>1, ReputationAssumption DEF TimedOut
    <2> QED
      BY <1>2, <2>1, <2>2 DEF PendingBondPayable, CanTakeBack
  <1> QED
    BY <1>1, <1>2

\* A challenger whose challenge has timed out can take the bond back, and still can
\* after any step of anybody, until the challenge is settled.
THEOREM BondsStayTakeable == Spec => [][TakeBackStep]_vars
  <1>1. ASSUME Inv, PendingBondPayable, PendingBondPayable', [Next]_vars
        PROVE  [TakeBackStep]_vars
    BY <1>1, TakeBackStays
  <1> QED
    BY <1>1, ProgramInvariant, PendingBondsPayable, PTL DEF Spec
=============================================================================
