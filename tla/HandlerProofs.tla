--------------------------- MODULE HandlerProofs ----------------------------
(***************************************************************************)
(* What the program's handlers keep, one component after the other: the    *)
(* configuration and the balances, which everything else rests on, then     *)
(* reputation, then the capability registry.                               *)
(***************************************************************************)
EXTENDS Reputation, CapabilityRegistry, TLAPS, FiniteSetTheorems

(***************************************************************************)
(* What a System transfer does to balances, and what the configuration's   *)
(* handlers preserve.                                                      *)
(***************************************************************************)

\* Vaults are accounts, and no two kinds of account share an address.
LEMMA VaultAddresses ==
    /\ \A c \in CompletionKeys :
           /\ ChallengeVault(c) \in Accounts
           /\ ChallengeVault(c) \in Vaults
           /\ ChallengeVault(c) \in ChallengeVaults
           /\ ChallengeVault(c) \notin CapabilityVaults
           /\ ChallengeVault(c) \notin Keys
           /\ ChallengeVault(c)[2] = c
    /\ \A k \in CapabilityKeys :
           /\ CapabilityVault(k) \in Accounts
           /\ CapabilityVault(k) \in Vaults
           /\ CapabilityVault(k) \in CapabilityVaults
           /\ CapabilityVault(k) \notin ChallengeVaults
           /\ CapabilityVault(k) \notin Keys
           /\ CapabilityVault(k)[2] = k
    /\ \A c, d \in CompletionKeys : ChallengeVault(c) = ChallengeVault(d) => c = d
    /\ \A k, l \in CapabilityKeys : CapabilityVault(k) = CapabilityVault(l) => k = l
    /\ \A c \in CompletionKeys, k \in CapabilityKeys :
           ChallengeVault(c) # CapabilityVault(k)
    /\ Keys \subseteq Accounts
  <1>1. \A c \in CompletionKeys : /\ ChallengeVault(c) \in ChallengeVaults
                                  /\ ChallengeVault(c)[2] = c
    BY DEF ChallengeVaults, ChallengeVault
  <1>2. \A k \in CapabilityKeys : /\ CapabilityVault(k) \in CapabilityVaults
                                  /\ CapabilityVault(k)[2] = k
    BY DEF CapabilityVaults, CapabilityVault
  <1>3. \A c \in CompletionKeys, k \in CapabilityKeys :
            ChallengeVault(c) # CapabilityVault(k)
    BY DEF ChallengeVault, CapabilityVault
  <1>4. \A c \in CompletionKeys : ChallengeVault(c) \notin CapabilityVaults
    BY <1>3 DEF CapabilityVaults
  <1>5. \A k \in CapabilityKeys : CapabilityVault(k) \notin ChallengeVaults
    BY <1>3 DEF ChallengeVaults
  <1>6. \A v \in Vaults : v \in Accounts /\ v \notin Keys
    BY RuntimeAssumption DEF Accounts
  <1>7. Keys \subseteq Accounts
    BY DEF Accounts
  <1> QED
    BY <1>1, <1>2, <1>3, <1>4, <1>5, <1>6, <1>7 DEF Vaults

\* A transfer between two accounts moves the amount, changes no other balance and
\* leaves both ends empty or rent-exempt.
LEMMA TransferEffect ==
    ASSUME NEW from \in Accounts, NEW to \in Accounts, NEW amount \in Nat,
           lamports \in [Accounts -> Nat],
           SystemTransfer(from, to, amount)
    PROVE  /\ lamports' \in [Accounts -> Nat]
           /\ \A a \in Accounts : a \notin {from, to} => lamports'[a] = lamports[a]
           /\ from # to => /\ lamports'[from] = lamports[from] - amount
                           /\ lamports'[to] = lamports[to] + amount
           /\ from = to => lamports'[from] = lamports[from]
           /\ lamports[from] >= amount
           /\ lamports'[to] >= lamports[to]
           /\ RentState(lamports'[from])
           /\ RentState(lamports'[to])
  <1>1. lamports' = Moved(lamports, from, to, amount)
    BY DEF SystemTransfer
  <1>2. lamports[from] >= amount
    BY DEF SystemTransfer, CanPay
  <1>3. /\ RentState(lamports'[from])
        /\ RentState(lamports'[to])
    BY <1>1 DEF SystemTransfer, CanPay
  <1>4. lamports[from] - amount \in Nat
    BY <1>2
  <1>5. CASE from = to
    BY <1>1, <1>2, <1>3, <1>4, <1>5 DEF Moved
  <1>6. CASE from # to
    BY <1>1, <1>2, <1>3, <1>4, <1>6 DEF Moved
  <1> QED
    BY <1>5, <1>6

\* Only what leaves an account can lower its balance.
LEMMA StepsOfRuntime ==
    ASSUME RuntimeTypeOK, RuntimeStep
    PROVE  /\ RuntimeTypeOK'
           /\ \A v \in Vaults : lamports'[v] >= lamports[v]
           /\ clock' >= clock
  <1>1. ASSUME NEW from \in Keys, NEW to \in GiftTargets, NEW amount \in Gifts,
               WalletTransfer(from, to, amount)
        PROVE  /\ RuntimeTypeOK'
               /\ \A v \in Vaults : lamports'[v] >= lamports[v]
               /\ clock' >= clock
    <2>1. /\ from \in Accounts /\ to \in Accounts /\ amount \in Nat
          /\ \A v \in Vaults : v \in Accounts /\ v # from
      BY RuntimeAssumption DEF Accounts
    <2>2. SystemTransfer(from, to, amount) /\ UNCHANGED clock
      BY <1>1 DEF WalletTransfer
    <2>3. /\ lamports' \in [Accounts -> Nat]
          /\ \A a \in Accounts : a \notin {from, to} => lamports'[a] = lamports[a]
          /\ lamports'[to] >= lamports[to]
      BY <2>1, <2>2, TransferEffect DEF RuntimeTypeOK
    <2>4. clock \in Int
      BY RuntimeAssumption DEF RuntimeTypeOK
    <2> QED
      BY <2>1, <2>2, <2>3, <2>4 DEF RuntimeTypeOK
  <1>2. ASSUME Tick
        PROVE  /\ RuntimeTypeOK'
               /\ \A v \in Vaults : lamports'[v] >= lamports[v]
               /\ clock' >= clock
    BY <1>2, RuntimeAssumption DEF Tick, RuntimeTypeOK, Accounts
  <1> QED
    BY <1>1, <1>2 DEF RuntimeStep

-----------------------------------------------------------------------------
\* A configuration handler keeps the types and leaves the vaults, the clock and the
\* id counters alone, so the other components' invariants survive it.
ConfigInv == RuntimeTypeOK /\ ConfigTypeOK /\ ConfigInRange

\* The id counters of an existing Config account and its treasury stay put.
CountersKept ==
    /\ config # None =>
           /\ config' # None
           /\ config'.next_completion_id = config.next_completion_id
           /\ config'.next_capability_id = config.next_capability_id
           /\ config'.treasury = config.treasury
    /\ config = None /\ config' # None =>
           /\ config'.next_completion_id = 1
           /\ config'.next_capability_id = 1

VaultsKept == \A v \in Vaults : lamports'[v] = lamports[v]

ConfigStepKeeps ==
    /\ ConfigInv'
    /\ CountersKept
    /\ VaultsKept
    /\ clock' = clock

LEMMA InitializeConfigKeeps ==
    ASSUME ConfigInv,
           NEW signer \in Keys, NEW certifier \in CertifierChoices,
           NEW treasury \in TreasuryChoices, NEW bond \in BondChoices,
           NEW decay \in DecayChoices,
           InitializeConfig(signer, certifier, treasury, bond, decay)
    PROVE  ConfigStepKeeps
  <1>1. /\ certifier \in Keys /\ treasury \in Keys
        /\ bond \in Nat /\ decay \in Nat
        /\ Rent \in Nat /\ 1 \in 1 .. MaxU64
    BY ConfigAssumption, RuntimeAssumption DEF InitializeConfig
  <1>2. signer \in Accounts /\ treasury \in Accounts
    BY <1>1, VaultAddresses
  <1>3. /\ lamports' \in [Accounts -> Nat]
        /\ \A a \in Accounts : a \notin {signer, treasury} => lamports'[a] = lamports[a]
    BY <1>1, <1>2, TransferEffect DEF InitializeConfig, ConfigInv, RuntimeTypeOK
  <1>4. VaultsKept
    BY <1>1, <1>3, RuntimeAssumption DEF VaultsKept, Accounts
  <1>5. config' \in Config
    BY <1>1 DEF InitializeConfig, Config
  <1>6. ConfigTypeOK' /\ ConfigInRange'
    <2>1. bond >= Rent /\ decay \in 1 .. MaxDecay
      BY <1>1, ConfigAssumption DEF InitializeConfig, ValidBond, ValidDecay
    <2>2. /\ config'.challenge_bond_lamports = bond
          /\ config'.decay_period_secs = decay
          /\ UNCHANGED <<pendingAdmin, upgradeAuthority>>
      BY DEF InitializeConfig
    <2> QED
      BY <1>5, <2>1, <2>2 DEF ConfigInv, ConfigTypeOK, ConfigInRange
  <1>7. CountersKept
    BY DEF InitializeConfig, CountersKept
  <1> QED
    BY <1>3, <1>4, <1>6, <1>7
    DEF ConfigStepKeeps, ConfigInv, RuntimeTypeOK, InitializeConfig

LEMMA UpdateConfigKeeps ==
    ASSUME ConfigInv,
           NEW signer \in Keys, NEW bond \in BondChoices \cup {None},
           NEW decay \in DecayChoices \cup {None}, NEW paused \in PauseChoices \cup {None},
           UpdateConfig(signer, bond, decay, paused)
    PROVE  ConfigStepKeeps
  <1>1. config \in Config /\ config # None
    BY DEF UpdateConfig, ConfigInv, ConfigTypeOK
  <1>2. /\ OrElse(bond, config.challenge_bond_lamports) \in Nat
        /\ OrElse(bond, config.challenge_bond_lamports) >= Rent
    BY <1>1, ConfigAssumption
    DEF UpdateConfig, ConfigInv, ConfigInRange, ValidBond, OrElse, Config
  <1>3. /\ OrElse(decay, config.decay_period_secs) \in Nat
        /\ OrElse(decay, config.decay_period_secs) \in 1 .. MaxDecay
    BY <1>1, ConfigAssumption
    DEF UpdateConfig, ConfigInv, ConfigInRange, ValidDecay, OrElse, Config
  <1>4. OrElse(paused, config.paused) \in BOOLEAN
    BY <1>1, ConfigAssumption DEF OrElse, Config
  <1>5. config' = [config EXCEPT
            !.challenge_bond_lamports = OrElse(bond, config.challenge_bond_lamports),
            !.decay_period_secs = OrElse(decay, config.decay_period_secs),
            !.paused = OrElse(paused, config.paused)]
    BY <1>1 DEF UpdateConfig, Config
  <1>6. config' \in Config
    BY <1>1, <1>2, <1>3, <1>4, <1>5 DEF Config
  <1>7. config' # None
    BY <1>6, ConfigAccountAssumption
  <1>8. ConfigInRange' /\ CountersKept
    BY <1>1, <1>2, <1>3, <1>5, <1>7 DEF ConfigInRange, CountersKept, Config
  <1> QED
    BY <1>6, <1>8 DEF ConfigStepKeeps, ConfigInv, ConfigTypeOK, RuntimeTypeOK,
                      VaultsKept, UpdateConfig, runtimeVars

LEMMA OtherConfigStepsKeep ==
    ASSUME ConfigInv,
           \/ \E authority \in (AdminChoices \ {ZeroKey}) \cup {None} :
                  SetUpgradeAuthority(authority)
           \/ \E signer \in Keys, certifier \in CertifierChoices :
                  SetCertifier(signer, certifier)
           \/ \E signer \in Keys, newAdmin \in AdminChoices :
                  TransferAdmin(signer, newAdmin)
           \/ \E signer \in Keys : AcceptAdmin(signer)
    PROVE  ConfigStepKeeps
  <1>1. ASSUME NEW authority \in (AdminChoices \ {ZeroKey}) \cup {None},
               SetUpgradeAuthority(authority)
        PROVE  ConfigStepKeeps
    BY <1>1, ConfigAssumption
    DEF SetUpgradeAuthority, ConfigStepKeeps, ConfigInv, ConfigTypeOK, ConfigInRange,
        RuntimeTypeOK, CountersKept, VaultsKept, runtimeVars
  <1>2. ASSUME NEW signer \in Keys, NEW certifier \in CertifierChoices,
               SetCertifier(signer, certifier)
        PROVE  ConfigStepKeeps
    <2>1. config \in Config /\ certifier \in Keys
      BY <1>2, ConfigAssumption DEF SetCertifier, ConfigInv, ConfigTypeOK
    <2>2. config' \in Config /\ config' # None
      BY <1>2, <2>1, ConfigAccountAssumption DEF SetCertifier, Config
    <2> QED
      BY <1>2, <2>1, <2>2
      DEF SetCertifier, ConfigStepKeeps, ConfigInv, ConfigTypeOK, ConfigInRange, Config,
          RuntimeTypeOK, CountersKept, VaultsKept, runtimeVars
  <1>3. ASSUME NEW signer \in Keys, NEW newAdmin \in AdminChoices,
               TransferAdmin(signer, newAdmin)
        PROVE  ConfigStepKeeps
    BY <1>3, ConfigAssumption
    DEF TransferAdmin, ConfigStepKeeps, ConfigInv, ConfigTypeOK, ConfigInRange,
        RuntimeTypeOK, CountersKept, VaultsKept, runtimeVars
  <1>4. ASSUME NEW signer \in Keys, AcceptAdmin(signer)
        PROVE  ConfigStepKeeps
    <2>1. config \in Config
      BY <1>4 DEF AcceptAdmin, ConfigInv, ConfigTypeOK
    <2>2. config' \in Config /\ config' # None
      BY <1>4, <2>1, ConfigAccountAssumption DEF AcceptAdmin, Config
    <2> QED
      BY <1>4, <2>1, <2>2
      DEF AcceptAdmin, ConfigStepKeeps, ConfigInv, ConfigTypeOK, ConfigInRange, Config,
          RuntimeTypeOK, CountersKept, VaultsKept, runtimeVars
  <1> QED
    BY <1>1, <1>2, <1>3, <1>4

LEMMA StepsOfConfig ==
    ASSUME ConfigInv, ConfigStep
    PROVE  ConfigStepKeeps
  BY InitializeConfigKeeps, UpdateConfigKeeps, OtherConfigStepsKeep DEF ConfigStep

\* The admin role moves only by the handover, and no other field that is set once
\* ever changes.
LEMMA ConfigStepsHandOver ==
    ASSUME ConfigInv, ConfigStep
    PROVE  HandoverStep
  <1>1. config # None => config \in Config
    BY DEF ConfigInv, ConfigTypeOK
  <1>2. CountersKept
    BY <1>1, StepsOfConfig DEF ConfigStepKeeps
  <1>3. config # None =>
            /\ config' # None
            /\ config'.treasury = config.treasury
            /\ config'.next_completion_id >= config.next_completion_id
            /\ config'.next_capability_id >= config.next_capability_id
    BY <1>1, <1>2 DEF CountersKept, Config
  <1>4. ASSUME NEW signer \in Keys, NEW certifier \in CertifierChoices,
               NEW treasury \in TreasuryChoices, NEW bond \in BondChoices,
               NEW decay \in DecayChoices,
               InitializeConfig(signer, certifier, treasury, bond, decay)
        PROVE  /\ config = None /\ pendingAdmin' = pendingAdmin
               /\ config'.admin = upgradeAuthority
    BY <1>4 DEF InitializeConfig
  <1>5. ASSUME NEW signer \in Keys, AcceptAdmin(signer)
        PROVE  /\ config # None /\ config'.admin = pendingAdmin
               /\ pendingAdmin' = None
    BY <1>1, <1>5 DEF AcceptAdmin, Config
  <1>6. ASSUME config # None, config' # config,
               \/ \E signer \in Keys, bond \in BondChoices \cup {None},
                     decay \in DecayChoices \cup {None}, paused \in PauseChoices \cup {None} :
                      UpdateConfig(signer, bond, decay, paused)
               \/ \E signer \in Keys, certifier \in CertifierChoices :
                      SetCertifier(signer, certifier)
        PROVE  config'.admin = config.admin /\ pendingAdmin' = pendingAdmin
    BY <1>1, <1>6 DEF UpdateConfig, SetCertifier, Config
  <1>7. ASSUME config' = config,
               \/ \E authority \in (AdminChoices \ {ZeroKey}) \cup {None} :
                      SetUpgradeAuthority(authority)
               \/ \E signer \in Keys, newAdmin \in AdminChoices :
                      TransferAdmin(signer, newAdmin)
        PROVE  config = None => pendingAdmin' = pendingAdmin
    BY <1>7 DEF SetUpgradeAuthority, TransferAdmin
  <1>8. \/ config' = config /\ (config = None => pendingAdmin' = pendingAdmin)
        \/ /\ config # None /\ config'.admin = config.admin
           /\ pendingAdmin' = pendingAdmin
        \/ /\ config = None /\ pendingAdmin' = pendingAdmin
           /\ config'.admin = upgradeAuthority
        \/ config # None /\ config'.admin = pendingAdmin /\ pendingAdmin' = None
    BY <1>4, <1>5, <1>6, <1>7
    DEF ConfigStep, UpdateConfig, SetCertifier, SetUpgradeAuthority, TransferAdmin
  <1> QED
    BY <1>3, <1>8 DEF HandoverStep

-----------------------------------------------------------------------------
(***************************************************************************)
(* The inductive invariant of the reputation handlers.  The invariants the *)
(* runs check are not inductive: that a pending bond can be paid out needs *)
(* the vault's balance and the bond's size, that disputes are counted      *)
(* right needs the numbering of completions, that ids order times needs    *)
(* that no recorded time is in the future.                                 *)
(***************************************************************************)

\* A recorded bond could fund its vault by itself and is still in it.
BondsBacked ==
    \A c \in CompletionKeys :
        challenges[c] # None /\ ~challenges[c].resolved =>
            /\ config # None
            /\ challenges[c].bond_lamports >= Rent
            /\ lamports[ChallengeVault(c)] >= challenges[c].bond_lamports

TimesPast ==
    /\ \A a \in Keys : agents[a] # None => agents[a].last_activity <= clock
    /\ \A c \in CompletionKeys : completions[c] # None => completions[c].timestamp <= clock

ReputationInv ==
    /\ ConfigInv
    /\ ReputationTypeOK
    /\ CompletionLogDense
    /\ DisputesMatchVerdicts
    /\ CompletionIdsOrdered
    /\ BondsBacked
    /\ TimesPast

LEMMA PairsOfKeys ==
    /\ \A c \in CompletionKeys : c[1] \in Keys /\ c[2] \in Seqs /\ c = <<c[1], c[2]>>
    /\ \A a \in Keys, s \in Seqs : <<a, s>> \in CompletionKeys
  BY DEF CompletionKeys

LEMMA DisputedSeqsFinite ==
    ASSUME NEW a \in Keys
    PROVE  IsFiniteSet(DisputedSeqs(a))
  <1>1. IsFiniteSet(Seqs)
    BY RuntimeAssumption, FS_Interval DEF Seqs
  <1>2. DisputedSeqs(a) \subseteq Seqs
    BY DEF DisputedSeqs
  <1> QED
    BY <1>1, <1>2, FS_Subset

-----------------------------------------------------------------------------
\* A step of another component that keeps the configuration's invariant, does not
\* take the id counter back and takes nothing from a challenge vault keeps the
\* invariant of this one.
LEMMA ReputationFrame ==
    ASSUME ReputationInv, ConfigInv', UNCHANGED reputationVars,
           config # None => /\ config' # None
                            /\ config'.next_completion_id >= config.next_completion_id,
           clock' >= clock,
           \A v \in ChallengeVaults : lamports'[v] >= lamports[v]
    PROVE  ReputationInv'
  <1>1. /\ agents' = agents
        /\ completions' = completions
        /\ challenges' = challenges
    BY DEF reputationVars
  <1>2. ReputationTypeOK' /\ CompletionLogDense' /\ DisputesMatchVerdicts'
    BY <1>1 DEF ReputationInv, ReputationTypeOK, CompletionLogDense,
                DisputesMatchVerdicts, DisputedSeqs, Upheld
  <1>3. CompletionIdsOrdered'
    <2>1. config # None => config \in Config /\ config' \in Config /\ config' # None
      BY DEF ReputationInv, ConfigInv, ConfigTypeOK
    <2>2. \A c \in CompletionKeys : completions[c] # None => completions[c] \in Completion
      BY DEF ReputationInv, ReputationTypeOK
    <2>3. \A c \in CompletionKeys :
              completions[c] # None =>
                  config # None /\ completions[c].id < config.next_completion_id
      BY DEF ReputationInv, CompletionIdsOrdered
    <2>4. \A c \in CompletionKeys :
              completions[c] # None =>
                  config' # None /\ completions[c].id < config'.next_completion_id
      BY <2>1, <2>2, <2>3 DEF Config, Completion
    <2> QED
      BY <1>1, <2>4 DEF ReputationInv, CompletionIdsOrdered
  <1>4. BondsBacked'
    <2> SUFFICES ASSUME NEW c \in CompletionKeys,
                        challenges[c] # None, ~challenges[c].resolved
                 PROVE  /\ config' # None
                        /\ challenges[c].bond_lamports >= Rent
                        /\ lamports'[ChallengeVault(c)] >= challenges[c].bond_lamports
      BY <1>1 DEF BondsBacked
    <2>1. /\ config # None
          /\ challenges[c].bond_lamports >= Rent
          /\ lamports[ChallengeVault(c)] >= challenges[c].bond_lamports
      BY DEF ReputationInv, BondsBacked
    <2>2. /\ ChallengeVault(c) \in ChallengeVaults /\ ChallengeVault(c) \in Accounts
          /\ challenges[c] \in Challenge
      BY VaultAddresses DEF ReputationInv, ReputationTypeOK
    <2>3. lamports'[ChallengeVault(c)] >= lamports[ChallengeVault(c)]
      BY <2>2
    <2>4. /\ lamports[ChallengeVault(c)] \in Nat
          /\ lamports'[ChallengeVault(c)] \in Nat
          /\ challenges[c].bond_lamports \in Nat
      BY <2>2 DEF ReputationInv, ConfigInv, RuntimeTypeOK, Challenge
    <2> QED
      BY <2>1, <2>3, <2>4
  <1>5. TimesPast'
    <2>1. clock \in Int /\ clock' \in Int
      BY RuntimeAssumption DEF ReputationInv, ConfigInv, RuntimeTypeOK
    <2>2. /\ \A a \in Keys : agents[a] # None => agents[a].last_activity \in Nat
          /\ \A c \in CompletionKeys : completions[c] # None => completions[c].timestamp \in Nat
      BY DEF ReputationInv, ReputationTypeOK, Agent, Completion
    <2> QED
      BY <1>1, <2>1, <2>2 DEF ReputationInv, TimesPast
  <1> QED
    BY <1>2, <1>3, <1>4, <1>5 DEF ReputationInv

-----------------------------------------------------------------------------
\* Marking completions leaves their numbering and their times alone.
LEMMA IdsSurviveMarks ==
    ASSUME ReputationInv, config' = config,
           \A c \in CompletionKeys :
               /\ completions'[c] # None <=> completions[c] # None
               /\ completions[c] # None =>
                      /\ completions'[c].id = completions[c].id
                      /\ completions'[c].timestamp = completions[c].timestamp
    PROVE  CompletionIdsOrdered'
  BY DEF ReputationInv, CompletionIdsOrdered

LEMMA RegisterAgentKeeps ==
    ASSUME ReputationInv, NEW authority \in Keys, NEW profile \in Profiles,
           RegisterAgent(authority, profile)
    PROVE  ReputationInv'
  <1> DEFINE new == [AgentOf(authority) EXCEPT !.metadata = profile]
  <1>1. /\ agents' = [agents EXCEPT ![authority] = new]
        /\ UNCHANGED <<completions, challenges, config, pendingAdmin, upgradeAuthority,
                       lamports, clock>>
    BY DEF RegisterAgent, configVars, runtimeVars
  <1>2. agents \in [Keys -> Agent \cup {None}] /\ None \notin Agent
    BY ReputationAssumption DEF ReputationInv, ReputationTypeOK
  <1>3. AgentOf(authority) \in Agent
    BY <1>2, RuntimeAssumption DEF AgentOf, NewAgent, Agent
  <1>4. /\ new \in Agent /\ new # None
        /\ new.completions = AgentOf(authority).completions
        /\ new.disputes = AgentOf(authority).disputes
        /\ new.last_activity = AgentOf(authority).last_activity
    BY <1>2, <1>3 DEF Agent
  <1>5. agents' \in [Keys -> Agent \cup {None}]
    BY <1>1, <1>2, <1>4
  <1>6. \A a \in Keys : a # authority => agents'[a] = agents[a]
    BY <1>1, <1>2
  <1>7. agents'[authority] = new
    BY <1>1, <1>2
  <1>8. ConfigInv' /\ ReputationTypeOK' /\ BondsBacked' /\ CompletionIdsOrdered'
    BY <1>1, <1>5, IdsSurviveMarks
    DEF ReputationInv, ConfigInv, RuntimeTypeOK, ConfigTypeOK, ConfigInRange,
        ReputationTypeOK, BondsBacked
  \* A fresh account starts with no completions, and there are none at its addresses.
  <1>9. agents[authority] = None => \A s \in Seqs : completions[<<authority, s>>] = None
    BY DEF ReputationInv, CompletionLogDense
  <1>10. CompletionLogDense'
    <2> SUFFICES ASSUME NEW a \in Keys, NEW s \in Seqs
                 PROVE  completions[<<a, s>>] # None
                            <=> agents'[a] # None /\ s < agents'[a].completions
      BY <1>1 DEF ReputationInv, CompletionLogDense
    <2>1. CASE a # authority
      BY <2>1, <1>6 DEF ReputationInv, CompletionLogDense
    <2>2. CASE a = authority /\ agents[a] # None
      BY <2>2, <1>4, <1>7 DEF ReputationInv, CompletionLogDense, AgentOf
    <2>3. CASE a = authority /\ agents[a] = None
      <3>1. ~(s < 0)
        BY RuntimeAssumption DEF Seqs
      <3> QED
        BY <2>3, <3>1, <1>4, <1>7, <1>9 DEF AgentOf, NewAgent
    <2> QED
      BY <2>1, <2>2, <2>3
  <1>11. DisputesMatchVerdicts'
    <2>1. ASSUME NEW a \in Keys
          PROVE  DisputedSeqs(a)' = DisputedSeqs(a)
      BY <1>1 DEF DisputedSeqs
    <2>2. ASSUME NEW a \in Keys, agents'[a] # None
          PROVE  /\ agents'[a].disputes = Cardinality(DisputedSeqs(a))
                 /\ agents'[a].disputes <= agents'[a].completions
      <3>1. CASE a # authority \/ agents[a] # None
        <4>1. agents[a] # None
          BY <1>6, <2>2, <3>1
        <4>2. /\ agents[a].disputes = Cardinality(DisputedSeqs(a))
              /\ agents[a].disputes <= agents[a].completions
          BY <4>1 DEF ReputationInv, DisputesMatchVerdicts
        <4>3. /\ agents'[a].disputes = agents[a].disputes
              /\ agents'[a].completions = agents[a].completions
          BY <1>4, <1>6, <1>7, <4>1 DEF AgentOf
        <4> QED
          BY <4>2, <4>3
      <3>2. CASE a = authority /\ agents[a] = None
        <4>1. DisputedSeqs(a) = {}
          BY <3>2, <1>9 DEF DisputedSeqs
        <4>2. new.disputes = 0 /\ new.completions = 0
          BY <3>2, <1>4 DEF AgentOf, NewAgent
        <4> QED
          BY <3>2, <4>1, <4>2, <1>7, FS_EmptySet
      <3> QED
        BY <3>1, <3>2
    <2>3. ASSUME NEW a \in Keys, NEW s \in Seqs, completions'[<<a, s>>] # None
          PROVE  completions'[<<a, s>>].disputed <=> Upheld(<<a, s>>)'
      BY <2>3, <1>1 DEF ReputationInv, DisputesMatchVerdicts, Upheld
    <2> QED
      BY <2>1, <2>2, <2>3 DEF DisputesMatchVerdicts
  <1>12. TimesPast'
    <2>1. new.last_activity <= clock
      <3>1. CASE agents[authority] # None
        BY <3>1, <1>4 DEF ReputationInv, TimesPast, AgentOf
      <3>2. CASE agents[authority] = None
        BY <3>2, <1>4, RuntimeAssumption
        DEF AgentOf, NewAgent, ReputationInv, ConfigInv, RuntimeTypeOK
      <3> QED
        BY <3>1, <3>2
    <2> QED
      BY <2>1, <1>1, <1>6, <1>7 DEF ReputationInv, TimesPast
  <1> QED
    BY <1>8, <1>10, <1>11, <1>12 DEF ReputationInv

-----------------------------------------------------------------------------
LEMMA AttestCompletionKeeps ==
    ASSUME ReputationInv, NEW authority \in Keys, NEW seq \in Seqs,
           AttestCompletion(authority, seq)
    PROVE  ReputationInv'
  <1> DEFINE c == <<authority, seq>>
             old == AgentOf(authority)
             new == [old EXCEPT !.completions = @ + 1, !.last_activity = clock]
             record == [id |-> config.next_completion_id, timestamp |-> clock,
                        challenged |-> FALSE, disputed |-> FALSE]
  <1>1. /\ config # None
        /\ completions[c] = None
        /\ seq = old.completions
        /\ config.next_completion_id < MaxU64
        /\ old.completions < MaxU64
        /\ config' = [config EXCEPT !.next_completion_id = @ + 1]
        /\ agents' = [agents EXCEPT ![authority] = new]
        /\ completions' = [completions EXCEPT ![c] = record]
        /\ UNCHANGED <<challenges, pendingAdmin, upgradeAuthority, lamports, clock>>
    BY DEF AttestCompletion, IsNextSeq, IssuedId, HasRoom, runtimeVars
  <1>2. /\ config \in Config
        /\ agents \in [Keys -> Agent \cup {None}] /\ None \notin Agent
        /\ completions \in [CompletionKeys -> Completion \cup {None}] /\ None \notin Completion
        /\ clock \in Nat
        /\ c \in CompletionKeys
    BY <1>1, PairsOfKeys, ReputationAssumption, RuntimeAssumption
    DEF ReputationInv, ConfigInv, ConfigTypeOK, ReputationTypeOK, RuntimeTypeOK
  <1>3. /\ config' \in Config /\ config' # None
        /\ config'.next_completion_id = config.next_completion_id + 1
        /\ config'.challenge_bond_lamports = config.challenge_bond_lamports
        /\ config'.decay_period_secs = config.decay_period_secs
    BY <1>1, <1>2, RuntimeAssumption, ConfigAccountAssumption DEF Config
  <1>4. old \in Agent
    <2>1. NewAgent \in Agent
      BY RuntimeAssumption DEF NewAgent, Agent
    <2> QED
      BY <1>2, <2>1 DEF AgentOf
  <1>5. /\ new \in Agent /\ new # None
        /\ new.completions = old.completions + 1
        /\ new.disputes = old.disputes
        /\ new.last_activity = clock
    <2> HIDE DEF old
    <2>1. old.completions + 1 \in 0 .. MaxU64
      BY <1>1, <1>4, RuntimeAssumption DEF Agent
    <2>2. new \in Agent
      BY <1>2, <1>4, <2>1 DEF Agent
    <2> QED
      BY <1>2, <1>4, <2>2 DEF Agent
  <1>6. record \in Completion /\ record # None
    <2>1. config.next_completion_id \in 1 .. MaxU64 - 1
      BY <1>1, <1>2, RuntimeAssumption DEF Config
    <2>2. record \in Completion
      BY <1>2, <2>1 DEF Completion
    <2> QED
      BY <1>2, <2>2
  <1>7. /\ agents' \in [Keys -> Agent \cup {None}]
        /\ agents'[authority] = new
        /\ \A a \in Keys : a # authority => agents'[a] = agents[a]
    BY <1>1, <1>2, <1>5
  <1>8. /\ completions' \in [CompletionKeys -> Completion \cup {None}]
        /\ completions'[c] = record
        /\ \A d \in CompletionKeys : d # c => completions'[d] = completions[d]
    BY <1>1, <1>2, <1>6
  <1>9. ConfigInv' /\ ReputationTypeOK' /\ BondsBacked'
    BY <1>1, <1>3, <1>7, <1>8
    DEF ReputationInv, ConfigInv, RuntimeTypeOK, ConfigTypeOK, ConfigInRange,
        ReputationTypeOK, BondsBacked
  <1>10. challenges[c] = None
    BY <1>1 DEF ReputationInv, CompletionLogDense
  <1>11. CompletionLogDense'
    <2> SUFFICES ASSUME NEW a \in Keys, NEW s \in Seqs
                 PROVE  /\ completions'[<<a, s>>] # None
                               <=> agents'[a] # None /\ s < agents'[a].completions
                        /\ challenges[<<a, s>>] # None
                               <=> completions'[<<a, s>>] # None
                                       /\ completions'[<<a, s>>].challenged
      BY <1>1 DEF CompletionLogDense
    <2>1. CASE <<a, s>> = c
      <3>1. a = authority /\ s = seq /\ seq \in Nat
        BY <2>1, RuntimeAssumption DEF Seqs
      <3>2. challenges[<<a, s>>] = None /\ completions'[<<a, s>>] = record
        BY <2>1, <1>8, <1>10
      <3>3. agents'[a] = new /\ new # None /\ s < new.completions
        BY <3>1, <1>1, <1>5, <1>7
      <3> QED
        BY <3>2, <3>3, <1>6
    <2>2. CASE <<a, s>> # c
      <3>1. completions'[<<a, s>>] = completions[<<a, s>>]
        BY <2>2, <1>8, PairsOfKeys
      <3>2. CASE a # authority
        BY <3>1, <3>2, <1>7 DEF ReputationInv, CompletionLogDense
      <3>3. CASE a = authority
        <4>1. s # seq /\ s \in Int /\ seq \in Int
          BY <2>2, <3>3, RuntimeAssumption DEF Seqs
        <4>2. s < new.completions <=> s < old.completions
          BY <4>1, <1>1, <1>5
        <4>3. completions[<<a, s>>] # None <=> s < old.completions
          <5>1. CASE agents[a] # None
            BY <5>1, <3>3 DEF ReputationInv, CompletionLogDense, AgentOf
          <5>2. CASE agents[a] = None
            BY <5>2, <3>3, RuntimeAssumption
            DEF ReputationInv, CompletionLogDense, AgentOf, NewAgent, Seqs
          <5> QED
            BY <5>1, <5>2
        <4> QED
          BY <3>1, <3>3, <4>2, <4>3, <1>5, <1>7 DEF ReputationInv, CompletionLogDense
      <3> QED
        BY <3>2, <3>3
    <2> QED
      BY <2>1, <2>2
  <1>12. DisputesMatchVerdicts'
    <2>1. ASSUME NEW a \in Keys
          PROVE  DisputedSeqs(a)' = DisputedSeqs(a)
      <3>1. \A s \in Seqs :
                completions'[<<a, s>>] # None /\ completions'[<<a, s>>].disputed
                    <=> completions[<<a, s>>] # None /\ completions[<<a, s>>].disputed
        BY <1>1, <1>8, PairsOfKeys
      <3> QED
        BY <3>1 DEF DisputedSeqs
    <2>2. ASSUME NEW a \in Keys, agents'[a] # None
          PROVE  /\ agents'[a].disputes = Cardinality(DisputedSeqs(a))
                 /\ agents'[a].disputes <= agents'[a].completions
      <3>1. CASE a # authority
        BY <3>1, <2>2, <1>7 DEF ReputationInv, DisputesMatchVerdicts
      <3>2. CASE a = authority /\ agents[a] # None
        <4>1. /\ old.disputes = Cardinality(DisputedSeqs(a))
              /\ old.disputes <= old.completions
          BY <3>2 DEF ReputationInv, DisputesMatchVerdicts, AgentOf
        <4>2. old.disputes \in Nat /\ old.completions \in Nat
          BY <1>4, RuntimeAssumption DEF Agent
        <4> QED
          BY <3>2, <4>1, <4>2, <1>5, <1>7
      <3>3. CASE a = authority /\ agents[a] = None
        <4>1. DisputedSeqs(a) = {}
          BY <3>3 DEF DisputedSeqs, ReputationInv, CompletionLogDense
        <4>2. new.disputes = 0 /\ new.completions = 1
          BY <3>3, <1>5 DEF AgentOf, NewAgent
        <4> QED
          BY <3>3, <4>1, <4>2, <1>7, FS_EmptySet
      <3> QED
        BY <3>1, <3>2, <3>3
    <2>3. ASSUME NEW a \in Keys, NEW s \in Seqs, completions'[<<a, s>>] # None
          PROVE  completions'[<<a, s>>].disputed <=> Upheld(<<a, s>>)'
      <3>1. CASE <<a, s>> = c
        BY <3>1, <1>1, <1>8, <1>10 DEF Upheld
      <3>2. CASE <<a, s>> # c
        BY <3>2, <2>3, <1>1, <1>8, PairsOfKeys DEF ReputationInv, DisputesMatchVerdicts, Upheld
      <3> QED
        BY <3>1, <3>2
    <2> QED
      BY <2>1, <2>2, <2>3 DEF DisputesMatchVerdicts
  <1>13. CompletionIdsOrdered'
    <2>1. ASSUME NEW d \in CompletionKeys, d # c, completions[d] # None
          PROVE  /\ completions[d].id < config.next_completion_id
                 /\ completions[d].id \in Int
                 /\ completions[d].timestamp <= clock
                 /\ d[1] = authority => d[2] < seq
      <3>1. completions[d] \in Completion
        BY <2>1, <1>2
      <3>2. /\ completions[d].id < config.next_completion_id
            /\ completions[d].timestamp <= clock
        BY <2>1 DEF ReputationInv, CompletionIdsOrdered, TimesPast
      <3>3. ASSUME d[1] = authority
            PROVE  d[2] < seq
        <4>1. d = <<authority, d[2]>> /\ d[2] \in Seqs
          BY <3>3, PairsOfKeys
        <4>2. agents[authority] # None /\ d[2] < agents[authority].completions
          BY <2>1, <4>1 DEF ReputationInv, CompletionLogDense
        <4> QED
          BY <4>2, <1>1 DEF AgentOf
      <3> QED
        BY <3>1, <3>2, <3>3, RuntimeAssumption DEF Completion
    <2>2. /\ record.id = config.next_completion_id
          /\ record.timestamp = clock
          /\ config.next_completion_id \in Int /\ clock \in Int /\ seq \in Int
          /\ c[1] = authority /\ c[2] = seq
      BY <1>2, RuntimeAssumption DEF Config, Seqs
    <2> SUFFICES ASSUME NEW d \in CompletionKeys, NEW e \in CompletionKeys,
                        completions'[d] # None, completions'[e] # None
                 PROVE  /\ completions'[d].id < config'.next_completion_id
                        /\ completions'[d].id = completions'[e].id => d = e
                        /\ d[1] = e[1] /\ d[2] < e[2] =>
                               completions'[d].id < completions'[e].id
                        /\ completions'[d].id < completions'[e].id =>
                               completions'[d].timestamp <= completions'[e].timestamp
      BY <1>3 DEF CompletionIdsOrdered
    <2>3. d[2] \in Int /\ e[2] \in Int
      BY PairsOfKeys, RuntimeAssumption DEF Seqs
    <2>4. CASE d = c /\ e = c
      BY <2>2, <2>4, <1>3, <1>8
    <2>5. CASE d = c /\ e # c
      BY <2>1, <2>2, <2>3, <2>5, <1>3, <1>8
    <2>6. CASE d # c /\ e = c
      BY <2>1, <2>2, <2>3, <2>6, <1>3, <1>8
    <2>7. CASE d # c /\ e # c
      <3>1. completions'[d] = completions[d] /\ completions'[e] = completions[e]
        BY <2>7, <1>8
      <3>2. completions[d].id < config'.next_completion_id
        BY <2>1, <2>2, <2>7, <3>1, <1>3
      <3> QED
        BY <3>1, <3>2 DEF ReputationInv, CompletionIdsOrdered
    <2> QED
      BY <2>4, <2>5, <2>6, <2>7
  <1>14. TimesPast'
    BY <1>1, <1>2, <1>5, <1>7, <1>8 DEF ReputationInv, TimesPast
  <1> QED
    BY <1>9, <1>11, <1>12, <1>13, <1>14 DEF ReputationInv

-----------------------------------------------------------------------------
\* challenge_completion marks a completion nobody has challenged and puts the
\* configured bond, at least a vault's rent, on top of what the vault holds.
LEMMA ChallengeCompletionKeeps ==
    ASSUME ReputationInv, NEW challenger \in Keys, NEW c \in CompletionKeys,
           ChallengeCompletion(challenger, c)
    PROVE  ReputationInv'
  <1> DEFINE vault == ChallengeVault(c)
             bond == config.challenge_bond_lamports
             marked == [completions[c] EXCEPT !.challenged = TRUE]
             record == [challenger |-> challenger, timestamp |-> clock,
                        resolved |-> FALSE, upheld |-> FALSE, bond_lamports |-> bond]
  <1>1. /\ config # None
        /\ completions[c] # None /\ ~completions[c].challenged
        /\ SystemTransfer(challenger, vault, bond)
        /\ challenges' = [challenges EXCEPT ![c] = record]
        /\ completions' = [completions EXCEPT ![c].challenged = TRUE]
        /\ UNCHANGED <<agents, config, pendingAdmin, upgradeAuthority, clock>>
    BY DEF ChallengeCompletion, Challengeable, configVars
  <1>2. /\ config \in Config
        /\ completions \in [CompletionKeys -> Completion \cup {None}] /\ None \notin Completion
        /\ challenges \in [CompletionKeys -> Challenge \cup {None}] /\ None \notin Challenge
        /\ clock \in Nat
        /\ lamports \in [Accounts -> Nat]
    BY <1>1, ReputationAssumption, RuntimeAssumption
    DEF ReputationInv, ConfigInv, ConfigTypeOK, ReputationTypeOK, RuntimeTypeOK
  <1>3. bond \in Nat /\ bond >= Rent
    BY <1>1, <1>2 DEF Config, ReputationInv, ConfigInv, ConfigInRange
  <1>4. completions[c] \in Completion
    BY <1>1, <1>2
  <1>5. /\ marked \in Completion /\ marked # None
        /\ marked.id = completions[c].id
        /\ marked.timestamp = completions[c].timestamp
        /\ marked.challenged
        /\ marked.disputed = completions[c].disputed
    BY <1>2, <1>4 DEF Completion
  <1>6. record \in Challenge /\ record # None
    <2>1. clock \in Nat /\ bond \in Nat
      BY <1>2, <1>3
    <2>2. record \in Challenge
      BY <2>1 DEF Challenge
    <2> QED
      BY <1>2, <2>2
  <1>7. completions' = [completions EXCEPT ![c] = marked]
    BY <1>1, <1>2
  <1>8. /\ completions' \in [CompletionKeys -> Completion \cup {None}]
        /\ completions'[c] = marked
        /\ \A d \in CompletionKeys : d # c => completions'[d] = completions[d]
    BY <1>2, <1>5, <1>7
  <1>9. /\ challenges' \in [CompletionKeys -> Challenge \cup {None}]
        /\ challenges'[c] = record
        /\ \A d \in CompletionKeys : d # c => challenges'[d] = challenges[d]
    BY <1>1, <1>2, <1>6
  <1>10. /\ lamports' \in [Accounts -> Nat]
         /\ lamports'[vault] = lamports[vault] + bond
         /\ \A d \in CompletionKeys :
                d # c => lamports'[ChallengeVault(d)] = lamports[ChallengeVault(d)]
    <2>1. challenger \in Accounts /\ vault \in Accounts /\ challenger # vault
      BY VaultAddresses
    <2>2. /\ lamports' \in [Accounts -> Nat]
          /\ \A a \in Accounts : a \notin {challenger, vault} => lamports'[a] = lamports[a]
          /\ lamports'[vault] = lamports[vault] + bond
      BY <1>1, <1>2, <1>3, <2>1, TransferEffect
    <2>3. \A d \in CompletionKeys :
              d # c => /\ ChallengeVault(d) \in Accounts
                       /\ ChallengeVault(d) \notin {challenger, vault}
      BY VaultAddresses
    <2> QED
      BY <2>2, <2>3
  <1>11. ConfigInv' /\ ReputationTypeOK'
    BY <1>1, <1>8, <1>9, <1>10
    DEF ReputationInv, ConfigInv, RuntimeTypeOK, ConfigTypeOK, ConfigInRange, ReputationTypeOK
  <1>12. CompletionLogDense'
    <2> SUFFICES ASSUME NEW a \in Keys, NEW s \in Seqs
                 PROVE  /\ completions'[<<a, s>>] # None
                               <=> agents[a] # None /\ s < agents[a].completions
                        /\ challenges'[<<a, s>>] # None
                               <=> completions'[<<a, s>>] # None
                                       /\ completions'[<<a, s>>].challenged
      BY <1>1 DEF CompletionLogDense
    <2>1. <<a, s>> \in CompletionKeys
      BY PairsOfKeys
    <2>2. completions'[<<a, s>>] # None <=> completions[<<a, s>>] # None
      BY <2>1, <1>1, <1>5, <1>8
    <2>3. challenges'[<<a, s>>] # None
              <=> completions'[<<a, s>>] # None /\ completions'[<<a, s>>].challenged
      <3>1. CASE <<a, s>> = c
        BY <3>1, <1>5, <1>6, <1>8, <1>9
      <3>2. CASE <<a, s>> # c
        BY <3>2, <2>1, <1>8, <1>9 DEF ReputationInv, CompletionLogDense
      <3> QED
        BY <3>1, <3>2
    <2> QED
      BY <2>2, <2>3 DEF ReputationInv, CompletionLogDense
  <1>13. challenges[c] = None
    BY <1>1, PairsOfKeys DEF ReputationInv, CompletionLogDense
  <1>14. DisputesMatchVerdicts'
    <2>1. \A d \in CompletionKeys :
              /\ completions'[d] # None <=> completions[d] # None
              /\ completions[d] # None => completions'[d].disputed = completions[d].disputed
      BY <1>1, <1>5, <1>8
    <2>2. \A d \in CompletionKeys : Upheld(d)' <=> Upheld(d)
      <3> TAKE d \in CompletionKeys
      <3>1. CASE d = c
        BY <3>1, <1>9, <1>13 DEF Upheld
      <3>2. CASE d # c
        BY <3>2, <1>9 DEF Upheld
      <3> QED
        BY <3>1, <3>2
    <2>3. ASSUME NEW a \in Keys
          PROVE  DisputedSeqs(a)' = DisputedSeqs(a)
      BY <2>1, PairsOfKeys DEF DisputedSeqs
    <2>4. ASSUME NEW a \in Keys, agents'[a] # None
          PROVE  /\ agents'[a].disputes = Cardinality(DisputedSeqs(a)')
                 /\ agents'[a].disputes <= agents'[a].completions
      BY <1>1, <2>3, <2>4 DEF ReputationInv, DisputesMatchVerdicts
    <2>5. ASSUME NEW a \in Keys, NEW s \in Seqs, completions'[<<a, s>>] # None
          PROVE  completions'[<<a, s>>].disputed <=> Upheld(<<a, s>>)'
      BY <2>1, <2>2, <2>5, PairsOfKeys DEF ReputationInv, DisputesMatchVerdicts
    <2> QED
      BY <2>4, <2>5 DEF DisputesMatchVerdicts
  <1>15. CompletionIdsOrdered'
    BY <1>1, <1>5, <1>8, IdsSurviveMarks
  <1>16. BondsBacked'
    <2>1. vault \in Accounts /\ lamports[vault] \in Nat
      BY <1>2, VaultAddresses
    <2>2. lamports'[vault] >= bond
      BY <1>3, <1>10, <2>1
    <2> QED
      BY <1>1, <1>3, <1>9, <1>10, <2>2 DEF ReputationInv, BondsBacked
  <1>17. TimesPast'
    BY <1>1, <1>5, <1>8 DEF ReputationInv, TimesPast
  <1> QED
    BY <1>11, <1>12, <1>14, <1>15, <1>16, <1>17 DEF ReputationInv

-----------------------------------------------------------------------------
\* Settling a pending challenge empties its vault into a wallet and no other
\* vault, and the bonds still pending stay backed.
LEMMA SettlementKeepsBonds ==
    ASSUME ReputationInv, NEW c \in CompletionKeys, NEW upheld \in BOOLEAN,
           NEW destination \in Keys,
           challenges[c] # None, config' = config,
           SweepTo(ChallengeVault(c), destination),
           challenges' = Settled(c, upheld)
    PROVE  /\ lamports' \in [Accounts -> Nat]
           /\ challenges' \in [CompletionKeys -> Challenge \cup {None}]
           /\ challenges'[c] # None
           /\ challenges'[c].resolved
           /\ challenges'[c].upheld = upheld
           /\ \A d \in CompletionKeys : d # c => challenges'[d] = challenges[d]
           /\ BondsBacked'
  <1> DEFINE vault == ChallengeVault(c)
             settled == [challenges[c] EXCEPT !.resolved = TRUE, !.upheld = upheld]
  <1>1. /\ challenges \in [CompletionKeys -> Challenge \cup {None}] /\ None \notin Challenge
        /\ lamports \in [Accounts -> Nat]
    BY ReputationAssumption DEF ReputationInv, ConfigInv, ReputationTypeOK, RuntimeTypeOK
  <1>2. challenges[c] \in Challenge
    BY <1>1
  <1>3. /\ settled \in Challenge /\ settled # None
        /\ settled.resolved
        /\ settled.upheld = upheld
    BY <1>1, <1>2 DEF Challenge
  <1>4. challenges' = [challenges EXCEPT ![c] = settled]
    BY <1>1 DEF Settled
  <1>5. /\ challenges' \in [CompletionKeys -> Challenge \cup {None}]
        /\ challenges'[c] = settled
        /\ \A d \in CompletionKeys : d # c => challenges'[d] = challenges[d]
    BY <1>1, <1>3, <1>4
  <1>6. destination \in Accounts /\ vault \in Accounts /\ destination # vault
    BY VaultAddresses
  <1>7. /\ lamports' \in [Accounts -> Nat]
        /\ \A a \in Accounts : a \notin {vault, destination} => lamports'[a] = lamports[a]
    BY <1>1, <1>6, TransferEffect DEF SweepTo
  <1>8. \A d \in CompletionKeys :
            d # c => lamports'[ChallengeVault(d)] = lamports[ChallengeVault(d)]
    BY <1>7, VaultAddresses
  <1>9. BondsBacked'
    BY <1>3, <1>5, <1>8 DEF ReputationInv, BondsBacked
  <1> QED
    BY <1>3, <1>5, <1>7, <1>9

LEMMA CancelChallengeKeeps ==
    ASSUME ReputationInv, NEW signer \in Keys, NEW c \in CompletionKeys,
           CancelChallenge(signer, c)
    PROVE  ReputationInv'
  <1>1. /\ challenges[c] # None /\ ~challenges[c].resolved
        /\ SweepTo(ChallengeVault(c), signer)
        /\ challenges' = Settled(c, FALSE)
        /\ UNCHANGED <<agents, completions, config, pendingAdmin, upgradeAuthority, clock>>
    BY DEF CancelChallenge, Pending, configVars
  <1>2. /\ lamports' \in [Accounts -> Nat]
        /\ challenges' \in [CompletionKeys -> Challenge \cup {None}]
        /\ challenges'[c] # None /\ ~challenges'[c].upheld
        /\ \A d \in CompletionKeys : d # c => challenges'[d] = challenges[d]
        /\ BondsBacked'
    BY <1>1, SettlementKeepsBonds
  <1>3. /\ \A d \in CompletionKeys : challenges'[d] # None <=> challenges[d] # None
        /\ \A d \in CompletionKeys : Upheld(d)' <=> Upheld(d)
    BY <1>1, <1>2 DEF Upheld
  <1>4. ConfigInv' /\ ReputationTypeOK'
    BY <1>1, <1>2
    DEF ReputationInv, ConfigInv, RuntimeTypeOK, ConfigTypeOK, ConfigInRange, ReputationTypeOK
  <1>5. CompletionLogDense'
    BY <1>1, <1>3, PairsOfKeys DEF ReputationInv, CompletionLogDense
  <1>6. DisputesMatchVerdicts'
    <2>1. \A a \in Keys : DisputedSeqs(a)' = DisputedSeqs(a)
      BY <1>1 DEF DisputedSeqs
    <2>2. \A a \in Keys :
              agents'[a] # None =>
                  /\ agents'[a].disputes = Cardinality(DisputedSeqs(a)')
                  /\ agents'[a].disputes <= agents'[a].completions
      BY <1>1, <2>1 DEF ReputationInv, DisputesMatchVerdicts
    <2>3. \A a \in Keys, s \in Seqs :
              completions'[<<a, s>>] # None =>
                  (completions'[<<a, s>>].disputed <=> Upheld(<<a, s>>)')
      BY <1>1, <1>3, PairsOfKeys DEF ReputationInv, DisputesMatchVerdicts
    <2> QED
      BY <2>2, <2>3 DEF DisputesMatchVerdicts
  <1>7. CompletionIdsOrdered' /\ TimesPast'
    BY <1>1, IdsSurviveMarks DEF ReputationInv, TimesPast
  <1> QED
    BY <1>2, <1>4, <1>5, <1>6, <1>7 DEF ReputationInv

-----------------------------------------------------------------------------
\* There are at most n sequence numbers below n.
LEMMA SeqsBelow ==
    ASSUME NEW D \in SUBSET Seqs, NEW n \in Nat, \A s \in D : s < n
    PROVE  Cardinality(D) <= n
  <1>1. D \subseteq 0 .. n - 1
    BY RuntimeAssumption DEF Seqs
  <1>2. IsFiniteSet(0 .. n - 1) /\ Cardinality(0 .. n - 1) = n
    BY FS_Interval
  <1> QED
    BY <1>1, <1>2, FS_Subset

\* A verdict that upholds the challenge disputes one completion that was not, and
\* one that rejects it disputes none.
LEMMA VerdictDisputes ==
    ASSUME ReputationInv, NEW c \in CompletionKeys, NEW upheld \in BOOLEAN,
           completions[c] # None, ~completions[c].disputed, completions'[c] # None,
           completions'[c].disputed = upheld,
           \A d \in CompletionKeys : d # c => completions'[d] = completions[d]
    PROVE  /\ \A a \in Keys : a # c[1] => DisputedSeqs(a)' = DisputedSeqs(a)
           /\ Cardinality(DisputedSeqs(c[1])') =
                  DisputesAfter(Cardinality(DisputedSeqs(c[1])), upheld)
  <1>1. c[1] \in Keys /\ c[2] \in Seqs /\ c = <<c[1], c[2]>>
    BY PairsOfKeys
  <1>2. ASSUME NEW a \in Keys, a # c[1]
        PROVE  DisputedSeqs(a)' = DisputedSeqs(a)
    <2>1. \A s \in Seqs : completions'[<<a, s>>] = completions[<<a, s>>]
      BY <1>1, <1>2, PairsOfKeys
    <2> QED
      BY <2>1 DEF DisputedSeqs
  <1>3. \A s \in Seqs : s # c[2] => completions'[<<c[1], s>>] = completions[<<c[1], s>>]
    BY <1>1, PairsOfKeys
  <1>4. c[2] \notin DisputedSeqs(c[1])
    BY <1>1 DEF DisputedSeqs
  <1>5. IsFiniteSet(DisputedSeqs(c[1]))
    BY <1>1, DisputedSeqsFinite
  <1>6. CASE upheld
    <2>1. DisputedSeqs(c[1])' = DisputedSeqs(c[1]) \cup {c[2]}
      BY <1>1, <1>3, <1>6 DEF DisputedSeqs
    <2> QED
      BY <1>2, <1>4, <1>5, <1>6, <2>1, FS_AddElement DEF DisputesAfter
  <1>7. CASE ~upheld
    <2>1. DisputedSeqs(c[1])' = DisputedSeqs(c[1])
      BY <1>1, <1>3, <1>7 DEF DisputedSeqs
    <2> QED
      BY <1>2, <1>7, <2>1 DEF DisputesAfter
  <1> QED
    BY <1>6, <1>7

LEMMA ResolveChallengeKeeps ==
    ASSUME ReputationInv, NEW signer \in Keys, NEW c \in CompletionKeys,
           NEW upheld \in BOOLEAN, ResolveChallenge(signer, c, upheld)
    PROVE  ReputationInv'
  <1> DEFINE agent == c[1]
             destination == IF upheld THEN challenges[c].challenger ELSE config.treasury
             judged == [agents[agent] EXCEPT !.disputes = DisputesAfter(@, upheld)]
             marked == [completions[c] EXCEPT !.disputed = @ \/ upheld]
  <1>1. /\ config # None
        /\ agents[agent] # None
        /\ challenges[c] # None /\ ~challenges[c].resolved
        /\ completions[c] # None /\ completions[c].challenged
        /\ SweepTo(ChallengeVault(c), destination)
        /\ upheld => agents[agent].disputes < MaxU64
        /\ completions' = [completions EXCEPT ![c].disputed = @ \/ upheld]
        /\ agents' = [agents EXCEPT ![agent].disputes = DisputesAfter(@, upheld)]
        /\ challenges' = Settled(c, upheld)
        /\ UNCHANGED <<config, pendingAdmin, upgradeAuthority, clock>>
    BY DEF ResolveChallenge, IsAuthority, Pending, HasRoom, configVars
  <1>2. /\ config \in Config
        /\ agents \in [Keys -> Agent \cup {None}] /\ None \notin Agent
        /\ completions \in [CompletionKeys -> Completion \cup {None}] /\ None \notin Completion
        /\ challenges \in [CompletionKeys -> Challenge \cup {None}] /\ None \notin Challenge
        /\ agent \in Keys /\ c[2] \in Seqs /\ c = <<agent, c[2]>>
    BY <1>1, PairsOfKeys, ReputationAssumption
    DEF ReputationInv, ConfigInv, ConfigTypeOK, ReputationTypeOK
  <1>3. destination \in Keys
    <2>1. challenges[c] \in Challenge
      BY <1>1, <1>2
    <2> QED
      BY <1>2, <2>1 DEF Config, Challenge
  <1>4. /\ lamports' \in [Accounts -> Nat]
        /\ challenges' \in [CompletionKeys -> Challenge \cup {None}]
        /\ challenges'[c] # None /\ challenges'[c].resolved
        /\ challenges'[c].upheld = upheld
        /\ \A d \in CompletionKeys : d # c => challenges'[d] = challenges[d]
        /\ BondsBacked'
    <2> HIDE DEF destination
    <2> QED
      BY <1>1, <1>3, SettlementKeepsBonds
  <1>5. ~completions[c].disputed
    BY <1>1, <1>2 DEF ReputationInv, DisputesMatchVerdicts, Upheld
  <1>6. /\ marked \in Completion /\ marked # None
        /\ marked.id = completions[c].id
        /\ marked.timestamp = completions[c].timestamp
        /\ marked.challenged
        /\ marked.disputed = upheld
    <2>1. completions[c] \in Completion
      BY <1>1, <1>2
    <2>2. marked = [completions[c] EXCEPT !.disputed = upheld]
      BY <1>5, <2>1 DEF Completion
    <2> QED
      BY <1>1, <1>2, <2>1, <2>2 DEF Completion
  <1>7. agents[agent] \in Agent
    BY <1>1, <1>2
  <1>8. DisputesAfter(agents[agent].disputes, upheld) \in 0 .. MaxU64
    BY <1>1, <1>7, RuntimeAssumption DEF Agent, DisputesAfter
  <1>9. /\ judged \in Agent /\ judged # None
        /\ judged.completions = agents[agent].completions
        /\ judged.disputes = DisputesAfter(agents[agent].disputes, upheld)
        /\ judged.last_activity = agents[agent].last_activity
    BY <1>2, <1>7, <1>8 DEF Agent
  <1>10. /\ completions' \in [CompletionKeys -> Completion \cup {None}]
         /\ completions'[c] = marked
         /\ \A d \in CompletionKeys : d # c => completions'[d] = completions[d]
    <2>1. completions' = [completions EXCEPT ![c] = marked]
      BY <1>1, <1>2
    <2> QED
      BY <1>2, <1>6, <2>1
  <1>11. /\ agents' \in [Keys -> Agent \cup {None}]
         /\ agents'[agent] = judged
         /\ \A a \in Keys : a # agent => agents'[a] = agents[a]
    <2>1. agents' = [agents EXCEPT ![agent] = judged]
      BY <1>1, <1>2
    <2> QED
      BY <1>2, <1>9, <2>1
  <1>12. ConfigInv' /\ ReputationTypeOK'
    BY <1>1, <1>4, <1>10, <1>11
    DEF ReputationInv, ConfigInv, RuntimeTypeOK, ConfigTypeOK, ConfigInRange, ReputationTypeOK
  <1>13. /\ \A a \in Keys : agents'[a] # None <=> agents[a] # None
         /\ \A a \in Keys :
                agents[a] # None => /\ agents'[a].completions = agents[a].completions
                                    /\ agents'[a].last_activity = agents[a].last_activity
         /\ \A d \in CompletionKeys : completions'[d] # None <=> completions[d] # None
         /\ \A d \in CompletionKeys :
                completions[d] # None =>
                    /\ completions'[d].id = completions[d].id
                    /\ completions'[d].timestamp = completions[d].timestamp
                    /\ completions'[d].challenged = completions[d].challenged
         /\ \A d \in CompletionKeys : challenges'[d] # None <=> challenges[d] # None
    BY <1>1, <1>4, <1>6, <1>9, <1>10, <1>11
  <1>14. CompletionLogDense'
    BY <1>13, PairsOfKeys DEF ReputationInv, CompletionLogDense
  <1>15. /\ \A a \in Keys : a # agent => DisputedSeqs(a)' = DisputedSeqs(a)
         /\ Cardinality(DisputedSeqs(agent)') =
                DisputesAfter(Cardinality(DisputedSeqs(agent)), upheld)
    BY <1>1, <1>5, <1>6, <1>10, VerdictDisputes
  <1>16. DisputesMatchVerdicts'
    <2>1. ASSUME NEW a \in Keys, agents'[a] # None
          PROVE  agents'[a].disputes = Cardinality(DisputedSeqs(a)')
      <3>1. agents[a] # None
        BY <1>13, <2>1
      <3>2. agents[a].disputes = Cardinality(DisputedSeqs(a))
        BY <3>1 DEF ReputationInv, DisputesMatchVerdicts
      <3>3. CASE a # agent
        BY <1>11, <1>15, <3>2, <3>3
      <3>4. CASE a = agent
        <4>1. agents'[a].disputes = DisputesAfter(agents[a].disputes, upheld)
          BY <1>9, <1>11, <3>4
        <4>2. Cardinality(DisputedSeqs(a)') = DisputesAfter(Cardinality(DisputedSeqs(a)), upheld)
          BY <1>15, <3>4
        <4> QED
          BY <3>2, <4>1, <4>2
      <3> QED
        BY <3>3, <3>4
    <2>2. ASSUME NEW a \in Keys, agents'[a] # None
          PROVE  Cardinality(DisputedSeqs(a)') <= agents'[a].completions
      <3>1. agents'[a].completions \in Nat
        BY <2>2, <1>11, RuntimeAssumption DEF Agent
      <3>2. /\ DisputedSeqs(a)' \in SUBSET Seqs
            /\ \A s \in DisputedSeqs(a)' : s < agents'[a].completions
        BY <1>14 DEF CompletionLogDense, DisputedSeqs
      <3> QED
        BY <3>1, <3>2, SeqsBelow
    <2>3. ASSUME NEW a \in Keys, NEW s \in Seqs, completions'[<<a, s>>] # None
          PROVE  completions'[<<a, s>>].disputed <=> Upheld(<<a, s>>)'
      <3>1. CASE <<a, s>> = c
        BY <3>1, <1>4, <1>6, <1>10 DEF Upheld
      <3>2. CASE <<a, s>> # c
        BY <3>2, <2>3, <1>4, <1>10, PairsOfKeys
        DEF ReputationInv, DisputesMatchVerdicts, Upheld
      <3> QED
        BY <3>1, <3>2
    <2> QED
      BY <2>1, <2>2, <2>3 DEF DisputesMatchVerdicts
  <1>17. CompletionIdsOrdered'
    BY <1>1, <1>13, IdsSurviveMarks
  <1>18. TimesPast'
    BY <1>1, <1>13 DEF ReputationInv, TimesPast
  <1> QED
    BY <1>4, <1>12, <1>14, <1>16, <1>17, <1>18 DEF ReputationInv

-----------------------------------------------------------------------------
\* Every handler of the component keeps its invariant.
LEMMA StepsOfReputation ==
    ASSUME ReputationInv, ReputationStep
    PROVE  ReputationInv'
  BY RegisterAgentKeeps, AttestCompletionKeeps, ChallengeCompletionKeeps,
     ResolveChallengeKeeps, CancelChallengeKeeps
  DEF ReputationStep

\* No handler of the component touches a capability's vault, its id counter, the
\* clock or the treasury's name.
LEMMA ReputationSparesCapabilities ==
    ASSUME ReputationInv, ReputationStep
    PROVE  /\ \A v \in CapabilityVaults : lamports'[v] >= lamports[v]
           /\ config # None => /\ config' # None
                               /\ config'.next_capability_id = config.next_capability_id
                               /\ config'.treasury = config.treasury
           /\ config = None => config' = None
           /\ clock' = clock
  <1> DEFINE Spared ==
          /\ \A v \in CapabilityVaults : lamports'[v] >= lamports[v]
          /\ config # None => /\ config' # None
                              /\ config'.next_capability_id = config.next_capability_id
                              /\ config'.treasury = config.treasury
          /\ config = None => config' = None
          /\ clock' = clock
  <1>1. /\ lamports \in [Accounts -> Nat]
        /\ config # None => config \in Config
        /\ challenges \in [CompletionKeys -> Challenge \cup {None}]
        /\ ReputationInv'
    BY StepsOfReputation
    DEF ReputationInv, ConfigInv, RuntimeTypeOK, ConfigTypeOK, ReputationTypeOK
  <1>2. \A v \in CapabilityVaults : /\ v \in Accounts /\ v \notin Keys
                                    /\ v \notin ChallengeVaults
                                    /\ lamports[v] \in Nat
    BY <1>1, VaultAddresses DEF CapabilityVaults
  <1>3. ASSUME NEW key \in Keys, NEW c \in CompletionKeys, NEW amount \in Nat,
               \/ SystemTransfer(key, ChallengeVault(c), amount)
               \/ SystemTransfer(ChallengeVault(c), key, amount)
        PROVE  \A v \in CapabilityVaults : lamports'[v] = lamports[v]
    <2>1. /\ key \in Accounts /\ ChallengeVault(c) \in Accounts
          /\ \A v \in CapabilityVaults : v \in Accounts /\ v \notin {key, ChallengeVault(c)}
      BY <1>2, VaultAddresses
    <2> QED
      BY <1>1, <1>3, <2>1, TransferEffect
  <1>4. ASSUME NEW authority \in Keys, NEW profile \in Profiles,
               RegisterAgent(authority, profile)
        PROVE  Spared
    BY <1>2, <1>4 DEF RegisterAgent, configVars, runtimeVars
  <1>5. ASSUME NEW authority \in Keys, NEW seq \in Seqs, AttestCompletion(authority, seq)
        PROVE  Spared
    <2>1. /\ config # None /\ lamports' = lamports /\ clock' = clock
          /\ config' = [config EXCEPT !.next_completion_id = @ + 1]
          /\ config.next_completion_id < MaxU64
      BY <1>5 DEF AttestCompletion, HasRoom, runtimeVars
    <2>2. config' # None
      <3>1. config' \in Config
        BY <1>1, <2>1, RuntimeAssumption DEF Config
      <3> QED
        BY <3>1, ConfigAccountAssumption
    <2> QED
      BY <1>1, <1>2, <2>1, <2>2 DEF Config
  <1>6. ASSUME NEW challenger \in Keys, NEW c \in CompletionKeys,
               ChallengeCompletion(challenger, c)
        PROVE  Spared
    <2>1. /\ config # None /\ config' = config /\ clock' = clock
          /\ SystemTransfer(challenger, ChallengeVault(c), config.challenge_bond_lamports)
      BY <1>6 DEF ChallengeCompletion, Challengeable, configVars
    <2>2. config.challenge_bond_lamports \in Nat
      BY <1>1, <2>1 DEF Config
    <2> QED
      BY <1>2, <1>3, <2>1, <2>2
  <1>7. ASSUME NEW c \in CompletionKeys, NEW key \in Keys,
               SweepTo(ChallengeVault(c), key)
        PROVE  \A v \in CapabilityVaults : lamports'[v] >= lamports[v]
    <2>1. lamports[ChallengeVault(c)] \in Nat
      BY <1>1, VaultAddresses
    <2> QED
      BY <1>2, <1>3, <1>7, <2>1 DEF SweepTo
  <1>8. ASSUME NEW signer \in Keys, NEW c \in CompletionKeys, NEW upheld \in BOOLEAN,
               ResolveChallenge(signer, c, upheld)
        PROVE  Spared
    <2>1. /\ config # None /\ config' = config /\ clock' = clock
          /\ challenges[c] # None
          /\ SweepTo(ChallengeVault(c),
                     IF upheld THEN challenges[c].challenger ELSE config.treasury)
      BY <1>8 DEF ResolveChallenge, Pending, IsAuthority, configVars
    <2>2. challenges[c].challenger \in Keys /\ config.treasury \in Keys
      BY <1>1, <2>1 DEF Challenge, Config
    <2> QED
      BY <1>7, <2>1, <2>2
  <1>9. ASSUME NEW signer \in Keys, NEW c \in CompletionKeys, CancelChallenge(signer, c)
        PROVE  Spared
    BY <1>7, <1>9 DEF CancelChallenge, configVars
  <1> QED
    BY <1>4, <1>5, <1>6, <1>8, <1>9 DEF ReputationStep

-----------------------------------------------------------------------------
\* A pending bond can be paid to either destination: the vault empties, and what
\* it holds makes any wallet rent-exempt.
LEMMA BackedBondsPayable ==
    ASSUME ReputationInv
    PROVE  PendingBondPayable
  <1> SUFFICES ASSUME NEW c \in CompletionKeys, Pending(c)
               PROVE  LET vault == ChallengeVault(c)
                      IN  /\ lamports[vault] >= challenges[c].bond_lamports
                          /\ CanPay(lamports, vault, challenges[c].challenger, lamports[vault])
                          /\ CanPay(lamports, vault, config.treasury, lamports[vault])
    BY DEF PendingBondPayable
  <1> DEFINE vault == ChallengeVault(c)
  <1>1. /\ config # None
        /\ challenges[c] # None
        /\ challenges[c].bond_lamports >= Rent
        /\ lamports[vault] >= challenges[c].bond_lamports
    BY DEF ReputationInv, BondsBacked, Pending
  <1>2. /\ challenges[c].challenger \in Keys /\ challenges[c].bond_lamports \in Nat
        /\ config.treasury \in Keys
        /\ lamports \in [Accounts -> Nat]
    BY <1>1 DEF ReputationInv, ConfigInv, ConfigTypeOK, ReputationTypeOK, RuntimeTypeOK,
                Config, Challenge
  <1>3. ASSUME NEW key \in Keys
        PROVE  CanPay(lamports, vault, key, lamports[vault])
    <2>1. /\ key \in Accounts /\ vault \in Accounts /\ key # vault
          /\ lamports[key] \in Nat /\ lamports[vault] \in Nat
      BY <1>2, VaultAddresses
    <2>2. /\ Moved(lamports, vault, key, lamports[vault])[vault] = 0
          /\ Moved(lamports, vault, key, lamports[vault])[key] = lamports[key] + lamports[vault]
      BY <1>2, <2>1 DEF Moved
    <2>3. lamports[key] + lamports[vault] >= Rent
      BY <1>1, <1>2, <2>1, RuntimeAssumption
    <2> QED
      BY <2>1, <2>2, <2>3 DEF CanPay, RentState
  <1> QED
    BY <1>1, <1>2, <1>3

-----------------------------------------------------------------------------
(* What is recorded about agents is never rewritten. *)

\* What does not change is kept.
LEMMA UnchangedKept ==
    ASSUME ReputationInv
    PROVE  /\ \A a \in Keys : agents'[a] = agents[a] => AgentKept(a)
           /\ \A c \in CompletionKeys : completions'[c] = completions[c] => CompletionKept(c)
           /\ \A c \in CompletionKeys : challenges'[c] = challenges[c] => ChallengeKept(c)
  <1>1. \A a \in Keys :
            agents[a] # None => /\ agents[a].completions \in Int
                                /\ agents[a].disputes \in Int
                                /\ agents[a].last_activity \in Int
    BY RuntimeAssumption DEF ReputationInv, ReputationTypeOK, Agent
  <1> QED
    BY <1>1 DEF AgentKept, CompletionKept, ChallengeKept

LEMMA ReputationStepsKeepHistory ==
    ASSUME ReputationInv, ReputationStep
    PROVE  HistoryStep
  <1>1. /\ agents \in [Keys -> Agent \cup {None}]
        /\ completions \in [CompletionKeys -> Completion \cup {None}]
        /\ challenges \in [CompletionKeys -> Challenge \cup {None}]
        /\ None \notin Agent /\ None \notin Completion /\ None \notin Challenge
        /\ MaxU64 \in Nat /\ clock \in Nat
    BY RuntimeAssumption, ReputationAssumption
    DEF ReputationInv, ReputationTypeOK, ConfigInv, RuntimeTypeOK
  <1>2. \A a \in Keys :
            agents[a] # None => /\ agents[a] \in Agent
                                /\ agents[a].completions \in Nat
                                /\ agents[a].disputes \in Nat
                                /\ agents[a].last_activity \in Nat
                                /\ agents[a].last_activity <= clock
    BY <1>1 DEF Agent, ReputationInv, TimesPast
  <1>3. ASSUME NEW authority \in Keys, NEW profile \in Profiles,
               RegisterAgent(authority, profile)
        PROVE  HistoryStep
    <2> DEFINE new == [AgentOf(authority) EXCEPT !.metadata = profile]
    <2>1. /\ UNCHANGED <<completions, challenges>>
          /\ agents' = [agents EXCEPT ![authority] = new]
      BY <1>3 DEF RegisterAgent
    <2>2. ASSUME agents[authority] # None
          PROVE  AgentKept(authority)
      <3>1. agents'[authority] = [agents[authority] EXCEPT !.metadata = profile]
        BY <1>1, <2>1, <2>2 DEF AgentOf
      <3>2. [agents[authority] EXCEPT !.metadata = profile] \in Agent
        BY <1>2, <2>2 DEF Agent
      <3> QED
        BY <1>1, <1>2, <2>2, <3>1, <3>2 DEF AgentKept, Agent
    <2> QED
      BY <1>1, <2>1, <2>2, UnchangedKept DEF HistoryStep, AgentKept
  <1>4. ASSUME NEW authority \in Keys, NEW seq \in Seqs, AttestCompletion(authority, seq)
        PROVE  HistoryStep
    <2> DEFINE new == [AgentOf(authority) EXCEPT !.completions = @ + 1,
                                                 !.last_activity = clock]
    <2>1. /\ UNCHANGED challenges
          /\ completions[<<authority, seq>>] = None
          /\ \A c \in CompletionKeys : c # <<authority, seq>> => completions'[c] = completions[c]
          /\ agents' = [agents EXCEPT ![authority] = new]
          /\ AgentOf(authority).completions < MaxU64
      BY <1>1, <1>4 DEF AttestCompletion, HasRoom
    <2>2. ASSUME agents[authority] # None
          PROVE  AgentKept(authority)
      <3>1. /\ agents'[authority].completions = agents[authority].completions + 1
            /\ agents'[authority].disputes = agents[authority].disputes
            /\ agents'[authority].last_activity = clock
        BY <1>1, <1>2, <2>1, <2>2 DEF AgentOf, Agent
      <3>2. agents'[authority] # None
        <4>1. agents[authority].completions + 1 \in 0 .. MaxU64
          BY <1>1, <1>2, <2>1, <2>2 DEF AgentOf
        <4>2. [[agents[authority] EXCEPT !.completions = @ + 1]
                   EXCEPT !.last_activity = clock] \in Agent
          BY <1>1, <1>2, <2>2, <4>1 DEF Agent
        <4> QED
          BY <1>1, <2>1, <2>2, <4>2 DEF AgentOf
      <3> QED
        BY <1>2, <2>2, <3>1, <3>2 DEF AgentKept
    <2>3. \A c \in CompletionKeys : CompletionKept(c)
      BY <2>1, UnchangedKept DEF CompletionKept
    <2> QED
      BY <1>1, <2>1, <2>2, <2>3, UnchangedKept DEF HistoryStep, AgentKept
  <1>5. ASSUME NEW signer \in Keys, NEW c \in CompletionKeys, ChallengeCompletion(signer, c)
        PROVE  HistoryStep
    <2>1. /\ UNCHANGED agents
          /\ completions[c] # None /\ ~completions[c].challenged
          /\ completions' = [completions EXCEPT ![c].challenged = TRUE]
          /\ \A d \in CompletionKeys : d # c => challenges'[d] = challenges[d]
      BY <1>1, <1>5 DEF ChallengeCompletion, Challengeable
    <2>2. challenges[c] = None
      BY <2>1, PairsOfKeys DEF ReputationInv, CompletionLogDense
    <2>3. /\ completions'[c] \in Completion
          /\ completions'[c].id = completions[c].id
          /\ completions'[c].timestamp = completions[c].timestamp
          /\ completions'[c].disputed = completions[c].disputed
          /\ completions'[c].challenged
      BY <1>1, <2>1 DEF Completion
    <2>4. /\ \A d \in CompletionKeys : d # c => completions'[d] = completions[d]
      BY <1>1, <2>1
    <2>5. /\ \A d \in CompletionKeys : ChallengeKept(d)
          /\ \A d \in CompletionKeys : CompletionKept(d)
      BY <1>1, <2>1, <2>2, <2>3, <2>4, UnchangedKept DEF ChallengeKept, CompletionKept
    <2> QED
      BY <2>1, <2>5, UnchangedKept DEF HistoryStep
  \* A verdict settles a pending challenge and touches nothing else of it.
  <1>6. ASSUME NEW c \in CompletionKeys, NEW upheld \in BOOLEAN,
               Pending(c), challenges' = Settled(c, upheld)
        PROVE  \A d \in CompletionKeys : ChallengeKept(d)
    <2>1. challenges[c] \in Challenge /\ ~challenges[c].resolved
      BY <1>1, <1>6 DEF Pending
    <2>2. /\ challenges'[c] = [[challenges[c] EXCEPT !.resolved = TRUE] EXCEPT !.upheld = upheld]
          /\ \A d \in CompletionKeys : d # c => challenges'[d] = challenges[d]
      BY <1>1, <1>6 DEF Settled
    <2>3. /\ challenges'[c] \in Challenge
          /\ challenges'[c].challenger = challenges[c].challenger
          /\ challenges'[c].bond_lamports = challenges[c].bond_lamports
      BY <2>1, <2>2 DEF Challenge
    <2> QED
      BY <1>1, <2>1, <2>2, <2>3, UnchangedKept DEF ChallengeKept
  <1>7. ASSUME NEW signer \in Keys, NEW c \in CompletionKeys, NEW upheld \in BOOLEAN,
               ResolveChallenge(signer, c, upheld)
        PROVE  HistoryStep
    <2> DEFINE a == c[1]
    <2>1. /\ Pending(c)
          /\ challenges' = Settled(c, upheld)
          /\ completions' = [completions EXCEPT ![c].disputed = @ \/ upheld]
          /\ agents' = [agents EXCEPT ![a].disputes = DisputesAfter(@, upheld)]
          /\ upheld => HasRoom(agents[a].disputes)
          /\ agents[a] # None
      BY <1>7 DEF ResolveChallenge
    <2>2. a \in Keys
      BY PairsOfKeys
    <2>3. AgentKept(a)
      <3>1. /\ DisputesAfter(agents[a].disputes, upheld) \in 0 .. MaxU64
            /\ DisputesAfter(agents[a].disputes, upheld) >= agents[a].disputes
        BY <1>1, <1>2, <2>1, <2>2 DEF DisputesAfter, HasRoom, Agent
      <3>2. agents'[a] = [agents[a] EXCEPT !.disputes = DisputesAfter(@, upheld)]
        BY <1>1, <2>1, <2>2
      <3>3. /\ agents'[a] \in Agent
            /\ agents'[a].disputes = DisputesAfter(agents[a].disputes, upheld)
            /\ agents'[a].completions = agents[a].completions
            /\ agents'[a].last_activity = agents[a].last_activity
        BY <1>2, <2>1, <2>2, <3>1, <3>2 DEF Agent
      <3> QED
        BY <1>1, <1>2, <2>1, <2>2, <3>1, <3>3 DEF AgentKept
    <2>4. CompletionKept(c)
      <3>1. /\ completions[c] \in Completion
            /\ completions'[c] = [completions[c] EXCEPT !.disputed = @ \/ upheld]
        BY <1>1, <2>1 DEF Pending
      <3> DEFINE marked == completions[c].disputed \/ upheld
      <3>2. /\ marked \in BOOLEAN /\ (completions[c].disputed => marked)
            /\ completions'[c] = [completions[c] EXCEPT !.disputed = marked]
        BY <3>1
      <3> HIDE DEF marked
      <3>3. /\ completions'[c] \in Completion
            /\ completions'[c].id = completions[c].id
            /\ completions'[c].timestamp = completions[c].timestamp
            /\ completions'[c].challenged = completions[c].challenged
            /\ completions'[c].disputed = marked
        BY <3>1, <3>2 DEF Completion
      <3> QED
        BY <1>1, <3>2, <3>3 DEF CompletionKept
    <2>5. /\ \A d \in CompletionKeys : d # c => completions'[d] = completions[d]
          /\ \A b \in Keys : b # a => agents'[b] = agents[b]
      BY <1>1, <2>1
    <2>6. \A d \in CompletionKeys : ChallengeKept(d)
      BY <1>6, <2>1
    <2> QED
      BY <2>3, <2>4, <2>5, <2>6, UnchangedKept DEF HistoryStep
  <1>8. ASSUME NEW signer \in Keys, NEW c \in CompletionKeys, CancelChallenge(signer, c)
        PROVE  HistoryStep
    <2>1. /\ Pending(c) /\ challenges' = Settled(c, FALSE)
          /\ UNCHANGED <<agents, completions>>
      BY <1>8 DEF CancelChallenge
    <2>2. \A d \in CompletionKeys : ChallengeKept(d)
      BY <1>6, <2>1
    <2> QED
      BY <2>1, <2>2, UnchangedKept DEF HistoryStep
  <1> QED
    BY <1>3, <1>4, <1>5, <1>7, <1>8 DEF ReputationStep
\* The component starts within its invariant.
LEMMA InitEstablishesReputation ==
    ASSUME RuntimeInit, ConfigInit, ReputationInit
    PROVE  ReputationInv
  <1>1. /\ config = None /\ pendingAdmin = None
        /\ upgradeAuthority \in AdminChoices \ {ZeroKey}
        /\ agents = [a \in Keys |-> None]
        /\ completions = [c \in CompletionKeys |-> None]
        /\ challenges = [c \in CompletionKeys |-> None]
        /\ clock = 1
    BY DEF RuntimeInit, ConfigInit, ReputationInit
  <1>2. lamports \in [Accounts -> Nat]
    BY RuntimeAssumption DEF RuntimeInit
  <1>3. ConfigInv
    BY <1>1, <1>2, RuntimeAssumption, ConfigAssumption
    DEF ConfigInv, RuntimeTypeOK, ConfigTypeOK, ConfigInRange
  <1>4. \A a \in Keys, s \in Seqs :
            completions[<<a, s>>] = None /\ challenges[<<a, s>>] = None
    BY <1>1, PairsOfKeys
  <1>5. CompletionLogDense /\ DisputesMatchVerdicts
    BY <1>1, <1>4 DEF CompletionLogDense, DisputesMatchVerdicts
  <1> QED
    BY <1>1, <1>3, <1>5
    DEF ReputationInv, ReputationTypeOK, CompletionIdsOrdered, BondsBacked, TimesPast

-----------------------------------------------------------------------------
(***************************************************************************)
(* The inductive invariant of the capability handlers.  That every bond    *)
(* can be paid out needs only balances; that the index is exact needs the  *)
(* index to be finite, for its Cardinality to count.                       *)
(***************************************************************************)

\* What is left of a bond is in its vault, nothing or rent-exempt.
RemaindersBacked ==
    \A k \in CapabilityKeys :
        Live(k) =>
            /\ config # None
            /\ lamports[CapabilityVault(k)] >= capabilities[k].bond_remaining
            /\ LeavesRentExempt(capabilities[k].bond_remaining)

IndexFinite == \A t \in CapabilityTypes : IsFiniteSet(index[t])

CapabilityInv ==
    /\ ConfigInv
    /\ CapabilityTypeOK
    /\ IndexExact
    /\ IndexFinite
    /\ RemaindersBacked

\* A capability's address names its type, its creator and its id.
LEMMA PartsOfKeys ==
    \A k \in CapabilityKeys :
        /\ TypeOf(k) \in CapabilityTypes
        /\ CreatorOf(k) \in Keys
        /\ IdOf(k) \in 1 .. MaxU64 - 1
  BY DEF CapabilityKeys, TypeOf, CreatorOf, IdOf

-----------------------------------------------------------------------------
\* A step of another component that keeps the configuration's invariant, does not
\* take the id counter back and takes nothing from a capability's vault keeps the
\* invariant of this one.
LEMMA CapabilityFrame ==
    ASSUME CapabilityInv, ConfigInv', UNCHANGED capabilityVars,
           config # None => /\ config' # None
                            /\ config'.next_capability_id >= config.next_capability_id,
           \A v \in CapabilityVaults : lamports'[v] >= lamports[v]
    PROVE  CapabilityInv'
  <1>1. capabilities' = capabilities /\ index' = index
    BY DEF capabilityVars
  <1>2. CapabilityTypeOK' /\ IndexFinite'
    BY <1>1 DEF CapabilityInv, CapabilityTypeOK, IndexFinite
  <1>3. \A k \in CapabilityKeys : Live(k)' <=> Live(k)
    BY <1>1 DEF Live
  <1>4. IndexExact'
    <2>1. config # None => config \in Config /\ config' \in Config
      BY DEF CapabilityInv, ConfigInv, ConfigTypeOK
    <2>2. ASSUME NEW k \in CapabilityKeys, Live(k)
          PROVE  config' # None /\ IdOf(k) < config'.next_capability_id
      <3>1. config # None /\ IdOf(k) < config.next_capability_id
        BY <2>2 DEF CapabilityInv, IndexExact
      <3> QED
        BY <2>1, <3>1, PartsOfKeys, RuntimeAssumption DEF Config
    <2> QED
      BY <1>1, <1>3, <2>2 DEF CapabilityInv, IndexExact
  <1>5. RemaindersBacked'
    <2> SUFFICES ASSUME NEW k \in CapabilityKeys, Live(k)
                 PROVE  /\ config' # None
                        /\ lamports'[CapabilityVault(k)] >= capabilities[k].bond_remaining
                        /\ LeavesRentExempt(capabilities[k].bond_remaining)
      BY <1>1, <1>3 DEF RemaindersBacked
    <2>1. /\ config # None
          /\ lamports[CapabilityVault(k)] >= capabilities[k].bond_remaining
          /\ LeavesRentExempt(capabilities[k].bond_remaining)
      BY DEF CapabilityInv, RemaindersBacked
    <2>2. /\ CapabilityVault(k) \in CapabilityVaults /\ CapabilityVault(k) \in Accounts
          /\ capabilities[k] \in Capability
      BY VaultAddresses DEF CapabilityInv, CapabilityTypeOK, Live
    <2>3. /\ lamports'[CapabilityVault(k)] >= lamports[CapabilityVault(k)]
          /\ lamports[CapabilityVault(k)] \in Nat
          /\ lamports'[CapabilityVault(k)] \in Nat
          /\ capabilities[k].bond_remaining \in Nat
      BY <2>2 DEF CapabilityInv, ConfigInv, RuntimeTypeOK, Capability
    <2> QED
      BY <2>1, <2>3
  <1> QED
    BY <1>2, <1>4, <1>5 DEF CapabilityInv

-----------------------------------------------------------------------------
\* What a transfer between a wallet and one capability's vault does to the vaults.
LEMMA OneVaultMoves ==
    ASSUME NEW key \in Keys, NEW k \in CapabilityKeys, NEW amount \in Nat,
           lamports \in [Accounts -> Nat],
           \/ SystemTransfer(key, CapabilityVault(k), amount)
           \/ SystemTransfer(CapabilityVault(k), key, amount)
    PROVE  /\ lamports' \in [Accounts -> Nat]
           /\ \A l \in CapabilityKeys :
                  l # k => lamports'[CapabilityVault(l)] = lamports[CapabilityVault(l)]
           /\ \A v \in ChallengeVaults : lamports'[v] = lamports[v]
           /\ SystemTransfer(key, CapabilityVault(k), amount) =>
                  lamports'[CapabilityVault(k)] = lamports[CapabilityVault(k)] + amount
           /\ SystemTransfer(CapabilityVault(k), key, amount) =>
                  lamports'[CapabilityVault(k)] = lamports[CapabilityVault(k)] - amount
  <1> DEFINE vault == CapabilityVault(k)
  <1>1. key \in Accounts /\ vault \in Accounts /\ key # vault
    BY VaultAddresses
  <1>2. \A l \in CapabilityKeys :
            l # k => CapabilityVault(l) \in Accounts /\ CapabilityVault(l) \notin {key, vault}
    BY VaultAddresses
  <1>3. \A v \in ChallengeVaults : v \in Accounts /\ v \notin {key, vault}
    BY VaultAddresses DEF ChallengeVaults
  <1>4. /\ lamports' \in [Accounts -> Nat]
        /\ \A a \in Accounts : a \notin {key, vault} => lamports'[a] = lamports[a]
        /\ SystemTransfer(key, vault, amount) =>
               lamports'[vault] = lamports[vault] + amount
        /\ SystemTransfer(vault, key, amount) =>
               lamports'[vault] = lamports[vault] - amount
    BY <1>1, TransferEffect
  <1> QED
    BY <1>2, <1>3, <1>4

-----------------------------------------------------------------------------
\* A handler that leaves the set of live records alone keeps the index exact.
LEMMA IndexSurvivesUpdates ==
    ASSUME CapabilityInv, index' = index, config' = config,
           \A k \in CapabilityKeys : Live(k)' <=> Live(k)
    PROVE  IndexExact' /\ IndexFinite'
  BY DEF CapabilityInv, IndexExact, IndexFinite

\* register_capability gives the record an id above every live one and lists it
\* where there is room.
LEMMA RegisterCapabilityKeeps ==
    ASSUME CapabilityInv, NEW creator \in Keys, NEW k \in CapabilityKeys,
           NEW bond \in CapabilityBonds, RegisterCapability(creator, k, bond)
    PROVE  CapabilityInv'
  <1> DEFINE t == TypeOf(k)
             record == [bond_remaining |-> bond, certified |-> FALSE,
                        slashed |-> FALSE, active |-> TRUE]
  <1>1. /\ config # None
        /\ bond >= Rent
        /\ IdOf(k) = config.next_capability_id
        /\ ~Live(k)
        /\ SystemTransfer(creator, CapabilityVault(k), bond)
        /\ config.next_capability_id < MaxU64
        /\ config' = [config EXCEPT !.next_capability_id = @ + 1]
        /\ capabilities' = [capabilities EXCEPT ![k] = record]
        /\ Cardinality(index[t]) < IndexCapacity
        /\ index' = [index EXCEPT ![t] = @ \cup {k}]
        /\ UNCHANGED <<pendingAdmin, upgradeAuthority, clock>>
    BY DEF RegisterCapability, UsesNextId, HasRoom
  <1>2. /\ config \in Config
        /\ capabilities \in [CapabilityKeys -> Capability \cup {None}] /\ None \notin Capability
        /\ index \in [CapabilityTypes -> SUBSET CapabilityKeys]
        /\ lamports \in [Accounts -> Nat]
        /\ bond \in Nat
        /\ t \in CapabilityTypes
    BY <1>1, PartsOfKeys, CapabilityAssumption
    DEF CapabilityInv, ConfigInv, ConfigTypeOK, RuntimeTypeOK, CapabilityTypeOK
  <1>3. /\ config' \in Config /\ config' # None
        /\ config'.next_capability_id = config.next_capability_id + 1
        /\ config'.challenge_bond_lamports = config.challenge_bond_lamports
        /\ config'.decay_period_secs = config.decay_period_secs
    <2>1. config' \in Config
      BY <1>1, <1>2, RuntimeAssumption DEF Config
    <2> QED
      BY <1>1, <1>2, <2>1, ConfigAccountAssumption DEF Config
  <1>4. record \in Capability /\ record # None
    <2>1. bond \in Nat
      BY <1>2
    <2>2. record \in Capability
      BY <2>1 DEF Capability
    <2> QED
      BY <1>2, <2>2
  <1>5. /\ capabilities' \in [CapabilityKeys -> Capability \cup {None}]
        /\ capabilities'[k] = record
        /\ \A l \in CapabilityKeys : l # k => capabilities'[l] = capabilities[l]
    BY <1>1, <1>2, <1>4
  <1>6. /\ index' \in [CapabilityTypes -> SUBSET CapabilityKeys]
        /\ index'[t] = index[t] \cup {k}
        /\ \A u \in CapabilityTypes : u # t => index'[u] = index[u]
    BY <1>1, <1>2
  <1>7. /\ lamports' \in [Accounts -> Nat]
        /\ lamports'[CapabilityVault(k)] = lamports[CapabilityVault(k)] + bond
        /\ \A l \in CapabilityKeys :
               l # k => lamports'[CapabilityVault(l)] = lamports[CapabilityVault(l)]
    BY <1>1, <1>2, OneVaultMoves
  <1>8. ConfigInv' /\ CapabilityTypeOK'
    BY <1>1, <1>3, <1>5, <1>6, <1>7
    DEF CapabilityInv, ConfigInv, RuntimeTypeOK, ConfigTypeOK, ConfigInRange, CapabilityTypeOK
  <1>9. \A l \in CapabilityKeys : Live(l)' <=> Live(l) \/ l = k
    BY <1>4, <1>5 DEF Live
  <1>10. /\ IsFiniteSet(index[t])
         /\ IsFiniteSet(index[t] \cup {k})
         /\ Cardinality(index[t] \cup {k}) <= IndexCapacity
    <2>1. IsFiniteSet(index[t]) /\ k \notin index[t]
      BY <1>1, <1>2 DEF CapabilityInv, IndexFinite, IndexExact
    <2>2. /\ IsFiniteSet(index[t] \cup {k})
          /\ Cardinality(index[t] \cup {k}) = Cardinality(index[t]) + 1
          /\ Cardinality(index[t]) \in Nat
      BY <2>1, FS_AddElement, FS_CardinalityType
    <2> QED
      BY <1>1, <2>1, <2>2, CapabilityAssumption
  <1>11. IndexExact'
    <2>1. ASSUME NEW u \in CapabilityTypes
          PROVE  /\ index'[u] = {l \in CapabilityKeys : TypeOf(l) = u /\ Live(l)'}
                 /\ Cardinality(index'[u]) <= IndexCapacity
      <3>1. index[u] = {l \in CapabilityKeys : TypeOf(l) = u /\ Live(l)}
        BY DEF CapabilityInv, IndexExact
      <3>2. CASE u = t
        BY <3>1, <3>2, <1>6, <1>9, <1>10
      <3>3. CASE u # t
        BY <3>1, <3>3, <1>6, <1>9 DEF CapabilityInv, IndexExact
      <3> QED
        BY <3>2, <3>3
    <2>2. ASSUME NEW l \in CapabilityKeys, Live(l)
          PROVE  /\ IdOf(l) \in Int
                 /\ config.next_capability_id \in Int
                 /\ IdOf(l) < config.next_capability_id
      BY <2>2, <1>2, PartsOfKeys, RuntimeAssumption DEF Config, CapabilityInv, IndexExact
    <2>3. ASSUME NEW l \in CapabilityKeys, Live(l)'
          PROVE  IdOf(l) < config'.next_capability_id
      <3>1. CASE l = k
        BY <3>1, <1>1, <1>2, <1>3, RuntimeAssumption DEF Config
      <3>2. CASE l # k
        BY <3>2, <2>2, <2>3, <1>3, <1>9
      <3> QED
        BY <3>1, <3>2
    <2>4. ASSUME NEW l \in CapabilityKeys, NEW m \in CapabilityKeys,
                 Live(l)', Live(m)', IdOf(l) = IdOf(m)
          PROVE  l = m
      <3>1. CASE l = k \/ m = k
        BY <3>1, <2>2, <2>4, <1>1, <1>9
      <3>2. CASE l # k /\ m # k
        BY <3>2, <2>4, <1>9 DEF CapabilityInv, IndexExact
      <3> QED
        BY <3>1, <3>2
    <2> QED
      BY <2>1, <2>3, <2>4, <1>3 DEF IndexExact
  <1>12. IndexFinite'
    BY <1>6, <1>10 DEF CapabilityInv, IndexFinite
  <1>13. RemaindersBacked'
    <2> SUFFICES ASSUME NEW l \in CapabilityKeys, Live(l)'
                 PROVE  /\ lamports'[CapabilityVault(l)] >= capabilities'[l].bond_remaining
                        /\ LeavesRentExempt(capabilities'[l].bond_remaining)
      BY <1>3 DEF RemaindersBacked
    <2>1. CASE l = k
      <3>1. lamports[CapabilityVault(k)] \in Nat
        BY <1>2, VaultAddresses
      <3> QED
        BY <2>1, <3>1, <1>1, <1>2, <1>5, <1>7 DEF LeavesRentExempt
    <2>2. CASE l # k
      BY <2>2, <1>5, <1>7, <1>9 DEF CapabilityInv, RemaindersBacked
    <2> QED
      BY <2>1, <2>2
  <1> QED
    BY <1>8, <1>11, <1>12, <1>13 DEF CapabilityInv

\* certify_capability changes one mark of one record.
LEMMA CertifyCapabilityKeeps ==
    ASSUME CapabilityInv, NEW signer \in Keys, NEW k \in CapabilityKeys,
           CertifyCapability(signer, k)
    PROVE  CapabilityInv'
  <1> DEFINE certified == [capabilities[k] EXCEPT !.certified = TRUE]
  <1>1. /\ Live(k)
        /\ capabilities' = [capabilities EXCEPT ![k].certified = TRUE]
        /\ UNCHANGED <<index, config, pendingAdmin, upgradeAuthority, lamports, clock>>
    BY DEF CertifyCapability, configVars, runtimeVars
  <1>2. capabilities \in [CapabilityKeys -> Capability \cup {None}] /\ None \notin Capability
    BY CapabilityAssumption DEF CapabilityInv, CapabilityTypeOK
  <1>3. capabilities[k] \in Capability
    BY <1>1, <1>2 DEF Live
  <1>4. /\ certified \in Capability /\ certified # None
        /\ certified.bond_remaining = capabilities[k].bond_remaining
    BY <1>2, <1>3 DEF Capability
  <1>5. /\ capabilities' \in [CapabilityKeys -> Capability \cup {None}]
        /\ capabilities'[k] = certified
        /\ \A l \in CapabilityKeys : l # k => capabilities'[l] = capabilities[l]
    <2>1. capabilities' = [capabilities EXCEPT ![k] = certified]
      BY <1>1, <1>2
    <2> QED
      BY <1>2, <1>4, <2>1
  <1>6. /\ \A l \in CapabilityKeys : Live(l)' <=> Live(l)
        /\ \A l \in CapabilityKeys :
               Live(l) => capabilities'[l].bond_remaining = capabilities[l].bond_remaining
    BY <1>1, <1>4, <1>5 DEF Live
  <1>7. ConfigInv' /\ CapabilityTypeOK'
    BY <1>1, <1>5
    DEF CapabilityInv, ConfigInv, RuntimeTypeOK, ConfigTypeOK, ConfigInRange, CapabilityTypeOK
  <1>8. IndexExact' /\ IndexFinite'
    BY <1>1, <1>6, IndexSurvivesUpdates
  <1>9. RemaindersBacked'
    BY <1>1, <1>6 DEF CapabilityInv, RemaindersBacked
  <1> QED
    BY <1>7, <1>8, <1>9 DEF CapabilityInv

\* slash_capability takes no more than the bond covers, and what stays in the
\* vault still covers what stays of the bond.
LEMMA SlashCapabilityKeeps ==
    ASSUME CapabilityInv, NEW signer \in Keys, NEW k \in CapabilityKeys,
           NEW penalty \in Penalties, SlashCapability(signer, k, penalty)
    PROVE  CapabilityInv'
  <1> DEFINE vault == CapabilityVault(k)
             remaining == capabilities[k].bond_remaining - penalty
             amount == SlashedAmount(k, remaining, penalty)
             slashed == [capabilities[k] EXCEPT !.bond_remaining = remaining, !.slashed = TRUE]
  <1>1. /\ config # None
        /\ Live(k)
        /\ penalty <= capabilities[k].bond_remaining
        /\ lamports[vault] >= capabilities[k].bond_remaining
        /\ LeavesRentExempt(remaining)
        /\ SystemTransfer(vault, config.treasury, amount)
        /\ capabilities' = [capabilities EXCEPT ![k].bond_remaining = remaining,
                                                ![k].slashed = TRUE]
        /\ UNCHANGED <<index, config, pendingAdmin, upgradeAuthority, clock>>
    BY DEF SlashCapability, IsAuthority, configVars
  <1>2. /\ capabilities \in [CapabilityKeys -> Capability \cup {None}] /\ None \notin Capability
        /\ lamports \in [Accounts -> Nat]
        /\ config.treasury \in Keys
        /\ penalty \in Nat
    BY <1>1, CapabilityAssumption
    DEF CapabilityInv, ConfigInv, ConfigTypeOK, RuntimeTypeOK, CapabilityTypeOK, Config
  <1>3. capabilities[k] \in Capability
    BY <1>1, <1>2 DEF Live
  <1>4. /\ capabilities[k].bond_remaining \in Nat
        /\ remaining \in Nat
        /\ lamports[vault] \in Nat
        /\ amount \in Nat
        /\ lamports[vault] - amount >= remaining
    <2>1. capabilities[k].bond_remaining \in Nat
      BY <1>3 DEF Capability
    <2>2. lamports[vault] \in Nat
      BY <1>2, VaultAddresses
    <2> QED
      BY <1>1, <1>2, <2>1, <2>2 DEF SlashedAmount
  <1>5. /\ slashed \in Capability /\ slashed # None
        /\ slashed.bond_remaining = remaining
    <2>1. slashed \in Capability
      BY <1>3, <1>4 DEF Capability
    <2> QED
      BY <1>2, <1>3, <2>1 DEF Capability
  <1>6. /\ capabilities' \in [CapabilityKeys -> Capability \cup {None}]
        /\ capabilities'[k] = slashed
        /\ \A l \in CapabilityKeys : l # k => capabilities'[l] = capabilities[l]
    <2>1. capabilities' = [capabilities EXCEPT ![k] = slashed]
      BY <1>1, <1>2
    <2> QED
      BY <1>2, <1>5, <2>1
  <1>7. /\ lamports' \in [Accounts -> Nat]
        /\ lamports'[vault] = lamports[vault] - amount
        /\ \A l \in CapabilityKeys :
               l # k => lamports'[CapabilityVault(l)] = lamports[CapabilityVault(l)]
    <2> HIDE DEF amount
    <2> QED
      BY <1>1, <1>2, <1>4, OneVaultMoves
  <1>8. \A l \in CapabilityKeys : Live(l)' <=> Live(l)
    BY <1>1, <1>5, <1>6 DEF Live
  <1>9. ConfigInv' /\ CapabilityTypeOK'
    BY <1>1, <1>6, <1>7
    DEF CapabilityInv, ConfigInv, RuntimeTypeOK, ConfigTypeOK, ConfigInRange, CapabilityTypeOK
  <1>10. IndexExact' /\ IndexFinite'
    BY <1>1, <1>8, IndexSurvivesUpdates
  <1>11. RemaindersBacked'
    <2> SUFFICES ASSUME NEW l \in CapabilityKeys, Live(l)
                 PROVE  /\ lamports'[CapabilityVault(l)] >= capabilities'[l].bond_remaining
                        /\ LeavesRentExempt(capabilities'[l].bond_remaining)
      BY <1>1, <1>8 DEF RemaindersBacked
    <2>1. CASE l = k
      BY <2>1, <1>1, <1>4, <1>5, <1>6, <1>7
    <2>2. CASE l # k
      BY <2>2, <1>6, <1>7 DEF CapabilityInv, RemaindersBacked
    <2> QED
      BY <2>1, <2>2
  <1> QED
    BY <1>9, <1>10, <1>11 DEF CapabilityInv

\* withdraw_capability_bond closes the record and takes it off its index.
LEMMA WithdrawCapabilityBondKeeps ==
    ASSUME CapabilityInv, NEW signer \in Keys, NEW k \in CapabilityKeys,
           WithdrawCapabilityBond(signer, k)
    PROVE  CapabilityInv'
  <1> DEFINE t == TypeOf(k)
  <1>1. /\ config # None
        /\ SystemTransfer(CapabilityVault(k), signer, lamports[CapabilityVault(k)])
        /\ index' = [index EXCEPT ![t] = @ \ {k}]
        /\ capabilities' = [capabilities EXCEPT ![k] = None]
        /\ UNCHANGED <<config, pendingAdmin, upgradeAuthority, clock>>
    BY DEF WithdrawCapabilityBond, PrunedIndex, configVars
  <1>2. /\ capabilities \in [CapabilityKeys -> Capability \cup {None}]
        /\ index \in [CapabilityTypes -> SUBSET CapabilityKeys]
        /\ lamports \in [Accounts -> Nat] /\ lamports[CapabilityVault(k)] \in Nat
        /\ t \in CapabilityTypes
    BY PartsOfKeys, VaultAddresses DEF CapabilityInv, ConfigInv, RuntimeTypeOK, CapabilityTypeOK
  <1>3. /\ capabilities' \in [CapabilityKeys -> Capability \cup {None}]
        /\ capabilities'[k] = None
        /\ \A l \in CapabilityKeys : l # k => capabilities'[l] = capabilities[l]
    BY <1>1, <1>2
  <1>4. /\ index' \in [CapabilityTypes -> SUBSET CapabilityKeys]
        /\ index'[t] = index[t] \ {k}
        /\ \A u \in CapabilityTypes : u # t => index'[u] = index[u]
    BY <1>1, <1>2
  <1>5. /\ lamports' \in [Accounts -> Nat]
        /\ \A l \in CapabilityKeys :
               l # k => lamports'[CapabilityVault(l)] = lamports[CapabilityVault(l)]
    BY <1>1, <1>2, OneVaultMoves
  <1>6. \A l \in CapabilityKeys : Live(l)' <=> Live(l) /\ l # k
    BY <1>3 DEF Live
  <1>7. ConfigInv' /\ CapabilityTypeOK'
    BY <1>1, <1>3, <1>4, <1>5
    DEF CapabilityInv, ConfigInv, RuntimeTypeOK, ConfigTypeOK, ConfigInRange, CapabilityTypeOK
  <1>8. /\ IsFiniteSet(index[t] \ {k})
        /\ Cardinality(index[t] \ {k}) <= IndexCapacity
    <2>1. IsFiniteSet(index[t]) /\ Cardinality(index[t]) <= IndexCapacity
      BY <1>2 DEF CapabilityInv, IndexFinite, IndexExact
    <2>2. /\ IsFiniteSet(index[t] \ {k})
          /\ Cardinality(index[t] \ {k}) <= Cardinality(index[t])
          /\ Cardinality(index[t] \ {k}) \in Nat /\ Cardinality(index[t]) \in Nat
      BY <2>1, FS_Subset, FS_CardinalityType
    <2> QED
      BY <2>1, <2>2, CapabilityAssumption
  <1>9. IndexExact'
    <2>1. ASSUME NEW u \in CapabilityTypes
          PROVE  /\ index'[u] = {l \in CapabilityKeys : TypeOf(l) = u /\ Live(l)'}
                 /\ Cardinality(index'[u]) <= IndexCapacity
      <3>1. index[u] = {l \in CapabilityKeys : TypeOf(l) = u /\ Live(l)}
        BY DEF CapabilityInv, IndexExact
      <3>2. CASE u = t
        BY <3>1, <3>2, <1>4, <1>6, <1>8
      <3>3. CASE u # t
        BY <3>1, <3>3, <1>4, <1>6 DEF CapabilityInv, IndexExact
      <3> QED
        BY <3>2, <3>3
    <2> QED
      BY <2>1, <1>1, <1>6 DEF CapabilityInv, IndexExact
  <1>10. IndexFinite'
    BY <1>4, <1>8 DEF CapabilityInv, IndexFinite
  <1>11. RemaindersBacked'
    BY <1>1, <1>3, <1>5, <1>6 DEF CapabilityInv, RemaindersBacked
  <1> QED
    BY <1>7, <1>9, <1>10, <1>11 DEF CapabilityInv

-----------------------------------------------------------------------------
\* Every handler of the component keeps its invariant.
LEMMA StepsOfCapability ==
    ASSUME CapabilityInv, CapabilityStep
    PROVE  CapabilityInv'
  BY RegisterCapabilityKeeps, CertifyCapabilityKeeps, SlashCapabilityKeeps,
     WithdrawCapabilityBondKeeps
  DEF CapabilityStep

\* No handler of the component touches a challenge's vault, the completions' id
\* counter, the clock or the treasury's name.
LEMMA CapabilitySparesReputation ==
    ASSUME CapabilityInv, CapabilityStep
    PROVE  /\ \A v \in ChallengeVaults : lamports'[v] >= lamports[v]
           /\ config # None => /\ config' # None
                               /\ config'.next_completion_id = config.next_completion_id
                               /\ config'.treasury = config.treasury
           /\ config = None => config' = None
           /\ clock' = clock
  <1> DEFINE Spared ==
          /\ \A v \in ChallengeVaults : lamports'[v] >= lamports[v]
          /\ config # None => /\ config' # None
                              /\ config'.next_completion_id = config.next_completion_id
                              /\ config'.treasury = config.treasury
          /\ config = None => config' = None
          /\ clock' = clock
  <1>1. /\ lamports \in [Accounts -> Nat]
        /\ config # None => config \in Config
        /\ capabilities \in [CapabilityKeys -> Capability \cup {None}]
    BY DEF CapabilityInv, ConfigInv, RuntimeTypeOK, ConfigTypeOK, CapabilityTypeOK
  <1>2. \A v \in ChallengeVaults : lamports[v] \in Nat
    BY <1>1, VaultAddresses DEF ChallengeVaults
  <1>3. ASSUME NEW creator \in Keys, NEW k \in CapabilityKeys, NEW bond \in CapabilityBonds,
               RegisterCapability(creator, k, bond)
        PROVE  Spared
    <2>1. /\ config # None /\ clock' = clock
          /\ config' = [config EXCEPT !.next_capability_id = @ + 1]
          /\ config.next_capability_id < MaxU64
          /\ SystemTransfer(creator, CapabilityVault(k), bond)
      BY <1>3 DEF RegisterCapability, UsesNextId, HasRoom
    <2>2. config' # None
      <3>1. config' \in Config
        BY <1>1, <2>1, RuntimeAssumption DEF Config
      <3> QED
        BY <3>1, ConfigAccountAssumption
    <2>3. \A v \in ChallengeVaults : lamports'[v] = lamports[v]
      BY <1>1, <2>1, CapabilityAssumption, OneVaultMoves
    <2> QED
      BY <1>1, <1>2, <2>1, <2>2, <2>3 DEF Config
  <1>4. ASSUME NEW signer \in Keys, NEW k \in CapabilityKeys, CertifyCapability(signer, k)
        PROVE  Spared
    BY <1>2, <1>4 DEF CertifyCapability, configVars, runtimeVars
  <1>5. ASSUME NEW signer \in Keys, NEW k \in CapabilityKeys, NEW penalty \in Penalties,
               SlashCapability(signer, k, penalty)
        PROVE  Spared
    <2> DEFINE amount == SlashedAmount(k, capabilities[k].bond_remaining - penalty, penalty)
    <2>1. /\ config # None /\ config' = config /\ clock' = clock
          /\ SystemTransfer(CapabilityVault(k), config.treasury, amount)
      BY <1>5 DEF SlashCapability, IsAuthority, configVars
    <2>2. amount \in Nat /\ config.treasury \in Keys
      BY <1>1, <2>1, VaultAddresses, CapabilityAssumption DEF SlashedAmount, Config
    <2>3. \A v \in ChallengeVaults : lamports'[v] = lamports[v]
      <3> HIDE DEF amount
      <3> QED
        BY <1>1, <2>1, <2>2, OneVaultMoves
    <2> QED
      BY <1>2, <2>1, <2>3
  <1>6. ASSUME NEW signer \in Keys, NEW k \in CapabilityKeys, WithdrawCapabilityBond(signer, k)
        PROVE  Spared
    <2>1. /\ config # None /\ config' = config /\ clock' = clock
          /\ SystemTransfer(CapabilityVault(k), signer, lamports[CapabilityVault(k)])
      BY <1>6 DEF WithdrawCapabilityBond, configVars
    <2>2. lamports[CapabilityVault(k)] \in Nat
      BY <1>1, VaultAddresses
    <2>3. \A v \in ChallengeVaults : lamports'[v] = lamports[v]
      BY <1>1, <2>1, <2>2, OneVaultMoves
    <2> QED
      BY <1>2, <2>1, <2>3
  <1> QED
    BY <1>3, <1>4, <1>5, <1>6 DEF CapabilityStep

-----------------------------------------------------------------------------
\* What is left of a bond can be withdrawn whole, slashed whole, and slashed in
\* part while both ends stay rent-exempt.
LEMMA RemaindersPayable ==
    ASSUME CapabilityInv
    PROVE  CapabilityBondBacked
  <1> SUFFICES ASSUME NEW k \in CapabilityKeys, Live(k)
               PROVE  LET vault == CapabilityVault(k)
                          remaining == capabilities[k].bond_remaining
                      IN  /\ lamports[vault] >= remaining
                          /\ remaining > 0 =>
                                 /\ remaining >= Rent
                                 /\ CanPay(lamports, vault, CreatorOf(k), lamports[vault])
                                 /\ CanPay(lamports, vault, config.treasury, lamports[vault])
                                 /\ lamports[config.treasury] >= Rent =>
                                        \A penalty \in 1 .. remaining - Rent :
                                            CanPay(lamports, vault, config.treasury, penalty)
    BY DEF CapabilityBondBacked
  <1> DEFINE vault == CapabilityVault(k)
             remaining == capabilities[k].bond_remaining
  <1>1. /\ config # None
        /\ lamports[vault] >= remaining
        /\ remaining = 0 \/ remaining >= Rent
    BY DEF CapabilityInv, RemaindersBacked, LeavesRentExempt
  <1>2. /\ remaining \in Nat
        /\ config.treasury \in Keys /\ CreatorOf(k) \in Keys
        /\ lamports \in [Accounts -> Nat]
    BY <1>1, PartsOfKeys
    DEF CapabilityInv, ConfigInv, ConfigTypeOK, CapabilityTypeOK, RuntimeTypeOK,
        Config, Capability, Live
  <1>3. ASSUME NEW key \in Keys, NEW amount \in Nat,
               amount <= lamports[vault],
               amount = lamports[vault] \/ amount + Rent <= lamports[vault],
               amount + lamports[key] >= Rent
        PROVE  CanPay(lamports, vault, key, amount)
    <2>1. /\ key \in Accounts /\ vault \in Accounts /\ key # vault
          /\ lamports[key] \in Nat /\ lamports[vault] \in Nat
      BY <1>2, VaultAddresses
    <2>2. /\ Moved(lamports, vault, key, amount)[vault] = lamports[vault] - amount
          /\ Moved(lamports, vault, key, amount)[key] = lamports[key] + amount
      BY <1>2, <2>1 DEF Moved
    <2> QED
      BY <1>3, <2>1, <2>2, RuntimeAssumption DEF CanPay, RentState
  <1>4. ASSUME NEW key \in Keys, remaining > 0
        PROVE  /\ CanPay(lamports, vault, key, lamports[vault])
               /\ lamports[key] >= Rent =>
                      \A penalty \in 1 .. remaining - Rent : CanPay(lamports, vault, key, penalty)
    <2>1. /\ lamports[key] \in Nat /\ lamports[vault] \in Nat
          /\ Rent \in Nat /\ remaining >= Rent
      BY <1>1, <1>2, <1>4, VaultAddresses, RuntimeAssumption
    <2>2. CanPay(lamports, vault, key, lamports[vault])
      BY <1>1, <1>2, <1>3, <2>1
    <2>3. ASSUME lamports[key] >= Rent, NEW penalty \in 1 .. remaining - Rent
          PROVE  CanPay(lamports, vault, key, penalty)
      BY <1>1, <1>2, <1>3, <2>1, <2>3
    <2> QED
      BY <2>2, <2>3
  <1> QED
    BY <1>1, <1>2, <1>4

-----------------------------------------------------------------------------
\* Nothing is registered, and nothing is in any vault, before the first transaction.
LEMMA InitEstablishesRegistry ==
    ASSUME RuntimeInit, ConfigInit, CapabilityInit
    PROVE  CapabilityInv
  <1>1. /\ config = None /\ pendingAdmin = None
        /\ upgradeAuthority \in AdminChoices \ {ZeroKey}
        /\ capabilities = [k \in CapabilityKeys |-> None]
        /\ index = [t \in CapabilityTypes |-> {}]
        /\ clock = 1
    BY DEF RuntimeInit, ConfigInit, CapabilityInit
  <1>2. lamports \in [Accounts -> Nat]
    BY RuntimeAssumption DEF RuntimeInit
  <1>3. ConfigInv
    BY <1>1, <1>2, RuntimeAssumption, ConfigAssumption
    DEF ConfigInv, RuntimeTypeOK, ConfigTypeOK, ConfigInRange
  <1>4. \A t \in CapabilityTypes : IsFiniteSet(index[t]) /\ Cardinality(index[t]) = 0
    BY <1>1, FS_EmptySet
  <1>5. \A k \in CapabilityKeys : ~Live(k)
    BY <1>1 DEF Live
  <1>6. IndexExact /\ IndexFinite
    BY <1>1, <1>4, <1>5, CapabilityAssumption DEF IndexExact, IndexFinite
  <1> QED
    BY <1>1, <1>3, <1>5, <1>6 DEF CapabilityInv, CapabilityTypeOK, RemaindersBacked

-----------------------------------------------------------------------------
(* The life of a record. *)

\* A record that no step touches, while the id counter does not go back.
LEMMA UntouchedRecord ==
    ASSUME CapabilityInv, NEW k \in CapabilityKeys, capabilities'[k] = capabilities[k]
    PROVE  /\ Live(k) /\ Live(k)' => SlashedOrKept(k)
           /\ Live(k)' <=> Live(k)
  <1>1. Live(k) => capabilities[k].bond_remaining \in Nat
    BY DEF CapabilityInv, CapabilityTypeOK, Capability, Live
  <1> QED
    BY <1>1 DEF SlashedOrKept, Live

LEMMA CapabilityStepsLive ==
    ASSUME CapabilityInv, CapabilityStep
    PROVE  LifecycleStep
  <1>1. /\ lamports \in [Accounts -> Nat]
        /\ capabilities \in [CapabilityKeys -> Capability \cup {None}]
        /\ None \notin Capability
        /\ config \in Config \cup {None}
    BY CapabilityAssumption
    DEF CapabilityInv, ConfigInv, RuntimeTypeOK, CapabilityTypeOK, ConfigTypeOK
  <1>2. ASSUME NEW creator \in Keys, NEW k \in CapabilityKeys, NEW bond \in CapabilityBonds,
               RegisterCapability(creator, k, bond)
        PROVE  LifecycleStep
    <2>1. /\ ~Live(k) /\ IdOf(k) = config.next_capability_id /\ config # None
          /\ \A l \in CapabilityKeys : l # k => capabilities'[l] = capabilities[l]
      BY <1>1, <1>2 DEF RegisterCapability, UsesNextId
    <2>2. config.next_capability_id \in Int
      BY <1>1, <2>1, RuntimeAssumption DEF Config
    <2> QED
      BY <2>1, <2>2, UntouchedRecord DEF LifecycleStep
  <1>3. ASSUME NEW signer \in Keys, NEW k \in CapabilityKeys, CertifyCapability(signer, k)
        PROVE  LifecycleStep
    <2>1. /\ capabilities[k] \in Capability
          /\ capabilities'[k] = [capabilities[k] EXCEPT !.certified = TRUE]
          /\ \A l \in CapabilityKeys : l # k => capabilities'[l] = capabilities[l]
      BY <1>1, <1>3 DEF CertifyCapability, Live
    <2>2. /\ capabilities'[k] \in Capability
          /\ capabilities'[k].bond_remaining = capabilities[k].bond_remaining
          /\ capabilities'[k].slashed = capabilities[k].slashed
          /\ capabilities'[k].certified
          /\ capabilities[k].bond_remaining \in Nat
      BY <2>1 DEF Capability
    <2>3. SlashedOrKept(k)
      BY <2>2 DEF SlashedOrKept
    <2> QED
      BY <1>1, <2>1, <2>2, <2>3, UntouchedRecord DEF LifecycleStep, Live
  <1>4. ASSUME NEW signer \in Keys, NEW k \in CapabilityKeys, NEW penalty \in Penalties,
               SlashCapability(signer, k, penalty)
        PROVE  LifecycleStep
    <2> DEFINE vault == CapabilityVault(k)
               remaining == capabilities[k].bond_remaining - penalty
               amount == SlashedAmount(k, remaining, penalty)
    <2>1. /\ config # None
          /\ capabilities[k] \in Capability
          /\ penalty > 0 /\ penalty <= capabilities[k].bond_remaining
          /\ SystemTransfer(vault, config.treasury, amount)
          /\ capabilities'[k] =
                 [[capabilities[k] EXCEPT !.bond_remaining = remaining] EXCEPT !.slashed = TRUE]
          /\ \A l \in CapabilityKeys : l # k => capabilities'[l] = capabilities[l]
      BY <1>1, <1>4 DEF SlashCapability, IsAuthority, Live
    <2>2. /\ penalty \in Nat /\ capabilities[k].bond_remaining \in Nat
          /\ remaining \in Nat
      BY <2>1, CapabilityAssumption DEF Capability
    <2>3. /\ vault \in Accounts /\ config.treasury \in Accounts /\ vault # config.treasury
          /\ lamports[vault] \in Nat /\ amount \in Nat
          /\ amount = IF remaining = 0 THEN lamports[vault] ELSE penalty
      BY <1>1, <2>1, <2>2, VaultAddresses DEF Config, SlashedAmount
    <2>4. Paid(k, config.treasury, amount)
      BY <1>1, <2>1, <2>3, TransferEffect DEF Paid
    <2>5. /\ capabilities'[k] \in Capability
          /\ capabilities'[k].bond_remaining = remaining
          /\ capabilities'[k].slashed
          /\ capabilities'[k].certified = capabilities[k].certified
      <3> HIDE DEF remaining
      <3> QED
        BY <2>1, <2>2 DEF Capability
    <2>6. SlashedOrKept(k)
      BY <2>1, <2>2, <2>3, <2>4, <2>5 DEF SlashedOrKept
    <2> QED
      BY <1>1, <2>1, <2>5, <2>6, UntouchedRecord DEF LifecycleStep, Live
  <1>5. ASSUME NEW signer \in Keys, NEW k \in CapabilityKeys,
               WithdrawCapabilityBond(signer, k)
        PROVE  LifecycleStep
    <2> DEFINE vault == CapabilityVault(k)
    <2>1. /\ Live(k) /\ signer = CreatorOf(k) /\ capabilities[k].bond_remaining > 0
          /\ SystemTransfer(vault, signer, lamports[vault])
          /\ capabilities'[k] = None
          /\ \A l \in CapabilityKeys : l # k => capabilities'[l] = capabilities[l]
      BY <1>1, <1>5 DEF WithdrawCapabilityBond, HasBond
    <2>2. /\ vault \in Accounts /\ signer \in Accounts /\ vault # signer
          /\ lamports[vault] \in Nat
      BY <1>1, VaultAddresses
    <2>3. Paid(k, CreatorOf(k), lamports[vault])
      BY <1>1, <2>1, <2>2, TransferEffect DEF Paid
    <2> QED
      BY <2>1, <2>3, UntouchedRecord DEF LifecycleStep, Live
  <1> QED
    BY <1>2, <1>3, <1>4, <1>5 DEF CapabilityStep
=============================================================================
