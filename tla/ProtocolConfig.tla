--------------------------- MODULE ProtocolConfig ---------------------------
(***************************************************************************)
(* instructions/config.rs: the Config singleton, its one initialization by *)
(* the program's upgrade authority, the admin's updates and the two-step   *)
(* admin handover.                                                         *)
(***************************************************************************)
EXTENDS SolanaRuntime

CONSTANTS
    BondChoices,        \* the challenge bonds an admin may ask for
    DecayChoices,       \* the decay periods an admin may ask for
    PauseChoices,       \* what an admin may set the pause to
    AdminChoices,       \* the keys proposed as admin or upgrade authority
    CertifierChoices,   \* the keys named certifier
    TreasuryChoices,    \* the accounts named treasury
    MaxDecay            \* MAX_DECAY_PERIOD_SECS

ASSUME ConfigAssumption ==
    /\ BondChoices \subseteq Nat
    /\ DecayChoices \subseteq Nat
    /\ PauseChoices \subseteq BOOLEAN
    /\ AdminChoices \subseteq Keys \cup {ZeroKey}
    /\ CertifierChoices \subseteq Keys \cup {ZeroKey}
    /\ TreasuryChoices \subseteq Keys \cup {ZeroKey}
    /\ MaxDecay \in Nat \ {0}

VARIABLES
    config,             \* the Config account
    pendingAdmin,       \* PendingAdmin.new_admin
    upgradeAuthority    \* of the deployed program; None once it is revoked

configVars == <<config, pendingAdmin, upgradeAuthority>>

Config ==
    [admin : Keys, certifier : Keys, treasury : Keys,
     challenge_bond_lamports : Nat, decay_period_secs : Nat, paused : BOOLEAN,
     next_completion_id : 1 .. MaxU64, next_capability_id : 1 .. MaxU64]

ASSUME ConfigAccountAssumption == None \notin Config

ConfigTypeOK ==
    /\ config \in Config \cup {None}
    /\ pendingAdmin \in Keys \cup {None}
    /\ upgradeAuthority \in Keys \cup {None}

ConfigInit ==
    /\ config = None
    /\ pendingAdmin = None
    /\ upgradeAuthority \in AdminChoices \ {ZeroKey}

\* The loader hands the upgrade authority over, or revokes it.  Only
\* InitializeConfig reads it, so it is left alone afterwards.
SetUpgradeAuthority(authority) ==
    /\ config = None
    /\ upgradeAuthority # None
    /\ upgradeAuthority' = authority
    /\ UNCHANGED <<config, pendingAdmin, runtimeVars>>

ValidBondAny(bond) == bond >= 0     \* mutant: any amount of lamports
ValidBond(bond) == bond >= Rent
ValidDecay(period) == 0 < period /\ period <= MaxDecay

InitializeConfig(signer, certifier, treasury, bond, decay) ==
    /\ config = None
    /\ signer = upgradeAuthority
    /\ ValidBond(bond)
    /\ ValidDecay(decay)
    /\ certifier # ZeroKey
    /\ treasury # ZeroKey
    /\ SystemTransfer(signer, treasury, Rent)
    /\ config' = [admin |-> signer, certifier |-> certifier, treasury |-> treasury,
                  challenge_bond_lamports |-> bond, decay_period_secs |-> decay,
                  paused |-> FALSE, next_completion_id |-> 1, next_capability_id |-> 1]
    /\ UNCHANGED <<pendingAdmin, upgradeAuthority, clock>>

\* Each argument is an Option: None leaves the field as it is.
OrElse(option, value) == IF option = None THEN value ELSE option

UpdateConfig(signer, bond, decay, paused) ==
    /\ config # None
    /\ signer = config.admin
    /\ bond # None => ValidBond(bond)
    /\ decay # None => ValidDecay(decay)
    /\ config' = [config EXCEPT !.challenge_bond_lamports = OrElse(bond, @),
                                !.decay_period_secs = OrElse(decay, @),
                                !.paused = OrElse(paused, @)]
    /\ UNCHANGED <<pendingAdmin, upgradeAuthority, runtimeVars>>

SetCertifier(signer, certifier) ==
    /\ config # None
    /\ signer = config.admin
    /\ certifier # ZeroKey
    /\ config' = [config EXCEPT !.certifier = certifier]
    /\ UNCHANGED <<pendingAdmin, upgradeAuthority, runtimeVars>>

\* A second proposal replaces the first.
TransferAdmin(signer, newAdmin) ==
    /\ config # None
    /\ signer = config.admin
    /\ newAdmin # ZeroKey
    /\ pendingAdmin' = newAdmin
    /\ UNCHANGED <<config, upgradeAuthority, runtimeVars>>

\* Mutant: accepting leaves the proposal's account open.
AcceptAdminOpen(signer) ==
    /\ config # None
    /\ pendingAdmin = signer
    /\ config' = [config EXCEPT !.admin = signer]
    /\ UNCHANGED <<pendingAdmin, upgradeAuthority, runtimeVars>>

\* The proposed key accepts; the proposal's account is closed.
AcceptAdmin(signer) ==
    /\ config # None
    /\ pendingAdmin = signer
    /\ config' = [config EXCEPT !.admin = signer]
    /\ pendingAdmin' = None
    /\ UNCHANGED <<upgradeAuthority, runtimeVars>>

IsAuthority(key) == config # None /\ key \in {config.admin, config.certifier}

ConfigStep ==
    \/ \E authority \in (AdminChoices \ {ZeroKey}) \cup {None} : SetUpgradeAuthority(authority)
    \/ \E signer \in Keys, certifier \in CertifierChoices, treasury \in TreasuryChoices,
          bond \in BondChoices, decay \in DecayChoices :
           InitializeConfig(signer, certifier, treasury, bond, decay)
    \/ \E signer \in Keys, bond \in BondChoices \cup {None},
          decay \in DecayChoices \cup {None}, paused \in PauseChoices \cup {None} :
           UpdateConfig(signer, bond, decay, paused)
    \/ \E signer \in Keys, certifier \in CertifierChoices : SetCertifier(signer, certifier)
    \/ \E signer \in Keys, newAdmin \in AdminChoices : TransferAdmin(signer, newAdmin)
    \/ \E signer \in Keys : AcceptAdmin(signer)

-----------------------------------------------------------------------------
(* The component by itself. *)

configSystemVars == <<runtimeVars, configVars>>

ConfigSystemInit ==
    /\ RuntimeInit
    /\ ConfigInit

ConfigSystemNext ==
    \/ RuntimeStep /\ UNCHANGED configVars
    \/ ConfigStep

ConfigSystem == ConfigSystemInit /\ [][ConfigSystemNext]_configSystemVars

-----------------------------------------------------------------------------
(* Properties *)

\* A configured challenge bond can always fund its vault and a configured decay
\* period always decays, however the admin updates them one at a time.
ConfigInRange ==
    config # None => /\ config.challenge_bond_lamports >= Rent
                     /\ config.decay_period_secs \in 1 .. MaxDecay

HandoverStep ==
    /\ config = None /\ config' # None => config'.admin = upgradeAuthority
    /\ config # None =>
           /\ config' # None
           /\ config'.treasury = config.treasury
           /\ config'.next_completion_id >= config.next_completion_id
           /\ config'.next_capability_id >= config.next_capability_id
           /\ config'.admin # config.admin =>
                  config'.admin = pendingAdmin /\ pendingAdmin' = None
           /\ pendingAdmin' \notin {pendingAdmin, None} =>
                  config'.admin = config.admin
    /\ config = None => pendingAdmin' = pendingAdmin

\* Only the upgrade authority becomes the first admin; the Config account never goes
\* away or changes its treasury, and its counters never go back; the admin role
\* moves only to a key that was proposed and accepts, which uses the proposal up, so
\* that no proposal outlives the admin who made it.
AdminHandover == [][HandoverStep]_configVars
=============================================================================
