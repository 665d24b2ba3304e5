------------------------- MODULE TransactionAccounts -------------------------
(***************************************************************************)
(* packages/solana/src/idl/taop_reputation.ts: the accounts that a          *)
(* transaction of each instruction names.  The runtime locks them before it *)
(* runs the transaction, for writing only those that are declared writable: *)
(* transactions that lock different accounts run in parallel, what is       *)
(* written to another account is lost or rejected, and nothing is taken     *)
(* from a wallet that has not signed.                                       *)
(*                                                                         *)
(* Fees, and with them the fee payer's lock, are left out.                  *)
(***************************************************************************)
EXTENDS TaopProgram

-----------------------------------------------------------------------------
(* Addresses by their seeds.  Wallets and vaults are named as in SolanaRuntime. *)

ConfigAccount == <<"config">>
PendingAccount == <<"pending-admin">>
AgentAccount(authority) == <<"agent", authority>>
CompletionAccount(c) == <<"completion", c>>
ChallengeAccount(c) == <<"challenge", c>>
CapabilityAccount(k) == <<"capability", k>>
IndexAccount(type) == <<"cap-index", type>>

-----------------------------------------------------------------------------
(* The instructions: who signs, and what is declared writable. *)

InitializeConfigAccounts(admin, treasury) ==
    [signer |-> admin, writable |-> {ConfigAccount, admin, treasury}]
UpdateConfigAccounts(admin) == [signer |-> admin, writable |-> {ConfigAccount}]
SetCertifierAccounts(admin) == [signer |-> admin, writable |-> {ConfigAccount}]
TransferAdminAccounts(admin) == [signer |-> admin, writable |-> {PendingAccount, admin}]
AcceptAdminAccounts(newAdmin) ==
    [signer |-> newAdmin, writable |-> {ConfigAccount, PendingAccount, newAdmin}]

RegisterAgentAccounts(authority) ==
    [signer |-> authority, writable |-> {AgentAccount(authority), authority}]
AttestCompletionAccounts(authority, seq) ==
    [signer |-> authority,
     writable |-> {ConfigAccount, AgentAccount(authority),
                   CompletionAccount(<<authority, seq>>), authority}]
ChallengeCompletionAccounts(challenger, c) ==
    [signer |-> challenger,
     writable |-> {CompletionAccount(c), ChallengeAccount(c), ChallengeVault(c), challenger}]
ResolveWithoutAgent(authority, c, challenger, treasury) ==  \* mutant: agent is read-only
    [signer |-> authority,
     writable |-> {CompletionAccount(c), ChallengeAccount(c), ChallengeVault(c),
                   challenger, treasury, authority}]
ResolveChallengeAccounts(authority, c, challenger, treasury) ==
    [signer |-> authority,
     writable |-> {CompletionAccount(c), AgentAccount(c[1]), ChallengeAccount(c),
                   ChallengeVault(c), challenger, treasury, authority}]
CancelChallengeAccounts(challenger, c) ==
    [signer |-> challenger,
     writable |-> {CompletionAccount(c), ChallengeAccount(c), ChallengeVault(c), challenger}]

RegisterCapabilityAccounts(creator, k) ==
    [signer |-> creator,
     writable |-> {ConfigAccount, IndexAccount(TypeOf(k)), CapabilityAccount(k),
                   CapabilityVault(k), creator}]
CertifyCapabilityAccounts(authority, k) ==
    [signer |-> authority, writable |-> {CapabilityAccount(k)}]
SlashCapabilityAccounts(authority, k, treasury) ==
    [signer |-> authority, writable |-> {CapabilityAccount(k), CapabilityVault(k), treasury}]
WithdrawCapabilityBondAccounts(creator, k) ==
    [signer |-> creator,
     writable |-> {CapabilityAccount(k), CapabilityVault(k), IndexAccount(TypeOf(k)), creator}]

-----------------------------------------------------------------------------
(* What a step changes. *)

ChangesOnly(accounts) ==
    /\ config' # config => ConfigAccount \in accounts
    /\ pendingAdmin' # pendingAdmin => PendingAccount \in accounts
    /\ \A a \in Keys : agents'[a] # agents[a] => AgentAccount(a) \in accounts
    /\ \A c \in CompletionKeys :
           /\ completions'[c] # completions[c] => CompletionAccount(c) \in accounts
           /\ challenges'[c] # challenges[c] => ChallengeAccount(c) \in accounts
    /\ \A k \in CapabilityKeys :
           capabilities'[k] # capabilities[k] => CapabilityAccount(k) \in accounts
    /\ \A t \in CapabilityTypes : index'[t] # index[t] => IndexAccount(t) \in accounts
    /\ \A a \in Accounts : lamports'[a] # lamports[a] => a \in accounts

PaidOnlyBy(signer) == \A key \in Keys : lamports'[key] < lamports[key] => key = signer

Within(accounts) == ChangesOnly(accounts.writable) /\ PaidOnlyBy(accounts.signer)

ConfigStepWithin ==
    \/ \E signer \in Keys, certifier \in CertifierChoices, treasury \in TreasuryChoices,
          bond \in BondChoices, decay \in DecayChoices :
           /\ InitializeConfig(signer, certifier, treasury, bond, decay)
           /\ Within(InitializeConfigAccounts(signer, treasury))
    \/ \E signer \in Keys, bond \in BondChoices \cup {None},
          decay \in DecayChoices \cup {None}, paused \in PauseChoices \cup {None} :
           UpdateConfig(signer, bond, decay, paused) /\ Within(UpdateConfigAccounts(signer))
    \/ \E signer \in Keys, certifier \in CertifierChoices :
           SetCertifier(signer, certifier) /\ Within(SetCertifierAccounts(signer))
    \/ \E signer \in Keys, newAdmin \in AdminChoices :
           TransferAdmin(signer, newAdmin) /\ Within(TransferAdminAccounts(signer))
    \/ \E signer \in Keys : AcceptAdmin(signer) /\ Within(AcceptAdminAccounts(signer))

ReputationStepWithin ==
    \/ \E authority \in Keys, profile \in Profiles :
           RegisterAgent(authority, profile) /\ Within(RegisterAgentAccounts(authority))
    \/ \E authority \in Keys, seq \in Seqs :
           AttestCompletion(authority, seq) /\ Within(AttestCompletionAccounts(authority, seq))
    \/ \E signer \in Keys, c \in CompletionKeys :
           ChallengeCompletion(signer, c) /\ Within(ChallengeCompletionAccounts(signer, c))
    \/ \E signer \in Keys, c \in CompletionKeys, upheld \in BOOLEAN :
           /\ ResolveChallenge(signer, c, upheld)
           /\ Within(ResolveChallengeAccounts(signer, c, challenges[c].challenger,
                                              config.treasury))
    \/ \E signer \in Keys, c \in CompletionKeys :
           CancelChallenge(signer, c) /\ Within(CancelChallengeAccounts(signer, c))

CapabilityStepWithin ==
    \/ \E creator \in Keys, k \in CapabilityKeys, bond \in CapabilityBonds :
           RegisterCapability(creator, k, bond) /\ Within(RegisterCapabilityAccounts(creator, k))
    \/ \E signer \in Keys, k \in CapabilityKeys :
           CertifyCapability(signer, k) /\ Within(CertifyCapabilityAccounts(signer, k))
    \/ \E signer \in Keys, k \in CapabilityKeys, penalty \in Penalties :
           /\ SlashCapability(signer, k, penalty)
           /\ Within(SlashCapabilityAccounts(signer, k, config.treasury))
    \/ \E signer \in Keys, k \in CapabilityKeys :
           WithdrawCapabilityBond(signer, k) /\ Within(WithdrawCapabilityBondAccounts(signer, k))

\* Not by the program: the loader, wallets and the clock.
OutsideStep ==
    \/ UNCHANGED <<config, pendingAdmin, runtimeVars>>
    \/ RuntimeStep /\ UNCHANGED configVars

-----------------------------------------------------------------------------
(* Properties *)

DeclaredStep ==
    \/ UNCHANGED <<reputationVars, capabilityVars>> /\ (OutsideStep \/ ConfigStepWithin)
    \/ UNCHANGED capabilityVars /\ ReputationStepWithin
    \/ UNCHANGED reputationVars /\ CapabilityStepWithin

\* Whatever a handler changes, a trailing sweep, a pruned index or an agent's counter
\* included, is in an account its transaction has locked for writing, and only who
\* signed pays: transactions the runtime runs in parallel cannot disturb each other,
\* so that the interleaving of whole handlers stands for them.
DeclaredAccountsOnly == [][DeclaredStep]_vars
=============================================================================
