--------------------------- MODULE SolanaRuntime ---------------------------
(***************************************************************************)
(* What the reputation program takes from the Solana runtime: lamport      *)
(* balances, System-program transfers under the rent rule, the program     *)
(* addresses its vaults live at, checked u64 counters and the Clock        *)
(* sysvar.  It is modelled from how programs/taop_reputation uses it.      *)
(*                                                                         *)
(* A transaction is atomic, so a step of the specification is a            *)
(* transaction that succeeds; one that fails changes nothing, which is a   *)
(* stuttering step.  Fees and the rent of program-owned records are left   *)
(* out: no property is about them.                                         *)
(***************************************************************************)
EXTENDS Integers

CONSTANTS
    Keys,       \* wallets that can sign: agents, challengers, authorities...
    ZeroKey,    \* Pubkey::default(), which nobody can sign for
    None,       \* an account that does not exist, an Option that is None
    Rent,       \* Rent::minimum_balance(0)
    CapabilityTypes,
    MaxU64,     \* u64::MAX: a counter that has reached it rejects checked_add
    Funds,      \* the wallets' initial balances
    Gifts,      \* the amounts wallets send outside the program...
    GiftTargets,\* ... and the accounts they send them to
    MaxClock    \* bound on the clock

Seqs == 0 .. MaxU64 - 1
CompletionKeys == Keys \X Seqs
CapabilityKeys == CapabilityTypes \X Keys \X (1 .. MaxU64 - 1)

ChallengeVault(c) == <<"challenge_vault", c>>
CapabilityVault(k) == <<"capability_vault", k>>
ChallengeVaults == {ChallengeVault(c) : c \in CompletionKeys}
CapabilityVaults == {CapabilityVault(k) : k \in CapabilityKeys}
Vaults == ChallengeVaults \cup CapabilityVaults
Accounts == Keys \cup Vaults

ASSUME RuntimeAssumption ==
    /\ Rent \in Nat \ {0}
    /\ MaxU64 \in Nat \ {0}
    /\ MaxClock \in Nat
    /\ Funds \in [Keys -> Nat]
    /\ Gifts \subseteq Nat /\ GiftTargets \subseteq Accounts
    /\ ZeroKey \notin Keys /\ None \notin Keys /\ None # ZeroKey
    \* A program-derived address is off the curve: no key pair has it.
    /\ Keys \cap Vaults = {}

VARIABLES
    lamports,   \* the balance of every account, 0 when it does not exist
    clock       \* Clock::unix_timestamp

runtimeVars == <<lamports, clock>>

RuntimeTypeOK ==
    /\ lamports \in [Accounts -> Nat]
    /\ clock \in 1 .. MaxClock + 1

RuntimeInit ==
    /\ lamports = [a \in Accounts |-> IF a \in Keys THEN Funds[a] ELSE 0]
    /\ clock = 1

\* u64::checked_add(1) succeeds.
Unchecked(counter) == TRUE  \* mutant: the sum is not checked
HasRoom(counter) == counter < MaxU64

Moved(balance, from, to, amount) ==
    [balance EXCEPT ![from] = @ - amount, ![to] = @ + amount]

\* A transaction may leave an account empty (it is purged) or rent-exempt.
RentState(balance) == balance = 0 \/ balance >= Rent

CanPay(balance, from, to, amount) ==
    /\ balance[from] >= amount
    /\ RentState(Moved(balance, from, to, amount)[from])
    /\ RentState(Moved(balance, from, to, amount)[to])

SystemTransfer(from, to, amount) ==
    /\ CanPay(lamports, from, to, amount)
    /\ lamports' = Moved(lamports, from, to, amount)

\* An owner spends from a wallet (the treasury is one), or anybody donates to
\* a vault: no program instruction is involved and none can prevent it.
WalletTransfer(from, to, amount) ==
    /\ SystemTransfer(from, to, amount)
    /\ UNCHANGED clock

\* The cluster's clock does not run backwards.  MaxClock bounds it.
Tick ==
    /\ clock <= MaxClock
    /\ clock' = clock + 1
    /\ UNCHANGED lamports

RuntimeStep ==
    \/ \E from \in Keys, to \in GiftTargets, amount \in Gifts :
           WalletTransfer(from, to, amount)
    \/ Tick
=============================================================================
