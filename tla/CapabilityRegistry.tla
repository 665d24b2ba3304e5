------------------------- MODULE CapabilityRegistry -------------------------
(***************************************************************************)
(* instructions/capability.rs: bonded capability records, the index that   *)
(* lists those of a type, certification, slashing and withdrawal.          *)
(*                                                                         *)
(* A record lives at the address of its (type, creator, id), its vault at  *)
(* one derived from it.  An index holds the addresses of records; the      *)
(* program never reads their order, so an index is a set.                  *)
(***************************************************************************)
EXTENDS ProtocolConfig, FiniteSets

CONSTANTS
    IndexCapacity,      \* CAP_INDEX_CAPACITY
    CapabilityBonds,    \* the bonds creators offer
    Penalties           \* the penalties authorities ask for

VARIABLES
    capabilities,   \* (type, creator, id) -> Capability account
    index           \* type -> CapabilityIndex.capabilities

capabilityVars == <<capabilities, index>>

Capability ==
    [bond_remaining : Nat, certified : BOOLEAN, slashed : BOOLEAN, active : BOOLEAN]

ASSUME CapabilityAssumption ==
    /\ IndexCapacity \in Nat \ {0}
    /\ CapabilityBonds \subseteq Nat
    /\ Penalties \subseteq Nat
    /\ None \notin Capability

CapabilityTypeOK ==
    /\ capabilities \in [CapabilityKeys -> Capability \cup {None}]
    /\ index \in [CapabilityTypes -> SUBSET CapabilityKeys]

CapabilityInit ==
    /\ capabilities = [k \in CapabilityKeys |-> None]
    /\ index = [t \in CapabilityTypes |-> {}]

TypeOf(k) == k[1]
CreatorOf(k) == k[2]
IdOf(k) == k[3]
Live(k) == capabilities[k] # None

-----------------------------------------------------------------------------
UsesIssuedId(k) == IdOf(k) <= config.next_capability_id  \* mutant: an old id will do
UsesNextId(k) == IdOf(k) = config.next_capability_id

RegisterCapability(creator, k, bond) ==
    /\ config # None /\ ~config.paused
    /\ bond > 0
    /\ bond >= Rent
    /\ UsesNextId(k)
    /\ CreatorOf(k) = creator
    /\ ~Live(k)
    /\ SystemTransfer(creator, CapabilityVault(k), bond)
    /\ HasRoom(config.next_capability_id)
    /\ config' = [config EXCEPT !.next_capability_id = @ + 1]
    /\ capabilities' = [capabilities EXCEPT ![k] =
                           [bond_remaining |-> bond, certified |-> FALSE,
                            slashed |-> FALSE, active |-> TRUE]]
    /\ Cardinality(index[TypeOf(k)]) < IndexCapacity
    /\ index' = [index EXCEPT ![TypeOf(k)] = @ \cup {k}]
    /\ UNCHANGED <<pendingAdmin, upgradeAuthority, clock>>

\* A slashed record can be certified: only active is checked.
CertifyCapability(signer, k) ==
    /\ IsAuthority(signer)
    /\ Live(k) /\ capabilities[k].active
    /\ capabilities' = [capabilities EXCEPT ![k].certified = TRUE]
    /\ UNCHANGED <<index, configVars, runtimeVars>>

\* The last slash takes the whole vault; an earlier one leaves it rent-exempt.
SlashedPenalty(k, remaining, penalty) == penalty  \* mutant: donations stay behind
SlashedAmount(k, remaining, penalty) ==
    IF remaining = 0 THEN lamports[CapabilityVault(k)] ELSE penalty

LeavesAnything(remaining) == TRUE   \* mutant: InvalidPenalty is never raised
LeavesRentExempt(remaining) == remaining = 0 \/ remaining >= Rent

SlashCapability(signer, k, penalty) ==
    LET remaining == capabilities[k].bond_remaining - penalty
    IN  /\ IsAuthority(signer)
        /\ Live(k) /\ capabilities[k].active
        /\ penalty > 0
        /\ penalty <= capabilities[k].bond_remaining
        /\ lamports[CapabilityVault(k)] >= capabilities[k].bond_remaining
        /\ LeavesRentExempt(remaining)
        /\ SystemTransfer(CapabilityVault(k), config.treasury,
                          SlashedAmount(k, remaining, penalty))
        /\ capabilities' = [capabilities EXCEPT ![k].bond_remaining = remaining,
                                                ![k].slashed = TRUE]
        /\ UNCHANGED <<index, configVars, clock>>

AnyBond(k) == TRUE  \* mutant: BondStillSlashed is never raised
HasBond(k) == capabilities[k].bond_remaining > 0

IndexKept(k) == index   \* mutant: the pointer of a closed record stays
PrunedIndex(k) == [index EXCEPT ![TypeOf(k)] = @ \ {k}]

\* The record is pruned from its index and closed.
WithdrawCapabilityBond(signer, k) ==
    /\ config # None
    /\ Live(k) /\ capabilities[k].active
    /\ signer = CreatorOf(k)
    /\ HasBond(k)
    /\ lamports[CapabilityVault(k)] >= capabilities[k].bond_remaining
    /\ SystemTransfer(CapabilityVault(k), signer, lamports[CapabilityVault(k)])
    /\ index' = PrunedIndex(k)
    /\ capabilities' = [capabilities EXCEPT ![k] = None]
    /\ UNCHANGED <<configVars, clock>>

CapabilityStep ==
    \/ \E creator \in Keys, k \in CapabilityKeys, bond \in CapabilityBonds :
           RegisterCapability(creator, k, bond)
    \/ \E signer \in Keys, k \in CapabilityKeys : CertifyCapability(signer, k)
    \/ \E signer \in Keys, k \in CapabilityKeys, penalty \in Penalties :
           SlashCapability(signer, k, penalty)
    \/ \E signer \in Keys, k \in CapabilityKeys : WithdrawCapabilityBond(signer, k)

-----------------------------------------------------------------------------
(* The component by itself, beside the configuration it reads. *)

capabilitySystemVars == <<runtimeVars, configVars, capabilityVars>>

CapabilitySystemInit ==
    /\ RuntimeInit
    /\ ConfigInit
    /\ CapabilityInit

CapabilitySystemNext ==
    \/ RuntimeStep /\ UNCHANGED <<configVars, capabilityVars>>
    \/ ConfigStep /\ UNCHANGED capabilityVars
    \/ CapabilityStep

CapabilitySystem == CapabilitySystemInit /\ [][CapabilitySystemNext]_capabilitySystemVars

-----------------------------------------------------------------------------
(* Properties *)

\* What is left of a live record's bond is in its vault, nothing or rent-exempt,
\* so that whatever was donated, slashed or reconfigured before, the handlers can
\* pay: the creator can withdraw all of it, the authority can slash all of it, or
\* any part that leaves the rest rent-exempt while the treasury (which
\* initialize_config funds for that) is, and no call fails with VaultBalanceMismatch.
CapabilityBondBacked ==
    \A k \in CapabilityKeys :
        Live(k) =>
            LET vault == CapabilityVault(k)
                remaining == capabilities[k].bond_remaining
            IN  /\ lamports[vault] >= remaining
                /\ remaining > 0 =>
                       /\ remaining >= Rent
                       /\ CanPay(lamports, vault, CreatorOf(k), lamports[vault])
                       /\ CanPay(lamports, vault, config.treasury, lamports[vault])
                       /\ lamports[config.treasury] >= Rent =>
                              \A penalty \in 1 .. remaining - Rent :
                                  CanPay(lamports, vault, config.treasury, penalty)

\* The discovery index of a type lists exactly its live records, within its
\* capacity, and ids are never shared, whatever order registrations, slashes and
\* withdrawals of several creators come in.  The sources disagree about a withdrawn
\* record: docs/architecture.md says both that it leaves the index (149-151) and that
\* its entry stays for good (77, 90-92, 309-311), a comment that it may stay
\* (capability.rs:245-246).  The handler removes it (275-279), which is stated here.
IndexExact ==
    /\ \A t \in CapabilityTypes :
           /\ index[t] = {k \in CapabilityKeys : TypeOf(k) = t /\ Live(k)}
           /\ Cardinality(index[t]) <= IndexCapacity
    /\ \A k, l \in CapabilityKeys :
           Live(k) =>
               /\ config # None /\ IdOf(k) < config.next_capability_id
               /\ Live(l) /\ IdOf(k) = IdOf(l) => k = l

Paid(k, key, amount) ==
    /\ lamports'[CapabilityVault(k)] = lamports[CapabilityVault(k)] - amount
    /\ lamports'[key] = lamports[key] + amount

SlashedOrKept(k) ==
    LET remaining == capabilities'[k].bond_remaining
        slashed == capabilities[k].bond_remaining - remaining
    IN  /\ slashed >= 0
        /\ slashed > 0 =>
               /\ capabilities'[k].slashed
               /\ Paid(k, config.treasury,
                       IF remaining = 0 THEN lamports[CapabilityVault(k)] ELSE slashed)
        /\ capabilities[k].slashed => capabilities'[k].slashed
        /\ capabilities[k].certified => capabilities'[k].certified

LifecycleStep ==
    \A k \in CapabilityKeys :
        /\ Live(k) /\ Live(k)' => SlashedOrKept(k)
        /\ Live(k) /\ ~Live(k)' =>
               /\ capabilities[k].bond_remaining > 0
               /\ Paid(k, CreatorOf(k), lamports[CapabilityVault(k)])
        /\ ~Live(k) /\ config # None /\ IdOf(k) < config.next_capability_id => ~Live(k)'

\* The life of a record: its bond only shrinks, by slashes whose amounts the treasury
\* receives, the last of them with whatever was donated; marks are never taken back; it
\* ends when the creator receives the whole vault, never after a full slash, and its
\* address is not used again.
CapabilityLifecycle == [][LifecycleStep]_<<lamports, capabilityVars>>

\* docs/architecture.md, section 3, of pruning on withdrawal: "capacity is reclaimed
\* and a full index cannot be used to block new registrations".
FullIndexReclaimable ==
    \A t \in CapabilityTypes :
        Cardinality(index[t]) = IndexCapacity =>
            \E k \in index[t] : capabilities[k].bond_remaining > 0
=============================================================================
