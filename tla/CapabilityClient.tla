-------------------------- MODULE CapabilityClient --------------------------
(***************************************************************************)
(* packages/solana/src/client.ts, the calls about capabilities, and the    *)
(* reclaim mode of examples/solana-agent, which is made of them.  As in    *)
(* ReputationClient a call reads accounts one request at a time and submits *)
(* a transaction built from what it read, while anybody, the same wallet   *)
(* in another process included, changes the chain in between.              *)
(*                                                                         *)
(* The creators' scores are the business of Reputation: here any of them   *)
(* may be below a minimum when it is read.  A listing is a set: its ranking *)
(* is left out.                                                            *)
(***************************************************************************)
EXTENDS CapabilityRegistry

CONSTANT Wallet     \* the key the session signs with

ASSUME CapabilityClientAssumption == Wallet \in Keys

VARIABLES
    call,       \* the call in progress, with what it has read; None between calls
    reclaim     \* the reclaim loop that makes the calls; None when there is none

sessionVars == <<call, reclaim>>
ledgerVars == <<runtimeVars, configVars, capabilityVars>>

\* Unread marks what has not been answered yet, Missing an account that is not there.
Unread == None
Missing == None

\* id is the one that the caller gives, or Unread.
RegistrationOf(type, bond, id) ==
    [op |-> "register", type |-> type, bond |-> bond, id |-> id, funded |-> FALSE]
CertificationOf(k) == [op |-> "certify", target |-> k]
SlashOf(k, penalty) == [op |-> "slash", target |-> k, penalty |-> penalty, treasury |-> Unread]
WithdrawalOf(k) == [op |-> "withdraw", target |-> k, found |-> FALSE]

Unslashed(k) == Live(k) /\ capabilities[k].active /\ ~capabilities[k].slashed
Eligible(k, uncertifiedToo) ==
    Unslashed(k) /\ (uncertifiedToo \/ capabilities[k].certified)

\* selective is a minScore above 0; before, which the code does not have, is what a
\* listing made at once would hold.
DiscoveryOf(type, selective, uncertifiedToo) ==
    [op |-> "discover", type |-> type, selective |-> selective,
     uncertifiedToo |-> uncertifiedToo, keys |-> Unread, records |-> Unread,
     low |-> Unread,
     before |-> {k \in CapabilityKeys : TypeOf(k) = type /\ Eligible(k, uncertifiedToo)}]

\* The ids that a record may have: the program rejects any other.
GivenIds == 1 .. MaxU64 - 1

Requests ==
    {RegistrationOf(type, bond, id) :
         type \in CapabilityTypes, bond \in CapabilityBonds, id \in GivenIds \cup {Unread}}
    \cup {CertificationOf(k) : k \in CapabilityKeys}
    \cup {SlashOf(k, penalty) : k \in CapabilityKeys, penalty \in Penalties}
    \cup {WithdrawalOf(k) : k \in CapabilityKeys}

Calling(op) == call # None /\ call.op = op

SessionInit ==
    /\ call = None
    /\ reclaim = None

-----------------------------------------------------------------------------
(* Steps every call is made of. *)

Begin(request) ==
    /\ call = None /\ reclaim = None
    /\ call' = request
    /\ UNCHANGED <<reclaim, ledgerVars>>

Answer(updated) ==
    /\ call' = updated
    /\ UNCHANGED <<reclaim, ledgerVars>>

\* The call throws: the SDK refuses it (the session has no wallet, the balance is too
\* low), a request fails, or the transaction is rejected.  Nothing in the reclaim loop
\* catches it.
Throw ==
    /\ call # None
    /\ call' = None
    /\ reclaim' = None
    /\ UNCHANGED ledgerVars

Return ==
    /\ call' = None
    /\ UNCHANGED reclaim

-----------------------------------------------------------------------------
(* registerCapability: the id is read when the caller gives none, the balance is
   checked, and the id read names the address of the record to create. *)

ReadCapabilityId ==
    /\ Calling("register") /\ call.id = Unread
    /\ config # None
    /\ Answer([call EXCEPT !.id = config.next_capability_id])

CheckRegistrationBalance ==
    /\ Calling("register") /\ call.id # Unread /\ ~call.funded
    /\ lamports[Wallet] >= call.bond
    /\ Answer([call EXCEPT !.funded = TRUE])

SubmitRegistration ==
    /\ Calling("register") /\ call.funded
    /\ <<call.type, Wallet, call.id>> \in CapabilityKeys
    /\ RegisterCapability(Wallet, <<call.type, Wallet, call.id>>, call.bond)
    /\ Return

-----------------------------------------------------------------------------
(* certifyCapability, slashCapability, withdrawCapabilityBond *)

SubmitCertification ==
    /\ Calling("certify")
    /\ CertifyCapability(Wallet, call.target)
    /\ Return

ReadSlashTreasury ==
    /\ Calling("slash") /\ call.treasury = Unread
    /\ config # None
    /\ Answer([call EXCEPT !.treasury = config.treasury])

SubmitSlash ==
    /\ Calling("slash") /\ call.treasury # Unread
    /\ call.treasury = config.treasury
    /\ SlashCapability(Wallet, call.target, call.penalty)
    /\ Return

\* The record is read for the address of the index it is listed in.
LookUpRecord ==
    /\ Calling("withdraw") /\ ~call.found
    /\ Live(call.target)
    /\ Answer([call EXCEPT !.found = TRUE])

SubmitWithdrawal ==
    /\ Calling("withdraw") /\ call.found
    /\ WithdrawCapabilityBond(Wallet, call.target)
    /\ call' = None
    /\ reclaim' = IF reclaim = None THEN None
                  ELSE [reclaim EXCEPT !.owned = @ \ {call.target}]

-----------------------------------------------------------------------------
(* discover: the index, then its records in one request, then what the creators'
   scores are computed from.  Without an index account the records of the type are
   found by a scan of the program's accounts. *)

ReadIndex ==
    /\ Calling("discover") /\ call.keys = Unread
    /\ Answer([call EXCEPT !.keys = index[call.type]])

ScanAccounts ==
    /\ Calling("discover") /\ call.keys = Unread
    /\ Answer([call EXCEPT !.keys = {k \in CapabilityKeys : TypeOf(k) = call.type /\ Live(k)}])

ReadRecords ==
    /\ Calling("discover") /\ call.keys # Unread /\ call.records = Unread
    /\ Answer([call EXCEPT !.records = [k \in call.keys |-> capabilities[k]]])

KeptCertified(record) ==    \* mutant: the option for uncertified records is ignored
    record # Missing /\ record.active /\ ~record.slashed /\ record.certified
Kept(record) ==
    /\ record # Missing /\ record.active /\ ~record.slashed
    /\ call.uncertifiedToo \/ record.certified

Candidates == {k \in DOMAIN call.records : Kept(call.records[k])}

\* low are the creators whose score is below minScore, which 0 never is.
ReadScores ==
    /\ Calling("discover") /\ call.records # Unread /\ call.low = Unread
    /\ config # None
    /\ \E low \in SUBSET {CreatorOf(k) : k \in Candidates} :
           /\ ~call.selective => low = {}
           /\ Answer([call EXCEPT !.low = low])

Listed == {k \in Candidates : CreatorOf(k) \notin call.low}

\* In a reclaim loop the wallet's own items are withdrawn next.
ReturnListing ==
    /\ Calling("discover") /\ call.low # Unread
    /\ call' = None
    /\ reclaim' = IF reclaim = None THEN None
                  ELSE [reclaim EXCEPT !.owned = {k \in Listed : CreatorOf(k) = Wallet}]
    /\ UNCHANGED ledgerVars

-----------------------------------------------------------------------------
(* runReclaim: discover, then one withdrawal after the other. *)

CertifiedListing(type) == DiscoveryOf(type, FALSE, FALSE)   \* mutant: certified ones only
ReclaimListing(type) == DiscoveryOf(type, FALSE, TRUE)

\* mine, which the code does not have, is what the wallet has when the loop begins.
BeginReclaim(type) ==
    /\ call = None /\ reclaim = None
    /\ call' = ReclaimListing(type)
    /\ reclaim' = [owned |-> Unread, mine |-> {k \in CapabilityKeys :
                      TypeOf(k) = type /\ CreatorOf(k) = Wallet /\ Live(k)}]
    /\ UNCHANGED ledgerVars

Reclaiming == reclaim # None /\ reclaim.owned # Unread

WithdrawNext ==
    /\ call = None /\ Reclaiming
    /\ \E k \in reclaim.owned : call' = WithdrawalOf(k)
    /\ UNCHANGED <<reclaim, ledgerVars>>

ReclaimDone == Reclaiming /\ call = None /\ reclaim.owned = {}

EndReclaim ==
    /\ ReclaimDone
    /\ reclaim' = None
    /\ UNCHANGED <<call, ledgerVars>>

-----------------------------------------------------------------------------
SessionStep ==
    \/ \E request \in Requests : Begin(request)
    \/ \E type \in CapabilityTypes, uncertifiedToo \in BOOLEAN :
           Begin(DiscoveryOf(type, TRUE, uncertifiedToo))
    \/ Throw
    \/ ReadCapabilityId \/ CheckRegistrationBalance \/ SubmitRegistration
    \/ SubmitCertification
    \/ ReadSlashTreasury \/ SubmitSlash
    \/ LookUpRecord \/ SubmitWithdrawal
    \/ ReadIndex \/ ScanAccounts \/ ReadRecords \/ ReadScores \/ ReturnListing
    \/ \E type \in CapabilityTypes : BeginReclaim(type)
    \/ WithdrawNext \/ EndReclaim

SessionSystemInit == CapabilitySystemInit /\ SessionInit

SessionSystemNext ==
    \/ CapabilitySystemNext /\ UNCHANGED sessionVars
    \/ SessionStep

SessionSystem == SessionSystemInit /\ [][SessionSystemNext]_<<ledgerVars, sessionVars>>

-----------------------------------------------------------------------------
(* Properties *)

DiscoveryAnswered == Calling("discover") /\ call.low # Unread

\* Whatever is registered, certified, slashed or withdrawn between the requests of
\* a discovery, it misses no record: one that could be listed when it began and still
\* can is in the answer, unless its creator's score was too low.
DiscoveryMissesNothing ==
    DiscoveryAnswered =>
        \A k \in call.before :
            Eligible(k, call.uncertifiedToo) => k \in Listed \/ CreatorOf(k) \in call.low

\* An answer that is stale by the time it is used is wrong in one way only, that what
\* it lists was slashed or withdrawn since: no other record has come to the address, a
\* certificate is not gone, and a bond is smaller than listed only after a slash.
ListingOnlyAges ==
    DiscoveryAnswered =>
        \A k \in Listed :
            /\ config # None /\ IdOf(k) < config.next_capability_id
            /\ Live(k) =>
                   /\ capabilities[k].certified \/ ~call.records[k].certified
                   /\ ~capabilities[k].slashed =>
                          capabilities[k].bond_remaining = call.records[k].bond_remaining

\* A reclaim loop that ends without an error has left behind, of what its wallet had
\* when it began, slashed records alone, whose bonds discover does not show it.
ReclaimLeavesOnlySlashed ==
    ReclaimDone => \A k \in reclaim.mine : Live(k) => capabilities[k].slashed
=============================================================================
