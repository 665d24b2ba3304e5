----------------------- MODULE CapabilityClientProofs -----------------------
(***************************************************************************)
(* What a session may rely on although others act between its requests.    *)
(* An id is issued once, so a record that was seen never comes back once   *)
(* it is gone, and until then its marks are never taken back: what a       *)
(* discovery kept of an earlier answer ages in one direction only.         *)
(***************************************************************************)
EXTENDS CapabilityClient, HandlerProofs

\* The id of k has been given to a record, which may be gone since.
Issued(k) == config # None /\ IdOf(k) < config.next_capability_id

\* No handler deactivates a record.
AllActive == \A k \in CapabilityKeys : Live(k) => capabilities[k].active

RegistryInv == CapabilityInv /\ AllActive

\* What may be relied on between two requests.
RecordKept(k) ==
    /\ Issued(k) => Issued(k)' /\ (Live(k)' => Live(k))
    /\ Live(k) /\ Live(k)' =>
           /\ capabilities[k].slashed => capabilities'[k].slashed
           /\ capabilities[k].certified => capabilities'[k].certified
           /\ ~capabilities'[k].slashed =>
                  capabilities'[k].bond_remaining = capabilities[k].bond_remaining

RegistryKept == RegistryInv' /\ \A k \in CapabilityKeys : RecordKept(k)

-----------------------------------------------------------------------------
(* The chain. *)

LEMMA LiveIsIssued ==
    ASSUME CapabilityInv, NEW k \in CapabilityKeys, Live(k)
    PROVE  Issued(k)
  BY DEF CapabilityInv, IndexExact, Issued

LEMMA StepsKeepActive ==
    ASSUME RegistryInv, CapabilityStep
    PROVE  AllActive'
  <1>1. /\ capabilities \in [CapabilityKeys -> Capability \cup {None}]
        /\ None \notin Capability
    BY CapabilityAssumption DEF RegistryInv, CapabilityInv, CapabilityTypeOK
  <1>2. ASSUME NEW k \in CapabilityKeys,
               Live(k) \/ capabilities'[k] = None \/ capabilities'[k].active,
               Live(k) => capabilities'[k] = None \/ capabilities'[k].active = capabilities[k].active,
               \A l \in CapabilityKeys : l # k => capabilities'[l] = capabilities[l]
        PROVE  AllActive'
    BY <1>2 DEF RegistryInv, AllActive, Live
  <1>3. ASSUME NEW creator \in Keys, NEW k \in CapabilityKeys, NEW bond \in CapabilityBonds,
               RegisterCapability(creator, k, bond)
        PROVE  AllActive'
    BY <1>1, <1>2, <1>3 DEF RegisterCapability
  <1>4. ASSUME NEW signer \in Keys, NEW k \in CapabilityKeys, CertifyCapability(signer, k)
        PROVE  AllActive'
    <2>1. /\ Live(k)
          /\ capabilities'[k] = [capabilities[k] EXCEPT !.certified = TRUE]
          /\ \A l \in CapabilityKeys : l # k => capabilities'[l] = capabilities[l]
      BY <1>1, <1>4 DEF CertifyCapability
    <2>2. capabilities'[k].active = capabilities[k].active
      BY <1>1, <2>1 DEF Live, Capability
    <2> QED
      BY <1>2, <2>1, <2>2
  <1>5. ASSUME NEW signer \in Keys, NEW k \in CapabilityKeys, NEW penalty \in Penalties,
               SlashCapability(signer, k, penalty)
        PROVE  AllActive'
    <2> DEFINE remaining == capabilities[k].bond_remaining - penalty
    <2>1. /\ Live(k)
          /\ capabilities'[k] =
                 [[capabilities[k] EXCEPT !.bond_remaining = remaining] EXCEPT !.slashed = TRUE]
          /\ \A l \in CapabilityKeys : l # k => capabilities'[l] = capabilities[l]
      BY <1>1, <1>5 DEF SlashCapability
    <2>2. capabilities'[k].active = capabilities[k].active
      <3> HIDE DEF remaining
      <3> QED
        BY <1>1, <2>1 DEF Live, Capability
    <2> QED
      BY <1>2, <2>1, <2>2
  <1>6. ASSUME NEW signer \in Keys, NEW k \in CapabilityKeys,
               WithdrawCapabilityBond(signer, k)
        PROVE  AllActive'
    BY <1>1, <1>2, <1>6 DEF WithdrawCapabilityBond
  <1> QED
    BY <1>3, <1>4, <1>5, <1>6 DEF CapabilityStep

\* The id counter never goes back.
LEMMA CounterStays ==
    ASSUME CapabilityInv, CapabilityInv',
           \/ config' = config
           \/ config = None
           \/ /\ config' # None
              /\ config'.next_capability_id >= config.next_capability_id,
           NEW k \in CapabilityKeys, Issued(k)
    PROVE  Issued(k)'
  <1>1. /\ config # None => config \in Config
        /\ config' # None => config' \in Config
    BY DEF CapabilityInv, ConfigInv, ConfigTypeOK
  <1>2. IdOf(k) \in Int /\ MaxU64 \in Nat
    BY PartsOfKeys, RuntimeAssumption
  <1> QED
    BY <1>1, <1>2 DEF Issued, Config

LEMMA HandlersKeepRecords ==
    ASSUME RegistryInv, CapabilityStep
    PROVE  RegistryKept
  <1>1. CapabilityInv /\ CapabilityInv'
    BY StepsOfCapability DEF RegistryInv
  <1>2. AllActive'
    BY StepsKeepActive
  <1>3. LifecycleStep
    BY <1>1, CapabilityStepsLive
  <1>4. \/ config' = config
        \/ config' # None /\ config'.next_capability_id >= config.next_capability_id
    <2>1. ASSUME NEW creator \in Keys, NEW k \in CapabilityKeys, NEW bond \in CapabilityBonds,
                 RegisterCapability(creator, k, bond)
          PROVE  config' # None /\ config'.next_capability_id >= config.next_capability_id
      <3>1. /\ config # None /\ config \in Config
            /\ config' = [config EXCEPT !.next_capability_id = @ + 1]
            /\ config.next_capability_id < MaxU64
        BY <1>1, <2>1
        DEF RegisterCapability, UsesNextId, HasRoom, CapabilityInv, ConfigInv, ConfigTypeOK
      <3>2. config' \in Config
        BY <3>1, RuntimeAssumption DEF Config
      <3> QED
        BY <3>1, <3>2, ConfigAccountAssumption, RuntimeAssumption DEF Config
    <2> QED
      BY <2>1
      DEF CapabilityStep, CertifyCapability, SlashCapability, WithdrawCapabilityBond, configVars
  <1>5. ASSUME NEW k \in CapabilityKeys
        PROVE  RecordKept(k)
    <2>1. Issued(k) => Issued(k)' /\ (Live(k)' => Live(k))
      BY <1>1, <1>3, <1>4, CounterStays DEF Issued, LifecycleStep
    <2>2. Live(k) /\ Live(k)' =>
              /\ SlashedOrKept(k)
              /\ capabilities[k].bond_remaining \in Nat
              /\ capabilities'[k].bond_remaining \in Nat
      BY <1>1, <1>3 DEF LifecycleStep, CapabilityInv, CapabilityTypeOK, Capability, Live
    <2> QED
      BY <2>1, <2>2 DEF RecordKept, SlashedOrKept
  <1> QED
    BY <1>1, <1>2, <1>5 DEF RegistryKept, RegistryInv

\* What leaves the records alone.
LEMMA OthersKeepRecords ==
    ASSUME RegistryInv, CapabilityInv', UNCHANGED capabilityVars,
           \/ config' = config
           \/ config = None
           \/ /\ config' # None
              /\ config'.next_capability_id >= config.next_capability_id
    PROVE  RegistryKept
  <1>1. capabilities' = capabilities /\ CapabilityInv
    BY DEF capabilityVars, RegistryInv
  <1>2. AllActive'
    BY <1>1 DEF RegistryInv, AllActive, Live
  <1>3. ASSUME NEW k \in CapabilityKeys
        PROVE  RecordKept(k)
    BY <1>1, CounterStays DEF RecordKept, Live
  <1> QED
    BY <1>2, <1>3 DEF RegistryKept, RegistryInv

\* Whatever anybody does on chain.
LEMMA RegistrySteps ==
    ASSUME RegistryInv, CapabilitySystemNext \/ UNCHANGED ledgerVars
    PROVE  RegistryKept
  <1>1. /\ CapabilityInv /\ ConfigInv /\ RuntimeTypeOK
        /\ config # None => config \in Config
        /\ MaxU64 \in Nat
    BY RuntimeAssumption DEF RegistryInv, CapabilityInv, ConfigInv, ConfigTypeOK
  <1>2. CASE RuntimeStep /\ UNCHANGED <<configVars, capabilityVars>>
    <2>1. RuntimeTypeOK' /\ \A v \in Vaults : lamports'[v] >= lamports[v]
      BY <1>1, <1>2, StepsOfRuntime
    <2>2. config' = config /\ ConfigInv' /\ UNCHANGED capabilityVars
      BY <1>1, <1>2, <2>1 DEF configVars, ConfigInv, ConfigTypeOK, ConfigInRange
    <2>3. config # None => config'.next_capability_id >= config.next_capability_id
      BY <1>1, <2>2 DEF Config
    <2>4. CapabilityInv'
      BY <1>1, <2>1, <2>2, <2>3, CapabilityFrame DEF Vaults
    <2> QED
      BY <2>2, <2>4, OthersKeepRecords
  <1>3. CASE ConfigStep /\ UNCHANGED capabilityVars
    <2>1. ConfigStepKeeps
      BY <1>1, <1>3, StepsOfConfig
    <2>2. /\ ConfigInv' /\ UNCHANGED capabilityVars
          /\ config # None => /\ config' # None
                              /\ config'.next_capability_id >= config.next_capability_id
      BY <1>1, <1>3, <2>1 DEF ConfigStepKeeps, CountersKept, Config
    <2>3. \A v \in CapabilityVaults : lamports'[v] >= lamports[v]
      BY <1>1, <2>1 DEF ConfigStepKeeps, VaultsKept, RuntimeTypeOK, Accounts, Vaults
    <2>4. CapabilityInv'
      BY <1>1, <2>2, <2>3, CapabilityFrame
    <2> QED
      BY <2>2, <2>4, OthersKeepRecords
  <1>4. CASE CapabilityStep
    BY <1>4, HandlersKeepRecords
  <1>5. CASE UNCHANGED ledgerVars
    <2>1. UNCHANGED <<lamports, clock, config, pendingAdmin, upgradeAuthority, capabilities, index>>
      BY <1>5 DEF ledgerVars, runtimeVars, configVars, capabilityVars
    <2>2. CapabilityInv'
      <3>1. ConfigInv'
        BY <1>1, <2>1 DEF ConfigInv, RuntimeTypeOK, ConfigTypeOK, ConfigInRange
      <3>2. \A v \in CapabilityVaults : lamports[v] \in Nat
        BY <1>1 DEF RuntimeTypeOK, Accounts, Vaults
      <3>3. config # None => config'.next_capability_id >= config.next_capability_id
        BY <1>1, <2>1 DEF Config
      <3> QED
        BY <1>1, <2>1, <3>1, <3>2, <3>3, CapabilityFrame DEF capabilityVars
    <2> QED
      BY <2>1, <2>2, OthersKeepRecords DEF capabilityVars
  <1> QED
    BY <1>2, <1>3, <1>4, <1>5 DEF CapabilitySystemNext

-----------------------------------------------------------------------------
(* The session. *)

DiscoveryFields ==
    {"op", "type", "selective", "uncertifiedToo", "keys", "records", "low", "before"}

\* What the wallet was asked to submit is something the program knows.
CallTyped ==
    /\ call # None => "op" \in DOMAIN call
    /\ Calling("register") =>
           /\ {"bond"} \subseteq DOMAIN call
           /\ call.bond \in CapabilityBonds
    /\ Calling("certify") =>
           /\ {"target"} \subseteq DOMAIN call
           /\ call.target \in CapabilityKeys
    /\ Calling("slash") =>
           /\ {"target", "penalty"} \subseteq DOMAIN call
           /\ call.target \in CapabilityKeys
           /\ call.penalty \in Penalties
    /\ Calling("withdraw") =>
           /\ {"target"} \subseteq DOMAIN call
           /\ call.target \in CapabilityKeys
    /\ Calling("discover") =>
           /\ DOMAIN call = DiscoveryFields
           /\ call.type \in CapabilityTypes

\* What could be listed when the discovery began still could, unless it is gone or
\* was slashed.
BeforeAges ==
    Calling("discover") =>
        /\ call.before \subseteq CapabilityKeys
        /\ \A k \in call.before :
               /\ Issued(k) /\ TypeOf(k) = call.type
               /\ Live(k) => call.uncertifiedToo \/ capabilities[k].certified

\* The index had every record that has not gone since.
KeysAge ==
    Calling("discover") /\ call.keys # Unread =>
        /\ call.keys \subseteq CapabilityKeys
        /\ \A k \in call.keys : Issued(k)
        /\ \A k \in call.before : Live(k) => k \in call.keys

\* A record that was read is that of any record still there, up to marks it got since.
RecordAges(k, record) ==
    /\ record # Missing
    /\ record.active
    /\ record.slashed => capabilities[k].slashed
    /\ record.certified => capabilities[k].certified
    /\ ~capabilities[k].slashed => capabilities[k].bond_remaining = record.bond_remaining
    /\ k \in call.before => call.uncertifiedToo \/ record.certified

RecordsAge ==
    Calling("discover") /\ call.records # Unread =>
        /\ DOMAIN call.records \subseteq CapabilityKeys
        /\ \A k \in call.before : Live(k) => k \in DOMAIN call.records
        /\ \A k \in DOMAIN call.records :
               /\ Issued(k)
               /\ Live(k) => RecordAges(k, call.records[k])

\* Scores are read for what the records showed.
LowAfterRecords ==
    Calling("discover") /\ call.low # Unread => call.records # Unread

NoneTooLow ==
    Calling("discover") /\ call.low # Unread /\ ~call.selective => call.low = {}

\* A reclaim loop lists with the widest options, then withdraws what it listed.
ReclaimAges ==
    reclaim # None =>
        /\ DOMAIN reclaim = {"owned", "mine"}
        /\ reclaim.mine \subseteq CapabilityKeys
        /\ \A k \in reclaim.mine : Issued(k) /\ CreatorOf(k) = Wallet
        /\ reclaim.owned = Unread /\ call # None =>
               /\ Calling("discover") /\ ~call.selective /\ call.uncertifiedToo
               /\ \A k \in reclaim.mine :
                      Live(k) => capabilities[k].slashed \/ k \in call.before
        /\ reclaim.owned # Unread =>
               /\ call # None => Calling("withdraw")
               /\ reclaim.owned \subseteq CapabilityKeys
               /\ \A k \in reclaim.mine :
                      Live(k) => capabilities[k].slashed \/ k \in reclaim.owned

CallAges ==
    /\ CallTyped
    /\ BeforeAges
    /\ KeysAge
    /\ RecordsAge
    /\ LowAfterRecords
    /\ NoneTooLow

SessionInv == RegistryInv /\ CallAges /\ ReclaimAges

-----------------------------------------------------------------------------
\* Others' steps age what the session holds, and no more than that.
LEMMA CallSurvives ==
    ASSUME SessionInv, RegistryKept, call' = call
    PROVE  CallAges'
  <1>1. \A k \in CapabilityKeys : RecordKept(k)
    BY DEF RegistryKept
  <1>2. CallAges
    BY DEF SessionInv
  <1>3. CallTyped'
    BY <1>2 DEF CallAges, CallTyped, Calling
  <1>4. BeforeAges'
    BY <1>1, <1>2 DEF CallAges, BeforeAges, Calling, RecordKept
  <1>5. KeysAge'
    BY <1>1, <1>2 DEF CallAges, BeforeAges, KeysAge, Calling, RecordKept
  <1>6. RecordsAge'
    <2> SUFFICES ASSUME Calling("discover"), call.records # Unread
                 PROVE  /\ DOMAIN call.records \subseteq CapabilityKeys
                        /\ \A k \in call.before : Live(k)' => k \in DOMAIN call.records
                        /\ \A k \in DOMAIN call.records :
                               /\ Issued(k)'
                               /\ Live(k)' => RecordAges(k, call.records[k])'
      BY DEF RecordsAge, Calling
    <2>1. /\ DOMAIN call.records \subseteq CapabilityKeys
          /\ \A k \in call.before : Live(k)' => k \in DOMAIN call.records
      BY <1>1, <1>2 DEF CallAges, BeforeAges, RecordsAge, RecordKept
    <2>2. ASSUME NEW k \in DOMAIN call.records
          PROVE  Issued(k)'
      BY <1>1, <1>2, <2>2 DEF CallAges, RecordsAge, RecordKept
    <2>3. ASSUME NEW k \in DOMAIN call.records, Live(k)'
          PROVE  RecordAges(k, call.records[k])'
      <3>1. k \in CapabilityKeys /\ Live(k) /\ RecordAges(k, call.records[k])
        BY <1>1, <1>2, <2>3 DEF CallAges, RecordsAge, RecordKept
      <3>2. /\ capabilities[k].slashed => capabilities'[k].slashed
            /\ capabilities[k].certified => capabilities'[k].certified
            /\ ~capabilities'[k].slashed =>
                   capabilities'[k].bond_remaining = capabilities[k].bond_remaining
        BY <1>1, <2>3, <3>1 DEF RecordKept
      <3> QED
        BY <3>1, <3>2 DEF RecordAges
    <2> QED
      BY <2>1, <2>2, <2>3
  <1>7. LowAfterRecords' /\ NoneTooLow'
    BY <1>2 DEF CallAges, LowAfterRecords, NoneTooLow, Calling
  <1> QED
    BY <1>3, <1>4, <1>5, <1>6, <1>7 DEF CallAges

LEMMA ReclaimSurvives ==
    ASSUME SessionInv, RegistryKept, UNCHANGED sessionVars
    PROVE  ReclaimAges'
  <1>1. \A k \in CapabilityKeys : RecordKept(k)
    BY DEF RegistryKept
  <1>2. ReclaimAges /\ call' = call /\ reclaim' = reclaim
    BY DEF SessionInv, sessionVars
  <1> QED
    BY <1>1, <1>2 DEF ReclaimAges, Calling, RecordKept

\* A call that is over has nothing to keep.
LEMMA CallOver ==
    ASSUME call' = None
    PROVE  CallAges'
  BY DEF CallAges, CallTyped, BeforeAges, KeysAge, RecordsAge, LowAfterRecords, NoneTooLow, Calling

\* An answer updates one field of the call.
LEMMA OneField ==
    ASSUME NEW c, NEW f, NEW v
    PROVE  /\ DOMAIN [c EXCEPT ![f] = v] = DOMAIN c
           /\ \A g \in DOMAIN c : [c EXCEPT ![f] = v][g] = IF g = f THEN v ELSE c[g]
  OBVIOUS

-----------------------------------------------------------------------------
(* Steps that read or only touch the session. *)

LEMMA QuietLedger ==
    ASSUME SessionInv, UNCHANGED ledgerVars
    PROVE  /\ RegistryKept
           /\ UNCHANGED <<config, capabilities, index>>
  BY RegistrySteps DEF SessionInv, ledgerVars, configVars, capabilityVars

LEMMA BeginKeeps ==
    ASSUME SessionInv, NEW request \in Requests, Begin(request)
    PROVE  SessionInv'
  <1>1. call' = request /\ reclaim' = None /\ UNCHANGED ledgerVars
    BY DEF Begin
  <1>2. CallTyped' /\ request.op # "discover"
    <2>1. CASE \E type \in CapabilityTypes, bond \in CapabilityBonds, id \in GivenIds \cup {Unread} :
                   request = RegistrationOf(type, bond, id)
      BY <1>1, <2>1 DEF RegistrationOf, CallTyped, Calling
    <2>2. CASE \E k \in CapabilityKeys : request = CertificationOf(k)
      BY <1>1, <2>2 DEF CertificationOf, CallTyped, Calling
    <2>3. CASE \E k \in CapabilityKeys, penalty \in Penalties : request = SlashOf(k, penalty)
      BY <1>1, <2>3 DEF SlashOf, CallTyped, Calling
    <2>4. CASE \E k \in CapabilityKeys : request = WithdrawalOf(k)
      BY <1>1, <2>4 DEF WithdrawalOf, CallTyped, Calling
    <2> QED
      BY <2>1, <2>2, <2>3, <2>4 DEF Requests
  <1>3. CallAges'
    BY <1>1, <1>2
    DEF CallAges, BeforeAges, KeysAge, RecordsAge, LowAfterRecords, NoneTooLow, Calling
  <1>4. ReclaimAges'
    BY <1>1 DEF ReclaimAges
  <1> QED
    BY <1>1, <1>3, <1>4, QuietLedger DEF SessionInv, RegistryKept

\* A discovery begins with nothing read.
LEMMA DiscoveryBegins ==
    ASSUME SessionInv, NEW type \in CapabilityTypes, NEW selective \in BOOLEAN,
           NEW uncertifiedToo \in BOOLEAN,
           call' = DiscoveryOf(type, selective, uncertifiedToo), UNCHANGED ledgerVars
    PROVE  CallAges'
  <1> DEFINE B == {k \in CapabilityKeys : TypeOf(k) = type /\ Eligible(k, uncertifiedToo)}
  <1>1. /\ call'.op = "discover" /\ call'.type = type
        /\ call'.uncertifiedToo = uncertifiedToo
        /\ call'.keys = Unread /\ call'.records = Unread /\ call'.low = Unread
        /\ call'.before = B
        /\ DOMAIN call' = DiscoveryFields
    BY DEF DiscoveryOf, DiscoveryFields
  <1>2. UNCHANGED <<config, capabilities, index>>
    BY QuietLedger
  <1>3. \A k \in B : /\ k \in CapabilityKeys /\ TypeOf(k) = type
                     /\ Issued(k)
                     /\ uncertifiedToo \/ capabilities[k].certified
    BY LiveIsIssued DEF Eligible, Unslashed, SessionInv, RegistryInv
  <1> HIDE DEF B
  <1>4. CallTyped'
    BY <1>1 DEF CallTyped, Calling, DiscoveryFields
  <1>5. BeforeAges'
    <2>1. \A k \in B : Issued(k)'
      BY <1>2, <1>3 DEF Issued
    <2> QED
      BY <1>1, <1>2, <1>3, <2>1 DEF BeforeAges
  <1>6. KeysAge' /\ RecordsAge' /\ LowAfterRecords' /\ NoneTooLow'
    BY <1>1 DEF KeysAge, RecordsAge, LowAfterRecords, NoneTooLow
  <1> QED
    BY <1>4, <1>5, <1>6 DEF CallAges

LEMMA BeginDiscoveryKeeps ==
    ASSUME SessionInv, NEW type \in CapabilityTypes, NEW uncertifiedToo \in BOOLEAN,
           Begin(DiscoveryOf(type, TRUE, uncertifiedToo))
    PROVE  SessionInv'
  <1>1. /\ call' = DiscoveryOf(type, TRUE, uncertifiedToo) /\ reclaim' = None
        /\ UNCHANGED ledgerVars
    BY DEF Begin
  <1>2. CallAges'
    BY <1>1, DiscoveryBegins
  <1>3. ReclaimAges'
    BY <1>1 DEF ReclaimAges
  <1> QED
    BY <1>1, <1>2, <1>3, QuietLedger DEF SessionInv, RegistryKept

LEMMA ThrowKeeps ==
    ASSUME SessionInv, Throw
    PROVE  SessionInv'
  <1>1. call' = None /\ reclaim' = None /\ UNCHANGED ledgerVars
    BY DEF Throw
  <1>2. ReclaimAges'
    BY <1>1 DEF ReclaimAges
  <1> QED
    BY <1>1, <1>2, QuietLedger, CallOver DEF SessionInv, RegistryKept

\* What a call other than a discovery reads.
LEMMA AnswerKeeps ==
    ASSUME SessionInv, NEW f \in {"id", "funded", "treasury", "found"}, NEW v,
           Answer([call EXCEPT ![f] = v]), call # None, ~Calling("discover")
    PROVE  SessionInv'
  <1>1. call' = [call EXCEPT ![f] = v] /\ reclaim' = reclaim /\ UNCHANGED ledgerVars
    BY DEF Answer
  <1>2. CallTyped /\ ReclaimAges
    BY DEF SessionInv, CallAges
  <1>3. /\ DOMAIN call' = DOMAIN call
        /\ \A g \in DOMAIN call : g # f => call'[g] = call[g]
    BY <1>1, OneField
  <1>4. "op" \in DOMAIN call /\ call'.op = call.op
    BY <1>2, <1>3 DEF CallTyped
  <1>5. CallTyped'
    <2>1. /\ "bond" \in DOMAIN call => call'.bond = call.bond
          /\ "target" \in DOMAIN call => call'.target = call.target
          /\ "penalty" \in DOMAIN call => call'.penalty = call.penalty
      BY <1>3
    <2> QED
      BY <1>2, <1>3, <1>4, <2>1 DEF CallTyped, Calling
  <1>6. CallAges'
    BY <1>4, <1>5
    DEF CallAges, BeforeAges, KeysAge, RecordsAge, LowAfterRecords, NoneTooLow, Calling
  <1>7. ReclaimAges'
    <2>1. UNCHANGED <<config, capabilities>>
      BY <1>1, QuietLedger
    <2> QED
      BY <1>1, <1>2, <1>4, <2>1 DEF ReclaimAges, Calling, Issued, Live
  <1> QED
    BY <1>1, <1>6, <1>7, QuietLedger DEF SessionInv, RegistryKept

\* What a discovery reads: the other answers stay as they are.
LEMMA DiscoveryAnswer ==
    ASSUME SessionInv, NEW f \in {"keys", "records", "low"}, NEW v,
           Answer([call EXCEPT ![f] = v]), Calling("discover")
    PROVE  /\ RegistryInv' /\ CallTyped' /\ BeforeAges' /\ ReclaimAges'
           /\ UNCHANGED <<config, capabilities, index>>
           /\ call'.op = "discover" /\ call'.before = call.before
           /\ call'.uncertifiedToo = call.uncertifiedToo
           /\ call'.selective = call.selective
           /\ f # "keys" => call'.keys = call.keys
           /\ f # "records" => call'.records = call.records
           /\ f # "low" => call'.low = call.low
           /\ call'[f] = v
  <1>1. call' = [call EXCEPT ![f] = v] /\ reclaim' = reclaim /\ UNCHANGED ledgerVars
    BY DEF Answer
  <1>2. /\ DOMAIN call = DiscoveryFields /\ call.type \in CapabilityTypes
        /\ call # None /\ call.op = "discover"
    BY DEF SessionInv, CallAges, CallTyped, Calling
  <1>3. /\ DOMAIN call' = DiscoveryFields
        /\ \A g \in DiscoveryFields : g # f => call'[g] = call[g]
        /\ f \in DiscoveryFields /\ call'[f] = v
    BY <1>1, <1>2, OneField DEF DiscoveryFields
  <1>4. /\ call'.op = "discover" /\ call'.before = call.before
        /\ call'.uncertifiedToo = call.uncertifiedToo
        /\ call'.selective = call.selective /\ call'.type = call.type
        /\ f # "keys" => call'.keys = call.keys
        /\ f # "records" => call'.records = call.records
        /\ f # "low" => call'.low = call.low
    BY <1>2, <1>3 DEF DiscoveryFields
  <1>5. UNCHANGED <<config, capabilities, index>> /\ RegistryInv'
    BY <1>1, QuietLedger DEF RegistryKept
  <1>6. CallTyped'
    BY <1>2, <1>3, <1>4 DEF CallTyped, Calling, DiscoveryFields
  <1>7. BeforeAges'
    BY <1>4, <1>5 DEF SessionInv, CallAges, BeforeAges, Calling, Issued, Live
  <1>8. ReclaimAges'
    BY <1>1, <1>2, <1>4, <1>5 DEF SessionInv, ReclaimAges, Calling, Issued, Live
  <1> QED
    BY <1>3, <1>4, <1>5, <1>6, <1>7, <1>8

-----------------------------------------------------------------------------
(* What a discovery reads. *)

\* The index and the scan agree: both have the live records of the type.
LEMMA ListKeeps ==
    ASSUME SessionInv, ReadIndex \/ ScanAccounts
    PROVE  SessionInv'
  <1> DEFINE L == {k \in CapabilityKeys : TypeOf(k) = call.type /\ Live(k)}
  <1>1. Calling("discover") /\ call.type \in CapabilityTypes
    BY DEF ReadIndex, ScanAccounts, SessionInv, CallAges, CallTyped
  <1>2. index[call.type] = L
    BY <1>1 DEF SessionInv, RegistryInv, CapabilityInv, IndexExact
  <1>3. Answer([call EXCEPT !.keys = L])
    BY <1>2 DEF ReadIndex, ScanAccounts
  <1>4. \A k \in L : k \in CapabilityKeys /\ Issued(k)
    BY LiveIsIssued DEF SessionInv, RegistryInv
  <1>5. \A k \in call.before : Live(k) => k \in L
    BY <1>1 DEF SessionInv, CallAges, BeforeAges
  <1> HIDE DEF L
  <1>6. /\ RegistryInv' /\ CallTyped' /\ BeforeAges' /\ ReclaimAges'
        /\ UNCHANGED <<config, capabilities, index>>
        /\ call'.op = "discover" /\ call'.before = call.before
        /\ call'.uncertifiedToo = call.uncertifiedToo
        /\ call'.selective = call.selective
        /\ call'.records = call.records /\ call'.low = call.low
        /\ call'.keys = L
    BY <1>1, <1>3, DiscoveryAnswer
  <1>7. KeysAge'
    BY <1>4, <1>5, <1>6 DEF KeysAge, Issued, Live
  <1>8. RecordsAge' /\ LowAfterRecords' /\ NoneTooLow'
    BY <1>1, <1>6
    DEF SessionInv, CallAges, RecordsAge, RecordAges, LowAfterRecords, NoneTooLow, Calling, Issued, Live
  <1> QED
    BY <1>6, <1>7, <1>8 DEF SessionInv, CallAges

LEMMA ReadRecordsKeeps ==
    ASSUME SessionInv, ReadRecords
    PROVE  SessionInv'
  <1> DEFINE R == [k \in call.keys |-> capabilities[k]]
  <1>1. Calling("discover") /\ call.keys # Unread /\ Answer([call EXCEPT !.records = R])
    BY DEF ReadRecords
  <1>2. /\ call.keys \subseteq CapabilityKeys
        /\ \A k \in call.keys : Issued(k)
        /\ \A k \in call.before : Live(k) => k \in call.keys
    BY <1>1 DEF SessionInv, CallAges, KeysAge
  <1>3. DOMAIN R = call.keys /\ \A k \in call.keys : R[k] = capabilities[k]
    OBVIOUS
  <1> HIDE DEF R
  <1>4. /\ RegistryInv' /\ CallTyped' /\ BeforeAges' /\ ReclaimAges'
        /\ UNCHANGED <<config, capabilities, index>>
        /\ call'.op = "discover" /\ call'.before = call.before
        /\ call'.uncertifiedToo = call.uncertifiedToo
        /\ call'.selective = call.selective
        /\ call'.keys = call.keys /\ call'.low = call.low
        /\ call'.records = R
    BY <1>1, DiscoveryAnswer
  <1>5. ASSUME NEW k \in call.keys, Live(k)
        PROVE  RecordAges(k, R[k])
    <2>1. k \in CapabilityKeys /\ R[k] = capabilities[k] /\ R[k] # Missing
      BY <1>2, <1>3, <1>5 DEF Live, Missing
    <2>2. capabilities[k].active
      BY <1>5, <2>1 DEF SessionInv, RegistryInv, AllActive
    <2>3. k \in call.before => call.uncertifiedToo \/ capabilities[k].certified
      BY <1>1, <1>5 DEF SessionInv, CallAges, BeforeAges
    <2> QED
      BY <2>1, <2>2, <2>3 DEF RecordAges
  <1>6. RecordsAge'
    <2>1. /\ DOMAIN R \subseteq CapabilityKeys
          /\ \A k \in call'.before : Live(k)' => k \in DOMAIN R
          /\ \A k \in DOMAIN R : Issued(k)'
      BY <1>2, <1>3, <1>4 DEF Issued, Live
    <2>2. ASSUME NEW k \in DOMAIN R, Live(k)'
          PROVE  RecordAges(k, call.records[k])'
      <3>1. RecordAges(k, R[k])
        BY <1>3, <1>4, <1>5, <2>2 DEF Live
      <3> QED
        BY <1>4, <3>1 DEF RecordAges
    <2> QED
      BY <1>4, <2>1, <2>2 DEF RecordsAge
  <1>7. KeysAge' /\ NoneTooLow'
    BY <1>1, <1>4 DEF SessionInv, CallAges, KeysAge, NoneTooLow, Calling, Issued, Live
  <1>8. LowAfterRecords'
    BY <1>1, <1>4 DEF SessionInv, CallAges, LowAfterRecords, ReadRecords
  <1> QED
    BY <1>4, <1>6, <1>7, <1>8 DEF SessionInv, CallAges

LEMMA ReadScoresKeeps ==
    ASSUME SessionInv, ReadScores
    PROVE  SessionInv'
  <1>1. PICK low : /\ ~call.selective => low = {}
                   /\ Answer([call EXCEPT !.low = low])
    BY DEF ReadScores
  <1>2. Calling("discover")
    BY DEF ReadScores
  <1>3. /\ RegistryInv' /\ CallTyped' /\ BeforeAges' /\ ReclaimAges'
        /\ UNCHANGED <<config, capabilities, index>>
        /\ call'.op = "discover" /\ call'.before = call.before
        /\ call'.uncertifiedToo = call.uncertifiedToo
        /\ call'.selective = call.selective
        /\ call'.keys = call.keys /\ call'.records = call.records
        /\ call'.low = low
    BY <1>1, <1>2, DiscoveryAnswer
  <1>4. LowAfterRecords'
    BY <1>3 DEF LowAfterRecords, ReadScores
  <1>5. KeysAge' /\ RecordsAge' /\ NoneTooLow'
    BY <1>1, <1>2, <1>3
    DEF SessionInv, CallAges, KeysAge, RecordsAge, RecordAges, NoneTooLow, Calling, Issued, Live
  <1> QED
    BY <1>3, <1>4, <1>5 DEF SessionInv, CallAges

-----------------------------------------------------------------------------
(* What a discovery answers. *)

LEMMA AnswerMissesNothing ==
    ASSUME SessionInv
    PROVE  DiscoveryMissesNothing
  <1> SUFFICES ASSUME DiscoveryAnswered, call.records # Unread, NEW k \in call.before,
                      Eligible(k, call.uncertifiedToo)
               PROVE  k \in Listed \/ CreatorOf(k) \in call.low
    BY DEF DiscoveryMissesNothing, SessionInv, CallAges, LowAfterRecords, DiscoveryAnswered
  <1>1. /\ Calling("discover") /\ Live(k) /\ ~capabilities[k].slashed
    BY DEF DiscoveryAnswered, Eligible, Unslashed
  <1>2. /\ k \in DOMAIN call.records
        /\ RecordAges(k, call.records[k])
    BY <1>1 DEF SessionInv, CallAges, RecordsAge
  <1>3. Kept(call.records[k])
    BY <1>1, <1>2 DEF RecordAges, Kept
  <1> QED
    BY <1>2, <1>3 DEF Listed, Candidates

LEMMA AnswerOnlyAges ==
    ASSUME SessionInv
    PROVE  ListingOnlyAges
  <1> SUFFICES ASSUME DiscoveryAnswered, call.records # Unread, NEW k \in Listed
               PROVE  /\ Issued(k)
                      /\ Live(k) =>
                             /\ capabilities[k].certified \/ ~call.records[k].certified
                             /\ ~capabilities[k].slashed =>
                                    capabilities[k].bond_remaining
                                        = call.records[k].bond_remaining
    BY DEF ListingOnlyAges, Issued, SessionInv, CallAges, LowAfterRecords, DiscoveryAnswered
  <1>1. Calling("discover") /\ k \in DOMAIN call.records
    BY DEF DiscoveryAnswered, Listed, Candidates
  <1>2. Issued(k) /\ (Live(k) => RecordAges(k, call.records[k]))
    BY <1>1 DEF SessionInv, CallAges, RecordsAge
  <1> QED
    BY <1>2 DEF RecordAges

LEMMA ReturnListingKeeps ==
    ASSUME SessionInv, ReturnListing
    PROVE  SessionInv'
  <1>1. /\ DiscoveryAnswered /\ call' = None /\ UNCHANGED ledgerVars
        /\ reclaim' = IF reclaim = None THEN None
                      ELSE [reclaim EXCEPT !.owned = {k \in Listed : CreatorOf(k) = Wallet}]
    BY DEF ReturnListing, DiscoveryAnswered
  <1>2. UNCHANGED <<config, capabilities, index>> /\ RegistryInv' /\ CallAges'
    BY <1>1, QuietLedger, CallOver DEF RegistryKept
  <1>3. CASE reclaim = None
    BY <1>1, <1>2, <1>3 DEF SessionInv, ReclaimAges
  <1>4. CASE reclaim # None
    <2> DEFINE O == {k \in Listed : CreatorOf(k) = Wallet}
    <2>1. /\ reclaim' = [reclaim EXCEPT !.owned = O]
          /\ DOMAIN reclaim = {"owned", "mine"}
          /\ reclaim.mine \subseteq CapabilityKeys
          /\ \A k \in reclaim.mine : Issued(k) /\ CreatorOf(k) = Wallet
      BY <1>1, <1>4 DEF SessionInv, ReclaimAges
    <2>2. Calling("discover") /\ call # None /\ call.low # Unread /\ call.records # Unread
      BY <1>1 DEF DiscoveryAnswered, Calling, SessionInv, CallAges, LowAfterRecords
    <2>3. reclaim.owned = Unread
      BY <1>4, <2>2 DEF SessionInv, ReclaimAges, Calling
    <2>4. /\ ~call.selective /\ call.uncertifiedToo
          /\ \A k \in reclaim.mine : Live(k) => capabilities[k].slashed \/ k \in call.before
      BY <1>4, <2>2, <2>3 DEF SessionInv, ReclaimAges
    <2>5. call.low = {}
      BY <2>2, <2>4 DEF SessionInv, CallAges, NoneTooLow
    <2>6. ASSUME NEW k \in reclaim.mine, Live(k), ~capabilities[k].slashed
          PROVE  k \in O
      <3>1. k \in call.before /\ k \in CapabilityKeys /\ CreatorOf(k) = Wallet
        BY <2>1, <2>4, <2>6
      <3>2. capabilities[k].active
        BY <2>6, <3>1 DEF SessionInv, RegistryInv, AllActive
      <3>3. Eligible(k, call.uncertifiedToo)
        BY <2>4, <2>6, <3>2 DEF Eligible, Unslashed
      <3>4. k \in Listed
        BY <1>1, <2>5, <3>1, <3>3, AnswerMissesNothing DEF DiscoveryMissesNothing
      <3> QED
        BY <3>1, <3>4
    <2>7. O \subseteq CapabilityKeys
      BY <2>2 DEF Listed, Candidates, SessionInv, CallAges, RecordsAge
    <2> HIDE DEF O
    <2>8. /\ DOMAIN reclaim' = {"owned", "mine"}
          /\ reclaim'.mine = reclaim.mine /\ reclaim'.owned = O
      BY <2>1
    <2>9. ReclaimAges'
      BY <1>1, <1>2, <2>1, <2>6, <2>7, <2>8 DEF ReclaimAges, Issued, Live
    <2> QED
      BY <1>2, <2>9 DEF SessionInv
  <1> QED
    BY <1>3, <1>4

-----------------------------------------------------------------------------
(* What a session submits. *)

\* A call that submits is over, and what it did on chain is what anybody may do.
LEMMA SubmissionKeeps ==
    ASSUME SessionInv, CapabilityStep, call' = None, UNCHANGED reclaim
    PROVE  SessionInv'
  <1>1. RegistryKept
    BY HandlersKeepRecords DEF SessionInv
  <1>2. \A k \in CapabilityKeys : RecordKept(k)
    BY <1>1 DEF RegistryKept
  <1>3. ReclaimAges'
    BY <1>2 DEF SessionInv, ReclaimAges, RecordKept
  <1> QED
    BY <1>1, <1>3, CallOver DEF SessionInv, RegistryKept

LEMMA SubmissionsKeep ==
    ASSUME SessionInv, SubmitRegistration \/ SubmitCertification \/ SubmitSlash
    PROVE  SessionInv'
  <1>1. Wallet \in Keys /\ CallTyped
    BY CapabilityClientAssumption DEF SessionInv, CallAges
  <1>2. CASE SubmitRegistration
    <2>1. CapabilityStep
      BY <1>1, <1>2 DEF SubmitRegistration, CallTyped, CapabilityStep
    <2> QED
      BY <1>2, <2>1, SubmissionKeeps DEF SubmitRegistration, Return
  <1>3. CASE SubmitCertification
    <2>1. CapabilityStep
      BY <1>1, <1>3 DEF SubmitCertification, CallTyped, CapabilityStep
    <2> QED
      BY <1>3, <2>1, SubmissionKeeps DEF SubmitCertification, Return
  <1>4. CASE SubmitSlash
    <2>1. CapabilityStep
      BY <1>1, <1>4 DEF SubmitSlash, CallTyped, CapabilityStep
    <2> QED
      BY <1>4, <2>1, SubmissionKeeps DEF SubmitSlash, Return
  <1> QED
    BY <1>2, <1>3, <1>4

\* What was withdrawn is gone, so the loop may cross it off.
LEMMA WithdrawalKeeps ==
    ASSUME SessionInv, SubmitWithdrawal
    PROVE  SessionInv'
  <1>1. call.target \in CapabilityKeys /\ Wallet \in Keys
    BY CapabilityClientAssumption DEF SubmitWithdrawal, SessionInv, CallAges, CallTyped
  <1>2. PICK k \in CapabilityKeys : k = call.target
    BY <1>1
  <1>3. /\ Calling("withdraw") /\ call # None
        /\ WithdrawCapabilityBond(Wallet, k)
        /\ call' = None
        /\ reclaim' = IF reclaim = None THEN None ELSE [reclaim EXCEPT !.owned = @ \ {k}]
    BY <1>2 DEF SubmitWithdrawal, Calling
  <1>4. CapabilityStep
    BY <1>3, <1>1 DEF CapabilityStep
  <1>5. RegistryKept /\ \A l \in CapabilityKeys : RecordKept(l)
    BY <1>4, HandlersKeepRecords DEF SessionInv, RegistryKept
  <1>6. ~Live(k)'
    BY <1>1, <1>3
    DEF WithdrawCapabilityBond, Live, SessionInv, RegistryInv, CapabilityInv, CapabilityTypeOK
  <1>7. ReclaimAges'
    <2>1. CASE reclaim = None
      BY <1>3, <2>1 DEF ReclaimAges
    <2>2. CASE reclaim # None
      <3>1. /\ DOMAIN reclaim = {"owned", "mine"}
            /\ reclaim.mine \subseteq CapabilityKeys
            /\ \A l \in reclaim.mine : Issued(l) /\ CreatorOf(l) = Wallet
            /\ reclaim.owned # Unread
        BY <1>3, <2>2 DEF SessionInv, ReclaimAges, Calling
      <3>2. /\ reclaim.owned \subseteq CapabilityKeys
            /\ \A l \in reclaim.mine :
                   Live(l) => capabilities[l].slashed \/ l \in reclaim.owned
        BY <2>2, <3>1 DEF SessionInv, ReclaimAges
      <3>3. /\ DOMAIN reclaim' = {"owned", "mine"}
            /\ reclaim'.mine = reclaim.mine
            /\ reclaim'.owned = reclaim.owned \ {k}
        BY <1>3, <2>2, <3>1
      <3>4. \A l \in reclaim.mine : Issued(l)'
        BY <1>5, <3>1 DEF RecordKept
      <3>5. \A l \in reclaim.mine :
                Live(l)' => capabilities'[l].slashed \/ l \in reclaim'.owned
        BY <1>5, <1>6, <3>1, <3>2, <3>3 DEF RecordKept
      <3> QED
        BY <1>3, <3>1, <3>2, <3>3, <3>4, <3>5 DEF ReclaimAges
    <2> QED
      BY <2>1, <2>2
  <1> QED
    BY <1>3, <1>5, <1>7, CallOver DEF SessionInv, RegistryKept

-----------------------------------------------------------------------------
(* The reclaim loop. *)

LEMMA BeginReclaimKeeps ==
    ASSUME SessionInv, NEW type \in CapabilityTypes, BeginReclaim(type)
    PROVE  SessionInv'
  <1> DEFINE M == {k \in CapabilityKeys :
                      TypeOf(k) = type /\ CreatorOf(k) = Wallet /\ Live(k)}
             B == {k \in CapabilityKeys : TypeOf(k) = type /\ Eligible(k, TRUE)}
  <1>1. /\ call' = DiscoveryOf(type, FALSE, TRUE)
        /\ reclaim' = [owned |-> Unread, mine |-> M]
        /\ UNCHANGED ledgerVars
    BY DEF BeginReclaim, ReclaimListing
  <1>2. CallAges'
    BY <1>1, DiscoveryBegins
  <1>3. UNCHANGED <<config, capabilities, index>> /\ RegistryInv'
    BY <1>1, QuietLedger DEF RegistryKept
  <1>4. /\ call'.op = "discover" /\ call'.before = B
        /\ call'.selective = FALSE /\ call'.uncertifiedToo = TRUE
    BY <1>1 DEF DiscoveryOf
  <1>5. \A k \in M : /\ k \in CapabilityKeys /\ CreatorOf(k) = Wallet
                     /\ Issued(k)
                     /\ capabilities[k].slashed \/ k \in B
    BY LiveIsIssued DEF SessionInv, RegistryInv, AllActive, Eligible, Unslashed
  <1>6. /\ DOMAIN reclaim' = {"owned", "mine"}
        /\ reclaim'.mine = M /\ reclaim'.owned = Unread
    BY <1>1
  <1> HIDE DEF M, B
  <1>7. ReclaimAges'
    BY <1>3, <1>4, <1>5, <1>6 DEF ReclaimAges, Calling, Issued
  <1> QED
    BY <1>2, <1>3, <1>7 DEF SessionInv

LEMMA WithdrawNextKeeps ==
    ASSUME SessionInv, WithdrawNext
    PROVE  SessionInv'
  <1>1. /\ reclaim # None /\ reclaim.owned # Unread
        /\ UNCHANGED <<reclaim, ledgerVars>>
    BY DEF WithdrawNext, Reclaiming
  <1>2. PICK k \in reclaim.owned : call' = [op |-> "withdraw", target |-> k, found |-> FALSE]
    BY DEF WithdrawNext, WithdrawalOf
  <1>3. ReclaimAges /\ k \in CapabilityKeys
    BY <1>1 DEF SessionInv, ReclaimAges
  <1>4. CallAges'
    BY <1>2, <1>3
    DEF CallAges, CallTyped, BeforeAges, KeysAge, RecordsAge, LowAfterRecords, NoneTooLow,
        Calling
  <1>5. UNCHANGED <<config, capabilities, index>> /\ RegistryInv'
    BY <1>1, QuietLedger DEF RegistryKept
  <1>6. ReclaimAges'
    BY <1>1, <1>2, <1>3, <1>5 DEF ReclaimAges, Calling, Issued, Live
  <1> QED
    BY <1>4, <1>5, <1>6 DEF SessionInv

LEMMA EndReclaimKeeps ==
    ASSUME SessionInv, EndReclaim
    PROVE  SessionInv'
  <1>1. /\ call' = call /\ reclaim' = None /\ UNCHANGED ledgerVars
    BY DEF EndReclaim
  <1>2. ReclaimAges'
    BY <1>1 DEF ReclaimAges
  <1> QED
    BY <1>1, <1>2, QuietLedger, CallSurvives DEF SessionInv, RegistryKept

-----------------------------------------------------------------------------
LEMMA SessionStepsKeep ==
    ASSUME SessionInv, SessionStep
    PROVE  SessionInv'
  <1>1. ASSUME ReadCapabilityId
        PROVE  SessionInv'
    BY <1>1, AnswerKeeps DEF ReadCapabilityId, Calling
  <1>2. ASSUME CheckRegistrationBalance
        PROVE  SessionInv'
    BY <1>2, AnswerKeeps DEF CheckRegistrationBalance, Calling
  <1>3. ASSUME ReadSlashTreasury
        PROVE  SessionInv'
    BY <1>3, AnswerKeeps DEF ReadSlashTreasury, Calling
  <1>4. ASSUME LookUpRecord
        PROVE  SessionInv'
    BY <1>4, AnswerKeeps DEF LookUpRecord, Calling
  <1> QED
    BY <1>1, <1>2, <1>3, <1>4, BeginKeeps, BeginDiscoveryKeeps, ThrowKeeps, SubmissionsKeep,
       WithdrawalKeeps, ListKeeps, ReadRecordsKeeps, ReadScoresKeeps, ReturnListingKeeps,
       BeginReclaimKeeps, WithdrawNextKeeps, EndReclaimKeeps
    DEF SessionStep

LEMMA SessionNextKeeps ==
    ASSUME SessionInv, [SessionSystemNext]_<<ledgerVars, sessionVars>>
    PROVE  SessionInv'
  <1>1. CASE (CapabilitySystemNext \/ UNCHANGED ledgerVars) /\ UNCHANGED sessionVars
    <2>1. RegistryKept
      BY <1>1, RegistrySteps DEF SessionInv
    <2> QED
      BY <1>1, <2>1, CallSurvives, ReclaimSurvives DEF SessionInv, RegistryKept, sessionVars
  <1>2. CASE SessionStep
    BY <1>2, SessionStepsKeep
  <1> QED
    BY <1>1, <1>2 DEF SessionSystemNext

LEMMA SessionInitEstablishes ==
    ASSUME SessionSystemInit
    PROVE  SessionInv
  <1>1. RuntimeInit /\ ConfigInit /\ CapabilityInit /\ call = None /\ reclaim = None
    BY DEF SessionSystemInit, CapabilitySystemInit, SessionInit
  <1>2. CapabilityInv
    BY <1>1, InitEstablishesRegistry
  <1>3. AllActive
    BY <1>1 DEF CapabilityInit, AllActive, Live
  <1>4. CallAges /\ ReclaimAges
    BY <1>1
    DEF CallAges, CallTyped, BeforeAges, KeysAge, RecordsAge, LowAfterRecords, NoneTooLow,
        ReclaimAges, Calling
  <1> QED
    BY <1>2, <1>3, <1>4 DEF SessionInv, RegistryInv

\* The invariant of a session among any number of keys acting between its requests.
THEOREM SessionInvariant == SessionSystem => []SessionInv
  <1>1. SessionSystemInit => SessionInv
    BY SessionInitEstablishes
  <1>2. SessionInv /\ [SessionSystemNext]_<<ledgerVars, sessionVars>> => SessionInv'
    BY SessionNextKeeps
  <1> QED
    BY <1>1, <1>2, PTL DEF SessionSystem

\* A discovery misses no record that could be listed when it began and still can.
THEOREM DiscoveriesMissNothing == SessionSystem => []DiscoveryMissesNothing
  <1>1. SessionInv => DiscoveryMissesNothing
    BY AnswerMissesNothing
  <1> QED
    BY <1>1, SessionInvariant, PTL

\* What a discovery lists is wrong in one way only, by what was slashed or withdrawn since.
THEOREM ListingsOnlyAge == SessionSystem => []ListingOnlyAges
  <1>1. SessionInv => ListingOnlyAges
    BY AnswerOnlyAges
  <1> QED
    BY <1>1, SessionInvariant, PTL

\* A reclaim loop that ends without an error leaves only slashed records behind.
THEOREM ReclaimsLeaveOnlySlashed == SessionSystem => []ReclaimLeavesOnlySlashed
  <1>1. SessionInv => ReclaimLeavesOnlySlashed
    BY DEF SessionInv, ReclaimAges, ReclaimLeavesOnlySlashed, ReclaimDone, Reclaiming
  <1> QED
    BY <1>1, SessionInvariant, PTL
=============================================================================
