---------------------------- MODULE ClientProofs -----------------------------
(***************************************************************************)
(* What the client and the tool server may rely on although others act     *)
(* between their requests: everything they keep from a read is something   *)
(* the chain never takes back.                                             *)
(***************************************************************************)
EXTENDS ToolServer, HandlerProofs

\* Every id below the counter is that of a completion.
IdsIssued ==
    config # None =>
        \A i \in 1 .. config.next_completion_id - 1 :
            \E c \in CompletionKeys : completions[c] # None /\ completions[c].id = i

ChainInv == ReputationInv /\ IdsIssued

\* What a client may rely on between two requests.
ChainKept ==
    /\ ChainInv'
    /\ HistoryStep
    /\ config # None =>
           /\ config' # None
           /\ config'.treasury = config.treasury
           /\ config'.next_completion_id >= config.next_completion_id

-----------------------------------------------------------------------------
\* No completion is lost, so ids stay issued as long as the counter stays.
LEMMA IdsStayIssued ==
    ASSUME ReputationInv, IdsIssued, HistoryStep,
           \/ config' = config
           \/ config = None /\ config' # None /\ config'.next_completion_id = 1
           \/ /\ config # None
              /\ config'.next_completion_id = config.next_completion_id
    PROVE  IdsIssued'
  <1>1. \A c \in CompletionKeys :
            completions[c] # None => /\ completions'[c] # None
                                     /\ completions'[c].id = completions[c].id
    BY DEF HistoryStep, CompletionKept
  <1>2. CASE config = None /\ config' # None /\ config'.next_completion_id = 1
    BY <1>2 DEF IdsIssued
  <1>3. CASE config # None /\ config'.next_completion_id = config.next_completion_id
    <2> SUFFICES ASSUME NEW i \in 1 .. config.next_completion_id - 1
                 PROVE  \E c \in CompletionKeys : completions'[c] # None /\ completions'[c].id = i
      BY <1>3 DEF IdsIssued
    <2> QED
      BY <1>1, <1>3 DEF IdsIssued
  <1>4. CASE config' = config
    BY <1>1, <1>3, <1>4 DEF IdsIssued
  <1> QED
    BY <1>2, <1>3, <1>4

\* An attestation issues the next id.
LEMMA AttestIssues ==
    ASSUME ChainInv, HistoryStep, NEW authority \in Keys, NEW seq \in Seqs,
           AttestCompletion(authority, seq)
    PROVE  /\ IdsIssued'
           /\ completions'[<<authority, seq>>].id = config.next_completion_id
           /\ completions'[<<authority, seq>>] # None
           /\ config # None
           /\ config'.treasury = config.treasury
           /\ config'.next_completion_id = config.next_completion_id + 1
  <1> DEFINE c == <<authority, seq>>
             record == [id |-> config.next_completion_id, timestamp |-> clock,
                        challenged |-> FALSE, disputed |-> FALSE]
  <1>1. /\ config # None /\ config.next_completion_id < MaxU64
        /\ config' = [config EXCEPT !.next_completion_id = @ + 1]
        /\ completions' = [completions EXCEPT ![c] = record]
    BY DEF AttestCompletion, IssuedId, HasRoom
  <1>2. /\ config \in Config /\ c \in CompletionKeys /\ clock \in Nat
        /\ completions \in [CompletionKeys -> Completion \cup {None}]
        /\ None \notin Completion /\ MaxU64 \in Nat
    BY <1>1, PairsOfKeys, RuntimeAssumption, ReputationAssumption
    DEF ChainInv, ReputationInv, ConfigInv, ConfigTypeOK, ReputationTypeOK, RuntimeTypeOK
  <1>3. /\ config'.next_completion_id = config.next_completion_id + 1
        /\ config'.treasury = config.treasury
        /\ config.next_completion_id \in 1 .. MaxU64 - 1
    BY <1>1, <1>2 DEF Config
  <1>4. /\ completions'[c] = record /\ record # None
    <2>1. record \in Completion
      BY <1>2, <1>3 DEF Completion
    <2> QED
      BY <1>1, <1>2, <2>1
  <1>5. IdsIssued'
    <2> SUFFICES ASSUME NEW i \in 1 .. config'.next_completion_id - 1
                 PROVE  \E d \in CompletionKeys : completions'[d] # None /\ completions'[d].id = i
      BY DEF IdsIssued
    <2>1. CASE i = config.next_completion_id
      BY <1>2, <1>4, <2>1
    <2>2. CASE i # config.next_completion_id
      <3>1. i \in 1 .. config.next_completion_id - 1
        BY <1>3, <2>2
      <3>2. PICK d \in CompletionKeys : completions[d] # None /\ completions[d].id = i
        BY <1>1, <3>1 DEF ChainInv, IdsIssued
      <3> QED
        BY <3>2 DEF HistoryStep, CompletionKept
    <2> QED
      BY <2>1, <2>2
  <1> QED
    BY <1>1, <1>3, <1>4, <1>5

\* Whatever anybody does on chain.
LEMMA ChainSteps ==
    ASSUME ChainInv, ReputationSystemNext \/ UNCHANGED chainVars
    PROVE  ChainKept
  <1>1. /\ ReputationInv /\ IdsIssued /\ ConfigInv /\ RuntimeTypeOK
        /\ config # None => config \in Config
        /\ None \notin Config /\ MaxU64 \in Nat
    BY RuntimeAssumption, ConfigAccountAssumption
    DEF ChainInv, ReputationInv, ConfigInv, ConfigTypeOK
  <1>2. ASSUME UNCHANGED reputationVars
        PROVE  HistoryStep
    BY <1>1, <1>2, UnchangedKept DEF HistoryStep, reputationVars
  <1>3. CASE RuntimeStep /\ UNCHANGED <<configVars, reputationVars>>
    <2>1. /\ RuntimeTypeOK'
          /\ \A v \in Vaults : lamports'[v] >= lamports[v]
          /\ clock' >= clock
      BY <1>1, <1>3, StepsOfRuntime
    <2>2. config' = config /\ ConfigInv' /\ UNCHANGED reputationVars
      BY <1>1, <1>3, <2>1 DEF configVars, ConfigInv, ConfigTypeOK, ConfigInRange
    <2>3. config # None => config'.next_completion_id >= config.next_completion_id
      BY <1>1, <2>2 DEF Config
    <2>4. ReputationInv'
      BY <1>1, <2>1, <2>2, <2>3, ReputationFrame DEF Vaults
    <2> QED
      BY <1>1, <1>2, <2>2, <2>3, <2>4, IdsStayIssued DEF ChainKept, ChainInv
  <1>4. CASE ConfigStep /\ UNCHANGED reputationVars
    <2>1. ConfigStepKeeps
      BY <1>1, <1>4, StepsOfConfig
    <2>2. ConfigInv' /\ clock' >= clock /\ CountersKept
      BY <1>1, <2>1, RuntimeAssumption DEF ConfigStepKeeps, RuntimeTypeOK
    <2>3. config # None =>
              /\ config' # None
              /\ config'.treasury = config.treasury
              /\ config'.next_completion_id = config.next_completion_id
              /\ config'.next_completion_id >= config.next_completion_id
      BY <1>1, <2>2 DEF CountersKept, Config
    <2>4. \A v \in ChallengeVaults : lamports'[v] >= lamports[v]
      BY <1>1, <2>1 DEF ConfigStepKeeps, VaultsKept, RuntimeTypeOK, Accounts, Vaults
    <2>5. ReputationInv'
      BY <1>1, <1>4, <2>2, <2>3, <2>4, ReputationFrame
    <2>6. IdsIssued'
      BY <1>1, <1>2, <1>4, <2>2, <2>3, IdsStayIssued DEF CountersKept
    <2> QED
      BY <1>2, <1>4, <2>3, <2>5, <2>6 DEF ChainKept, ChainInv
  <1>5. CASE ReputationStep
    <2>1. ReputationInv' /\ HistoryStep
      BY <1>1, <1>5, StepsOfReputation, ReputationStepsKeepHistory
    <2>2. ASSUME NEW authority \in Keys, NEW seq \in Seqs, AttestCompletion(authority, seq)
          PROVE  ChainKept
      <3>1. config # None /\ config'.next_completion_id >= config.next_completion_id
        <4>1. config # None /\ config'.next_completion_id = config.next_completion_id + 1
          BY <2>1, <2>2, AttestIssues
        <4>2. config.next_completion_id \in Int
          BY <1>1, <4>1 DEF Config
        <4> QED
          BY <4>1, <4>2
      <3>2. config' # None
        BY <1>1, <1>5, <3>1, ReputationSparesCapabilities
      <3> QED
        BY <1>1, <2>1, <2>2, <3>1, <3>2, AttestIssues DEF ChainKept, ChainInv
    <2>3. ASSUME UNCHANGED configVars
          PROVE  ChainKept
      <3>1. config' = config
        BY <2>3 DEF configVars
      <3>2. IdsIssued'
        BY <1>1, <2>1, <3>1, IdsStayIssued
      <3> QED
        BY <1>1, <2>1, <3>1, <3>2 DEF ChainKept, ChainInv, Config
    <2>4. ASSUME NEW authority \in Keys, NEW profile \in Profiles,
                 RegisterAgent(authority, profile)
          PROVE  UNCHANGED configVars
      BY <2>4 DEF RegisterAgent
    <2>5. ASSUME NEW signer \in Keys, NEW c \in CompletionKeys,
                 \/ ChallengeCompletion(signer, c) \/ CancelChallenge(signer, c)
                 \/ \E upheld \in BOOLEAN : ResolveChallenge(signer, c, upheld)
          PROVE  UNCHANGED configVars
      BY <2>5 DEF ChallengeCompletion, CancelChallenge, ResolveChallenge
    <2> QED
      BY <1>5, <2>2, <2>3, <2>4, <2>5 DEF ReputationStep
  <1>6. CASE UNCHANGED chainVars
    <2>1. /\ UNCHANGED <<agents, completions, challenges>>
          /\ UNCHANGED <<config, pendingAdmin, upgradeAuthority, lamports, clock>>
          /\ UNCHANGED reputationVars
      BY <1>6 DEF chainVars, runtimeVars, configVars, reputationVars
    <2>2. ConfigInv'
      BY <1>1, <2>1 DEF ConfigInv, RuntimeTypeOK, ConfigTypeOK, ConfigInRange
    <2>3. ReputationInv'
      BY <1>1, <2>1, <2>2
      DEF ReputationInv, ReputationTypeOK, CompletionLogDense, DisputesMatchVerdicts,
          DisputedSeqs, Upheld, CompletionIdsOrdered, BondsBacked, TimesPast
    <2>4. IdsIssued'
      BY <1>1, <1>2, <2>1, IdsStayIssued
    <2> QED
      BY <1>1, <1>2, <2>1, <2>3, <2>4 DEF ChainKept, ChainInv, Config
  <1> QED
    BY <1>3, <1>4, <1>5, <1>6 DEF ReputationSystemNext

-----------------------------------------------------------------------------
(* The client's own state. *)

AttestCalls ==
    [op : {"attest"}, seq : Nat \cup {Unread}, nextId : Nat \cup {Unread}, landed : BOOLEAN]
ChallengeCalls ==
    [op : {"challenge"}, target : CompletionKeys, bond : Nat \cup {Unread},
     funded : BOOLEAN, fresh : BOOLEAN]
ResolveCalls ==
    [op : {"resolve"}, target : CompletionKeys, upheld : BOOLEAN, found : BOOLEAN,
     challenger : Keys \cup {Unread}, treasury : Keys \cup {Unread}]
CancelCalls == [op : {"cancel"}, target : CompletionKeys, owned : BOOLEAN]

CallTyped ==
    call # None => call \in AttestCalls \cup ChallengeCalls \cup ResolveCalls \cup CancelCalls

\* The id that is expected was the counter's at some moment of the past: it has been
\* issued by the time the attestation lands.
ExpectedIdPast ==
    Calling("attest") =>
        /\ call.nextId # Unread =>
               /\ config # None
               /\ call.nextId \in 1 .. config.next_completion_id
        /\ call.landed =>
               /\ call.nextId # Unread
               /\ <<Wallet, call.seq>> \in CompletionKeys
               /\ completions[<<Wallet, call.seq>>] # None
               /\ call.nextId <= completions[<<Wallet, call.seq>>].id

ResolveAccountsRead ==
    Calling("resolve") =>
        /\ call.challenger # Unread =>
               /\ challenges[call.target] # None
               /\ call.challenger = challenges[call.target].challenger
        /\ call.treasury # Unread => config # None /\ call.treasury = config.treasury

RefusalHolds ==
    refused # None =>
        /\ refused.why = "AlreadyChallenged" =>
               /\ refused.target \in CompletionKeys
               /\ completions[refused.target] # None
               /\ completions[refused.target].challenged
        /\ refused.why = "Unauthorized" =>
               /\ refused.target \in CompletionKeys
               /\ challenges[refused.target] # None
               /\ challenges[refused.target].challenger # Wallet

ReturnedIssued ==
    returned # None =>
        /\ returned.completion \in CompletionKeys
        /\ completions[returned.completion] # None
        /\ ReturnedIdNotAhead

ServingInv ==
    /\ Calling("challenge") =>
           serving = [tool |-> "challenge_completion", target |-> call.target,
                      argument |-> "text", landed |-> FALSE]
    /\ serving # None =>
           /\ Calling("resolve") => (call.upheld <=> serving.argument \in {"true", "'true'"})
           /\ serving.landed =>
                  /\ serving.target \in CompletionKeys
                  /\ challenges[serving.target] # None
                  /\ challenges[serving.target].challenger = Wallet

CallInv == CallTyped /\ ExpectedIdPast /\ ResolveAccountsRead

ClientInv == ChainInv /\ CallInv /\ RefusalHolds /\ ReturnedIssued

\* What a call needs of the chain's types.
LEMMA ChainTypes ==
    ASSUME ChainInv
    PROVE  /\ config # None => config \in Config /\ config.next_completion_id \in Nat
                               /\ config.next_completion_id >= 1
                               /\ config.treasury \in Keys
                               /\ config.challenge_bond_lamports \in Nat
           /\ agents \in [Keys -> Agent \cup {None}]
           /\ completions \in [CompletionKeys -> Completion \cup {None}]
           /\ challenges \in [CompletionKeys -> Challenge \cup {None}]
           /\ None \notin Keys /\ None \notin Nat
           /\ \A c \in CompletionKeys : completions[c] # None => completions[c].id \in Nat
           /\ \A c \in CompletionKeys :
                  challenges[c] # None => challenges[c].challenger \in Keys
           /\ \A c \in CompletionKeys :
                  completions[c] # None =>
                      config # None /\ completions[c].id < config.next_completion_id
           /\ Wallet \in Keys
           /\ Targets \subseteq CompletionKeys
           /\ AgentOf(Wallet).completions \in Nat
  <1>1. /\ config # None => config \in Config
        /\ agents \in [Keys -> Agent \cup {None}]
        /\ completions \in [CompletionKeys -> Completion \cup {None}]
        /\ challenges \in [CompletionKeys -> Challenge \cup {None}]
        /\ MaxU64 \in Nat
    BY RuntimeAssumption DEF ChainInv, ReputationInv, ConfigInv, ConfigTypeOK, ReputationTypeOK
  <1>2. config # None => /\ config.next_completion_id \in Nat
                         /\ config.next_completion_id >= 1
                         /\ config.treasury \in Keys
                         /\ config.challenge_bond_lamports \in Nat
    BY <1>1 DEF Config
  <1>3. \A c \in CompletionKeys : completions[c] # None => completions[c].id \in Nat
    BY <1>1 DEF Completion
  <1>4. \A c \in CompletionKeys : challenges[c] # None => challenges[c].challenger \in Keys
    BY <1>1 DEF Challenge
  <1>5. \A c \in CompletionKeys :
            completions[c] # None =>
                config # None /\ completions[c].id < config.next_completion_id
    BY DEF ChainInv, ReputationInv, CompletionIdsOrdered
  <1>6. AgentOf(Wallet).completions \in Nat
    BY <1>1, ClientAssumption DEF AgentOf, NewAgent, Agent
  <1> QED
    BY <1>1, <1>2, <1>3, <1>4, <1>5, <1>6, RuntimeAssumption, ClientAssumption

LEMMA NextCounterTyped ==
    ASSUME ChainInv'
    PROVE  config' # None => config'.next_completion_id \in Nat
  <1>1. config' # None => config' \in Config
    BY DEF ChainInv, ReputationInv, ConfigInv, ConfigTypeOK
  <1> QED
    BY <1>1, RuntimeAssumption DEF Config

\* A refusal stays true, whatever happens on chain.
LEMMA RefusalStays ==
    ASSUME ChainKept, RefusalHolds, UNCHANGED refused
    PROVE  RefusalHolds'
  BY DEF ChainKept, HistoryStep, CompletionKept, ChallengeKept, RefusalHolds

\* An id that was issued stays that of the same completion.
LEMMA ReturnedStays ==
    ASSUME ChainKept, ReturnedIssued, UNCHANGED returned
    PROVE  ReturnedIssued'
  <1>1. \A c \in CompletionKeys :
            completions[c] # None => /\ completions'[c] # None
                                     /\ completions'[c].id = completions[c].id
    BY DEF ChainKept, HistoryStep, CompletionKept
  <1> SUFFICES ASSUME returned # None
               PROVE  /\ completions'[returned.completion] # None
                      /\ \E c \in CompletionKeys :
                             /\ completions'[c] # None
                             /\ completions'[c].id = returned.completionId
                             /\ completions'[c].id <= completions'[returned.completion].id
    BY DEF ReturnedIssued, ReturnedIdNotAhead
  <1>2. /\ returned.completion \in CompletionKeys
        /\ completions[returned.completion] # None
    BY DEF ReturnedIssued
  <1>3. PICK c \in CompletionKeys :
            /\ completions[c] # None /\ completions[c].id = returned.completionId
            /\ completions[c].id <= completions[returned.completion].id
    BY DEF ReturnedIssued, ReturnedIdNotAhead
  <1> QED
    BY <1>1, <1>2, <1>3

\* What a call in progress has read stays true, whatever happens on chain.
LEMMA CallStays ==
    ASSUME ChainInv, ChainKept, CallInv, UNCHANGED call
    PROVE  CallInv'
  <1>1. CallTyped'
    BY DEF CallInv, CallTyped
  <1>2. /\ \A c \in CompletionKeys :
               completions[c] # None => /\ completions'[c] # None
                                        /\ completions'[c].id = completions[c].id
        /\ \A c \in CompletionKeys :
               challenges[c] # None =>
                   /\ challenges'[c] # None
                   /\ challenges'[c].challenger = challenges[c].challenger
        /\ config # None =>
               /\ config' # None
               /\ config'.treasury = config.treasury
               /\ config'.next_completion_id >= config.next_completion_id
    BY DEF ChainKept, HistoryStep, CompletionKept, ChallengeKept
  <1>3. ExpectedIdPast'
    <2> SUFFICES ASSUME Calling("attest")
                 PROVE  ExpectedIdPast'
      BY DEF ExpectedIdPast, Calling
    <2>1. call.nextId # Unread => config' # None /\ call.nextId \in 1 .. config'.next_completion_id
      <3>1. config # None => config.next_completion_id \in Nat
        BY ChainTypes
      <3>2. config' # None => config'.next_completion_id \in Nat
        BY NextCounterTyped DEF ChainKept
      <3> QED
        BY <1>2, <3>1, <3>2 DEF CallInv, ExpectedIdPast
    <2> QED
      BY <1>2, <2>1 DEF CallInv, ExpectedIdPast
  <1>4. ResolveAccountsRead'
    <2>1. Calling("resolve") => call.target \in CompletionKeys
      BY DEF CallInv, CallTyped, Calling, AttestCalls, ChallengeCalls, ResolveCalls, CancelCalls
    <2> QED
      BY <1>2, <2>1 DEF CallInv, ResolveAccountsRead, Calling
  <1> QED
    BY <1>1, <1>3, <1>4 DEF CallInv

\* A call that is over has nothing left to be wrong about.
LEMMA CallOver ==
    ASSUME call' = None
    PROVE  CallInv'
  BY DEF CallInv, CallTyped, ExpectedIdPast, ResolveAccountsRead, Calling

-----------------------------------------------------------------------------
(* The steps of the client. *)

\* A step of a call keeps what the call was asked for.
SameCall ==
    \/ call' = None
    \/ /\ call # None /\ call'.op = call.op
       /\ Calling("resolve") => call'.upheld = call.upheld
       /\ Calling("challenge") => call'.target = call.target

\* Nothing on chain changes, neither do the records of what was refused or returned.
LEMMA QuietSteps ==
    ASSUME ClientInv, UNCHANGED chainVars
    PROVE  /\ ChainInv'
           /\ UNCHANGED refused => RefusalHolds'
           /\ UNCHANGED returned => ReturnedIssued'
  BY ChainSteps, RefusalStays, ReturnedStays DEF ClientInv, ChainKept

LEMMA BeginKeeps ==
    ASSUME ClientInv, NEW request \in Requests, Begin(request)
    PROVE  ClientInv'
  <1>1. /\ call' = request /\ returned' = None
        /\ UNCHANGED <<refused, chainVars>>
    BY DEF Begin
  <1>2. None \notin Nat /\ Unread = None /\ Seqs \subseteq Nat /\ Targets \subseteq CompletionKeys
    BY ClientAssumption, RuntimeAssumption DEF Unread, Seqs
  <1>3. /\ request.op = "attest" => request \in AttestCalls /\ request.nextId = Unread
                                    /\ ~request.landed
        /\ request.op = "resolve" => request \in ResolveCalls /\ request.challenger = Unread
                                     /\ request.treasury = Unread
        /\ request.op = "challenge" => request \in ChallengeCalls
        /\ request.op = "cancel" => request \in CancelCalls
        /\ request.op \in {"attest", "resolve", "challenge", "cancel"}
    <2>1. CASE request = Attest
      BY <1>2, <2>1 DEF Attest, AttestCalls
    <2>2. CASE \E seq \in Seqs : request = AttestSeq(seq)
      <3>1. PICK seq \in Seqs : request = [Attest EXCEPT !.seq = seq]
        BY <2>2 DEF AttestSeq
      <3>2. request = [op |-> "attest", seq |-> seq, nextId |-> Unread, landed |-> FALSE]
        BY <3>1 DEF Attest
      <3>3. seq \in Nat
        BY <1>2
      <3> QED
        BY <3>2, <3>3 DEF AttestCalls
    <2>3. CASE \E c \in Targets : request = ChallengeOf(c)
      <3>1. PICK c \in Targets :
                request = [op |-> "challenge", target |-> c, bond |-> Unread,
                           funded |-> FALSE, fresh |-> FALSE]
        BY <2>3 DEF ChallengeOf
      <3>2. c \in CompletionKeys
        BY <1>2
      <3> QED
        BY <3>1, <3>2 DEF ChallengeCalls
    <2>4. CASE \E c \in Targets, upheld \in BOOLEAN : request = ResolutionOf(c, upheld)
      <3>1. PICK c \in Targets, upheld \in BOOLEAN :
                request = [op |-> "resolve", target |-> c, upheld |-> upheld,
                           found |-> FALSE, challenger |-> Unread, treasury |-> Unread]
        BY <2>4 DEF ResolutionOf
      <3>2. c \in CompletionKeys
        BY <1>2
      <3> QED
        BY <3>1, <3>2 DEF ResolveCalls
    <2>5. CASE \E c \in Targets : request = CancellationOf(c)
      <3>1. PICK c \in Targets : request = [op |-> "cancel", target |-> c, owned |-> FALSE]
        BY <2>5 DEF CancellationOf
      <3>2. c \in CompletionKeys
        BY <1>2
      <3> QED
        BY <3>1, <3>2 DEF CancelCalls
    <2> QED
      BY <2>1, <2>2, <2>3, <2>4, <2>5 DEF Requests
  <1>4. CallInv'
    BY <1>1, <1>3 DEF CallInv, CallTyped, ExpectedIdPast, ResolveAccountsRead, Calling
  <1>5. ReturnedIssued'
    BY <1>1 DEF ReturnedIssued
  <1> QED
    BY <1>1, <1>4, <1>5, QuietSteps DEF ClientInv

\* A call that throws or is refused ends; a refusal for something final is true.
LEMMA RefuseKeeps ==
    ASSUME ClientInv, NEW why, Refuse(why),
           why = "AlreadyChallenged" =>
               /\ call.target \in CompletionKeys
               /\ completions[call.target] # None /\ completions[call.target].challenged,
           why = "Unauthorized" =>
               /\ call.target \in CompletionKeys
               /\ challenges[call.target] # None
               /\ challenges[call.target].challenger # Wallet
    PROVE  ClientInv' /\ SameCall
  <1>1. /\ refused' = [target |-> call.target, why |-> why]
        /\ call' = None
        /\ UNCHANGED <<returned, chainVars>>
    BY DEF Refuse
  <1>2. UNCHANGED <<completions, challenges>>
    BY <1>1 DEF chainVars, reputationVars
  <1>3. RefusalHolds'
    BY <1>1, <1>2 DEF RefusalHolds
  <1> QED
    BY <1>1, <1>3, QuietSteps, CallOver DEF ClientInv, SameCall

\* An answer updates one field of the call.
LEMMA AnswerKeeps ==
    ASSUME ClientInv, NEW updated, Answer(updated),
           updated \in AttestCalls \cup ChallengeCalls \cup ResolveCalls \cup CancelCalls,
           call # None,
           updated.op = call.op,
           Calling("challenge") => updated.target = call.target,
           Calling("resolve") =>
               /\ updated.upheld = call.upheld
               /\ updated.challenger # Unread =>
                      /\ challenges[updated.target] # None
                      /\ updated.challenger = challenges[updated.target].challenger
               /\ updated.treasury # Unread =>
                      config # None /\ updated.treasury = config.treasury,
           Calling("attest") =>
               /\ ~updated.landed
               /\ updated.nextId # Unread =>
                      config # None /\ updated.nextId \in 1 .. config.next_completion_id
    PROVE  ClientInv' /\ SameCall
  <1>1. /\ call' = updated
        /\ UNCHANGED <<returned, refused, chainVars>>
    BY DEF Answer
  <1>2. UNCHANGED <<config, completions, challenges>>
    BY <1>1 DEF chainVars, configVars, reputationVars
  <1>3. CallTyped' /\ ExpectedIdPast' /\ ResolveAccountsRead'
    BY <1>1, <1>2 DEF CallTyped, ExpectedIdPast, ResolveAccountsRead, Calling
  <1>4. SameCall
    BY <1>1 DEF SameCall
  <1> QED
    BY <1>1, <1>3, <1>4, QuietSteps DEF ClientInv, CallInv

\* The sequence number is known before anything is submitted.
LEMMA SeqBeforeLanding ==
    ASSUME CallInv, ReadSeq
    PROVE  ~call.landed
  <1>1. Calling("attest") /\ call.seq = None
    BY DEF ReadSeq, Unread
  <1>2. call.landed => <<Wallet, call.seq>> \in CompletionKeys
    BY <1>1 DEF CallInv, ExpectedIdPast
  <1>3. None \notin Seqs
    BY ClientAssumption, RuntimeAssumption DEF Seqs
  <1> QED
    BY <1>1, <1>2, <1>3 DEF CompletionKeys

\* The reads.
LEMMA ReadsKeep ==
    ASSUME ClientInv,
           \/ ReadSeq \/ ReadNextId \/ ReadBond \/ CheckBalance \/ LookUpCompletion
           \/ ReadChallenger \/ ReadTarget \/ ReadTreasury \/ LookUpChallenge
    PROVE  ClientInv' /\ SameCall
  <1> DEFINE Kept == ClientInv' /\ SameCall
  <1>1. ChainInv /\ CallInv
    BY DEF ClientInv
  <1>2. /\ Calling("attest") => call \in AttestCalls
        /\ Calling("challenge") => call \in ChallengeCalls
        /\ Calling("resolve") => call \in ResolveCalls
        /\ Calling("cancel") => call \in CancelCalls
    BY <1>1 DEF CallInv, CallTyped, Calling, AttestCalls, ChallengeCalls, ResolveCalls, CancelCalls
  <1>3. CASE ReadSeq
    <2> DEFINE updated == [call EXCEPT !.seq = AgentOf(Wallet).completions]
    <2>1. Calling("attest") /\ call \in AttestCalls /\ call # None /\ Answer(updated)
      BY <1>2, <1>3 DEF ReadSeq, Calling
    <2>2. /\ updated \in AttestCalls
          /\ updated.nextId = call.nextId /\ updated.landed = call.landed
          /\ updated.op = "attest"
      BY <1>1, <2>1, ChainTypes DEF AttestCalls
    <2>3. ~call.landed
      BY <1>1, <1>3, <2>1, SeqBeforeLanding
    <2> QED
      BY <1>1, <2>1, <2>2, <2>3, AnswerKeeps DEF CallInv, ExpectedIdPast, Calling
  <1>4. CASE ReadNextId
    <2> DEFINE updated == [call EXCEPT !.nextId = config.next_completion_id]
    <2>1. /\ Calling("attest") /\ call \in AttestCalls /\ call # None /\ Answer(updated)
          /\ config # None /\ call.nextId = Unread
      BY <1>2, <1>4 DEF ReadNextId, Calling
    <2>2. /\ updated \in AttestCalls
          /\ updated.nextId = config.next_completion_id /\ updated.landed = call.landed
          /\ updated.op = "attest"
      BY <1>1, <2>1, ChainTypes DEF AttestCalls
    <2>3. ~call.landed
      BY <1>1, <2>1 DEF CallInv, ExpectedIdPast
    <2>4. config.next_completion_id \in 1 .. config.next_completion_id
      BY <1>1, <2>1, ChainTypes
    <2> QED
      BY <2>1, <2>2, <2>3, <2>4, AnswerKeeps DEF Calling
  <1>5. CASE ReadBond
    <2> DEFINE updated == [call EXCEPT !.bond = config.challenge_bond_lamports]
    <2>1. /\ Calling("challenge") /\ call \in ChallengeCalls /\ call # None /\ Answer(updated)
          /\ config # None
      BY <1>2, <1>5 DEF ReadBond, Calling
    <2>2. /\ updated \in ChallengeCalls
          /\ updated.op = "challenge" /\ updated.target = call.target
      BY <1>1, <2>1, ChainTypes DEF ChallengeCalls
    <2> QED
      BY <2>1, <2>2, AnswerKeeps DEF Calling
  <1>6. CASE CheckBalance
    <2> DEFINE updated == [call EXCEPT !.funded = TRUE]
    <2>1. Calling("challenge") /\ call \in ChallengeCalls /\ call # None
      BY <1>2, <1>6 DEF CheckBalance, Calling
    <2>2. Refuse("InsufficientBalance") \/ Answer(updated)
      BY <1>6 DEF CheckBalance
    <2>3. /\ updated \in ChallengeCalls
          /\ updated.op = "challenge" /\ updated.target = call.target
      BY <2>1 DEF ChallengeCalls
    <2> QED
      BY <2>1, <2>2, <2>3, AnswerKeeps, RefuseKeeps DEF Calling
  <1>7. CASE LookUpCompletion
    <2> DEFINE updated == [call EXCEPT !.fresh = TRUE]
    <2>1. Calling("challenge") /\ call \in ChallengeCalls /\ call # None
      BY <1>2, <1>7 DEF LookUpCompletion, Calling
    <2>2. \/ Refuse("AccountNotFound")
          \/ /\ Refuse("AlreadyChallenged")
             /\ completions[call.target] # None /\ completions[call.target].challenged
          \/ Answer(updated)
      BY <1>7 DEF LookUpCompletion
    <2>3. /\ updated \in ChallengeCalls
          /\ updated.op = "challenge" /\ updated.target = call.target
          /\ call.target \in CompletionKeys
      BY <2>1 DEF ChallengeCalls
    <2> QED
      BY <2>1, <2>2, <2>3, AnswerKeeps, RefuseKeeps DEF Calling
  <1>8. CASE ReadChallenger
    <2> DEFINE updated == [call EXCEPT !.challenger = challenges[call.target].challenger]
    <2>1. Calling("resolve") /\ call \in ResolveCalls /\ call # None
      BY <1>2, <1>8 DEF ReadChallenger, Calling
    <2>2. \/ Refuse("AccountNotFound")
          \/ challenges[call.target] # None /\ Answer(updated)
      BY <1>8 DEF ReadChallenger
    <2>3. CASE challenges[call.target] # None /\ Answer(updated)
      <3>1. challenges[call.target].challenger \in Keys
        BY <1>1, <2>1, <2>3, ChainTypes DEF ResolveCalls
      <3>2. /\ updated \in ResolveCalls
            /\ updated.op = "resolve" /\ updated.target = call.target
            /\ updated.upheld = call.upheld /\ updated.treasury = call.treasury
            /\ updated.challenger = challenges[call.target].challenger
        BY <2>1, <3>1 DEF ResolveCalls
      <3> QED
        BY <1>1, <2>1, <2>3, <3>2, AnswerKeeps DEF Calling, CallInv, ResolveAccountsRead
    <2> QED
      BY <2>2, <2>3, RefuseKeeps
  <1>9. CASE ReadTarget
    <2> DEFINE updated == [call EXCEPT !.found = TRUE]
    <2>1. Calling("resolve") /\ call \in ResolveCalls /\ call # None
      BY <1>2, <1>9 DEF ReadTarget, Calling
    <2>2. Refuse("AccountNotFound") \/ Answer(updated)
      BY <1>9 DEF ReadTarget
    <2>3. /\ updated \in ResolveCalls
          /\ updated.op = "resolve" /\ updated.target = call.target
          /\ updated.upheld = call.upheld /\ updated.treasury = call.treasury
          /\ updated.challenger = call.challenger
      BY <2>1 DEF ResolveCalls
    <2> QED
      BY <1>1, <2>1, <2>2, <2>3, AnswerKeeps, RefuseKeeps
      DEF Calling, CallInv, ResolveAccountsRead
  <1>10. CASE ReadTreasury
    <2> DEFINE updated == [call EXCEPT !.treasury = config.treasury]
    <2>1. /\ Calling("resolve") /\ call \in ResolveCalls /\ call # None
          /\ config # None /\ Answer(updated)
      BY <1>2, <1>10 DEF ReadTreasury, Calling
    <2>2. /\ updated \in ResolveCalls
          /\ updated.op = "resolve" /\ updated.target = call.target
          /\ updated.upheld = call.upheld /\ updated.treasury = config.treasury
          /\ updated.challenger = call.challenger
      BY <1>1, <2>1, ChainTypes DEF ResolveCalls
    <2> QED
      BY <1>1, <2>1, <2>2, AnswerKeeps DEF Calling, CallInv, ResolveAccountsRead
  <1>11. CASE LookUpChallenge
    <2> DEFINE updated == [call EXCEPT !.owned = TRUE]
    <2>1. Calling("cancel") /\ call \in CancelCalls /\ call # None
      BY <1>2, <1>11 DEF LookUpChallenge, Calling
    <2>2. \/ Refuse("AccountNotFound")
          \/ /\ Refuse("Unauthorized")
             /\ challenges[call.target] # None
             /\ challenges[call.target].challenger # Wallet
          \/ Answer(updated)
      BY <1>11 DEF LookUpChallenge
    <2>3. /\ updated \in CancelCalls
          /\ updated.op = "cancel" /\ call.target \in CompletionKeys
      BY <2>1 DEF CancelCalls
    <2> QED
      BY <2>1, <2>2, <2>3, AnswerKeeps, RefuseKeeps DEF Calling
  <1> QED
    BY <1>3, <1>4, <1>5, <1>6, <1>7, <1>8, <1>9, <1>10, <1>11

\* The submissions are steps of the chain, and end the call, except an attestation.
LEMMA SubmissionsKeep ==
    ASSUME ClientInv,
           \/ /\ Calling("challenge")
              /\ ChallengeCompletion(Wallet, call.target)
           \/ /\ Calling("resolve")
              /\ ResolveChallenge(Wallet, call.target, call.upheld)
           \/ /\ Calling("cancel")
              /\ CancelChallenge(Wallet, call.target),
           call' = None, UNCHANGED <<returned, refused>>
    PROVE  ClientInv' /\ SameCall
  <1>1. /\ Calling("challenge") => call.target \in CompletionKeys
        /\ Calling("resolve") => call.target \in CompletionKeys /\ call.upheld \in BOOLEAN
        /\ Calling("cancel") => call.target \in CompletionKeys
    BY DEF ClientInv, CallInv, CallTyped, Calling,
           AttestCalls, ChallengeCalls, ResolveCalls, CancelCalls
  <1>2. ReputationStep
    BY <1>1, ClientAssumption DEF ReputationStep
  <1>3. ChainKept
    BY <1>2, ChainSteps DEF ClientInv, ReputationSystemNext
  <1> QED
    BY <1>3, RefusalStays, ReturnedStays, CallOver DEF ClientInv, ChainKept, SameCall

LEMMA SubmitAttestKeeps ==
    ASSUME ClientInv, SubmitAttest
    PROVE  ClientInv' /\ SameCall
  <1>1. /\ Calling("attest") /\ call.nextId # Unread /\ call.seq \in Seqs
        /\ AttestCompletion(Wallet, call.seq)
        /\ call' = [call EXCEPT !.landed = TRUE]
        /\ UNCHANGED <<returned, refused>>
    BY DEF SubmitAttest
  <1>2. call \in AttestCalls /\ call # None
    BY <1>1 DEF ClientInv, CallInv, CallTyped, Calling,
                AttestCalls, ChallengeCalls, ResolveCalls, CancelCalls
  <1>3. /\ call' \in AttestCalls /\ call'.op = "attest"
        /\ call'.seq = call.seq /\ call'.nextId = call.nextId
    BY <1>1, <1>2 DEF AttestCalls
  <1>4. ReputationStep /\ ChainInv /\ Wallet \in Keys
    BY <1>1, ClientAssumption DEF ReputationStep, ClientInv
  <1>5. ChainKept
    BY <1>4, ChainSteps DEF ReputationSystemNext
  <1>6. /\ completions'[<<Wallet, call.seq>>].id = config.next_completion_id
        /\ completions'[<<Wallet, call.seq>>] # None
        /\ config # None
        /\ config'.next_completion_id = config.next_completion_id + 1
        /\ config' # None
        /\ <<Wallet, call.seq>> \in CompletionKeys
    BY <1>1, <1>4, <1>5, AttestIssues, PairsOfKeys DEF ChainKept
  <1>7. /\ call.nextId \in 1 .. config.next_completion_id
        /\ config.next_completion_id \in Nat
    BY <1>1, <1>4, <1>6, ChainTypes DEF ClientInv, CallInv, ExpectedIdPast
  <1>8. CallInv'
    <2>1. CallTyped' /\ ResolveAccountsRead'
      BY <1>3 DEF CallTyped, ResolveAccountsRead, Calling
    <2>2. call'.nextId \in 1 .. config'.next_completion_id
      BY <1>3, <1>6, <1>7
    <2>3. call'.nextId <= completions'[<<Wallet, call'.seq>>].id
      BY <1>3, <1>6, <1>7
    <2>4. call'.nextId # Unread /\ <<Wallet, call'.seq>> \in CompletionKeys
          /\ completions'[<<Wallet, call'.seq>>] # None
      BY <1>1, <1>3, <1>6
    <2> QED
      BY <1>3, <1>6, <2>1, <2>2, <2>3, <2>4 DEF CallInv, ExpectedIdPast
  <1>9. SameCall
    BY <1>1, <1>2, <1>3 DEF SameCall, Calling
  <1> QED
    BY <1>1, <1>5, <1>8, <1>9, RefusalStays, ReturnedStays DEF ClientInv, ChainKept

\* Any id up to that of a landed completion has been issued.
LEMMA ReturnKeeps ==
    ASSUME ClientInv, Calling("attest"), call.landed,
           NEW id \in Nat, id >= 1,
           id <= completions[<<Wallet, call.seq>>].id,
           returned' = [completion |-> <<Wallet, call.seq>>, completionId |-> id],
           call' = None,
           UNCHANGED <<refused, chainVars>>
    PROVE  ClientInv' /\ SameCall
  <1> DEFINE c == <<Wallet, call.seq>>
  <1>1. /\ c \in CompletionKeys /\ completions[c] # None
        /\ ChainInv
    BY DEF ClientInv, CallInv, ExpectedIdPast
  <1>2. /\ completions[c].id \in Nat /\ config # None
        /\ completions[c].id < config.next_completion_id
        /\ config.next_completion_id \in Nat
        /\ \A d \in CompletionKeys : completions[d] # None => completions[d].id \in Nat
    BY <1>1, ChainTypes
  <1>3. id \in 1 .. config.next_completion_id - 1
    BY <1>2
  <1>4. PICK d \in CompletionKeys : completions[d] # None /\ completions[d].id = id
    BY <1>1, <1>2, <1>3 DEF ChainInv, IdsIssued
  <1>5. UNCHANGED <<config, completions>>
    BY DEF chainVars, configVars, reputationVars
  <1>6. ReturnedIssued'
    BY <1>1, <1>4, <1>5 DEF ReturnedIssued, ReturnedIdNotAhead
  <1> QED
    BY <1>6, QuietSteps, CallOver DEF ClientInv, SameCall

LEMMA CallStepsKeep ==
    ASSUME ClientInv, CallStep
    PROVE  ClientInv' /\ SameCall
  <1>1. CASE Throw
    BY <1>1, QuietSteps, CallOver DEF Throw, ClientInv, SameCall
  <1>2. CASE SubmitResolve
    BY <1>2, SubmissionsKeep DEF SubmitResolve, ResolveReady
  <1>3. CASE SubmitCancel
    BY <1>3, SubmissionsKeep DEF SubmitCancel
  <1>4. CASE PostRead
    <2>1. /\ Calling("attest") /\ call.landed
          /\ returned' = [completion |-> <<Wallet, call.seq>>,
                          completionId |-> completions[<<Wallet, call.seq>>].id]
          /\ call' = None /\ UNCHANGED <<refused, chainVars>>
      BY <1>4 DEF PostRead, ReturnAttest, IdFromRead
    <2>2. completions[<<Wallet, call.seq>>].id \in Nat
      BY <2>1, ChainTypes DEF ClientInv, CallInv, ExpectedIdPast
    <2>3. call.nextId \in Nat /\ call.nextId >= 1
          /\ call.nextId <= completions[<<Wallet, call.seq>>].id
      BY <2>1, ChainTypes DEF ClientInv, CallInv, ExpectedIdPast
    <2>4. completions[<<Wallet, call.seq>>].id >= 1
      BY <2>2, <2>3
    <2> QED
      BY <2>1, <2>2, <2>4, ReturnKeeps
  <1>5. CASE PostReadFails
    <2>1. /\ Calling("attest") /\ call.landed
          /\ returned' = [completion |-> <<Wallet, call.seq>>, completionId |-> call.nextId]
          /\ call' = None /\ UNCHANGED <<refused, chainVars>>
      BY <1>5 DEF PostReadFails, ReturnAttest, IdReadBefore
    <2>2. call.nextId \in Nat /\ call.nextId >= 1
          /\ call.nextId <= completions[<<Wallet, call.seq>>].id
      BY <2>1, ChainTypes DEF ClientInv, CallInv, ExpectedIdPast
    <2> QED
      BY <2>1, <2>2, ReturnKeeps
  <1> QED
    BY <1>1, <1>2, <1>3, <1>4, <1>5, ReadsKeep, SubmitAttestKeeps DEF CallStep

-----------------------------------------------------------------------------
(* The tool server. *)

ServerInv == ClientInv /\ ServingInv

\* The challenge a tool has placed stays the wallet's, whatever happens on chain.
LEMMA ServingStays ==
    ASSUME ChainKept, ServingInv, SameCall \/ UNCHANGED call,
           serving' = serving \/ (serving' = None /\ call' = None)
    PROVE  ServingInv'
  <1>1. serving # None /\ serving.landed =>
            /\ challenges'[serving.target] # None
            /\ challenges'[serving.target].challenger = Wallet
    BY DEF ServingInv, ChainKept, HistoryStep, ChallengeKept
  <1>2. CASE call' = None
    BY <1>1, <1>2 DEF ServingInv, Calling
  <1>3. CASE call' # None
    <2>1. /\ serving' = serving /\ call # None /\ call'.op = call.op
          /\ Calling("resolve") => call'.upheld = call.upheld
          /\ Calling("challenge") => call'.target = call.target
      BY <1>3 DEF SameCall, Calling
    <2> QED
      BY <1>1, <1>3, <2>1 DEF ServingInv, Calling
  <1> QED
    BY <1>2, <1>3

LEMMA ServeKeeps ==
    ASSUME ServerInv, NEW request \in Requests,
           NEW tool, NEW target, NEW argument, Serve(tool, target, argument, request),
           request.op = "challenge" =>
               /\ tool = "challenge_completion" /\ target = request.target
               /\ argument = "text",
           request.op = "resolve" => (request.upheld <=> argument \in {"true", "'true'"})
    PROVE  ServerInv'
  <1>1. /\ call' = request /\ Begin(request)
        /\ serving' = [tool |-> tool, target |-> target, argument |-> argument,
                       landed |-> FALSE]
    BY DEF Serve, Begin
  <1>2. ClientInv'
    BY <1>1, BeginKeeps DEF ServerInv
  <1>3. ServingInv'
    BY <1>1 DEF ServingInv, Calling
  <1> QED
    BY <1>2, <1>3 DEF ServerInv

\* A step of a call is a step of the chain or leaves it alone.
LEMMA CallStepsOnChain ==
    ASSUME ClientInv, CallStep \/ SubmitChallenge
    PROVE  ChainKept
  <1>1. /\ Calling("challenge") => call.target \in CompletionKeys
        /\ Calling("resolve") => call.target \in CompletionKeys /\ call.upheld \in BOOLEAN
        /\ Calling("cancel") => call.target \in CompletionKeys
        /\ ChainInv /\ Wallet \in Keys
    BY ClientAssumption
    DEF ClientInv, CallInv, CallTyped, Calling,
        AttestCalls, ChallengeCalls, ResolveCalls, CancelCalls
  <1>2. CASE SubmitAttest \/ SubmitResolve \/ SubmitCancel \/ SubmitChallenge
    <2>1. ReputationStep
      BY <1>1, <1>2
      DEF SubmitAttest, SubmitResolve, ResolveReady, SubmitCancel, SubmitChallenge, Calling,
          ReputationStep
    <2> QED
      BY <1>1, <2>1, ChainSteps DEF ReputationSystemNext
  <1>3. CASE ReadSeq \/ ReadNextId \/ ReadBond \/ CheckBalance \/ LookUpCompletion
             \/ ReadChallenger \/ ReadTarget \/ ReadTreasury \/ LookUpChallenge
    <2>1. UNCHANGED chainVars
      BY <1>3 DEF ReadSeq, ReadNextId, ReadBond, CheckBalance, LookUpCompletion,
                  ReadChallenger, ReadTarget, ReadTreasury, LookUpChallenge, Answer, Refuse
    <2> QED
      BY <1>1, <2>1, ChainSteps
  <1>4. CASE Throw \/ PostRead \/ PostReadFails
    <2>1. UNCHANGED chainVars
      BY <1>4 DEF Throw, PostRead, PostReadFails, ReturnAttest
    <2> QED
      BY <1>1, <2>1, ChainSteps
  <1> QED
    BY <1>2, <1>3, <1>4 DEF CallStep

LEMMA ServingSteps ==
    ASSUME ServerInv,
           ServeAttestation \/ ServeChallenge \/ ServeResolution \/ Use
    PROVE  ServerInv'
  <1>1. CASE ServeAttestation
    <2>1. Serve("attest_completion", None, "text", Attest) /\ Attest \in Requests
      BY <1>1 DEF ServeAttestation, Requests
    <2>2. Attest.op = "attest"
      BY DEF Attest
    <2> QED
      BY <2>1, <2>2, ServeKeeps
  <1>2. CASE ServeChallenge
    <2>1. PICK c \in Targets : Serve("challenge_completion", c, "text", ChallengeOf(c))
      BY <1>2 DEF ServeChallenge
    <2>2. ChallengeOf(c) \in Requests
      BY DEF Requests
    <2>3. ChallengeOf(c).op = "challenge" /\ ChallengeOf(c).target = c
      BY DEF ChallengeOf
    <2> QED
      BY <2>1, <2>2, <2>3, ServeKeeps
  <1>3. CASE ServeResolution
    <2>1. PICK c \in Targets, argument \in BooleanArguments, upheld \in BOOLEAN :
              /\ upheld \in RequireBoolean(argument)
              /\ Serve("resolve_challenge", c, argument, ResolutionOf(c, upheld))
      BY <1>3 DEF ServeResolution, RequireBoolean
    <2>2. ResolutionOf(c, upheld) \in Requests
      BY DEF Requests
    <2>3. /\ ResolutionOf(c, upheld).op = "resolve"
          /\ ResolutionOf(c, upheld).upheld = upheld
      BY DEF ResolutionOf
    <2>4. upheld <=> argument \in {"true", "'true'"}
      BY <2>1 DEF RequireBoolean
    <2> QED
      BY <2>1, <2>2, <2>3, <2>4, ServeKeeps
  <1>4. CASE Use
    <2>1. PICK request \in {AttestSeq(seq) : seq \in Seqs}
                           \cup {CancellationOf(c) : c \in Targets} : Begin(request)
      BY <1>4 DEF Use
    <2>2. request \in Requests /\ request.op \in {"attest", "cancel"}
      <3>1. CASE \E seq \in Seqs : request = AttestSeq(seq)
        <4>1. PICK seq \in Seqs : request = [Attest EXCEPT !.seq = seq]
          BY <3>1 DEF AttestSeq
        <4>2. request = [op |-> "attest", seq |-> seq, nextId |-> Unread, landed |-> FALSE]
          BY <4>1 DEF Attest
        <4>3. request.op = "attest"
          BY <4>2
        <4>4. request \in Requests
          BY <3>1 DEF Requests
        <4> QED
          BY <4>3, <4>4
      <3>2. CASE \E c \in Targets : request = CancellationOf(c)
        BY <3>2 DEF Requests, CancellationOf
      <3> QED
        BY <2>1, <3>1, <3>2
    <2>3. ClientInv'
      BY <2>1, <2>2, BeginKeeps DEF ServerInv
    <2>4. call' = request /\ serving' = None
      BY <1>4, <2>1 DEF Begin, Use
    <2> QED
      BY <2>2, <2>3, <2>4 DEF ServerInv, ServingInv, Calling
  <1> QED
    BY <1>1, <1>2, <1>3, <1>4

LEMMA ChallengeStep ==
    ASSUME ServerInv, PlaceChallenge
    PROVE  ServerInv'
  <1>1. /\ Calling("challenge") /\ ChallengeCompletion(Wallet, call.target)
        /\ call' = None /\ UNCHANGED <<returned, refused>>
        /\ serving' = [serving EXCEPT !.landed = TRUE]
    BY DEF PlaceChallenge, SubmitChallenge
  <1>2. /\ serving = [tool |-> "challenge_completion", target |-> call.target,
                      argument |-> "text", landed |-> FALSE]
        /\ call.target \in CompletionKeys
    BY <1>1 DEF ServerInv, ServingInv, ClientInv, CallInv, CallTyped, Calling,
                AttestCalls, ChallengeCalls, ResolveCalls, CancelCalls
  <1>3. serving'.target = call.target
    BY <1>1, <1>2
  <1>4. ClientInv' /\ ChainInv /\ ChainInv'
    BY <1>1, SubmissionsKeep DEF ServerInv, ClientInv
  <1>5. /\ challenges'[call.target] # None
        /\ challenges'[call.target].challenger = Wallet
    <2> DEFINE placed == [challenger |-> Wallet, timestamp |-> clock,
                          resolved |-> FALSE, upheld |-> FALSE,
                          bond_lamports |-> config.challenge_bond_lamports]
    <2>1. challenges \in [CompletionKeys -> Challenge \cup {None}]
      BY <1>4, ChainTypes
    <2>2. challenges'[call.target] = placed
      BY <1>1, <1>2, <2>1 DEF ChallengeCompletion
    <2>3. challenges'[call.target] # None
      <3>1. /\ config # None /\ config.challenge_bond_lamports \in Nat
            /\ Wallet \in Keys /\ clock \in Nat
        BY <1>1, <1>4, ChainTypes
        DEF ChallengeCompletion, ChainInv, ReputationInv, ConfigInv, RuntimeTypeOK
      <3>2. placed \in Challenge
        BY <3>1 DEF Challenge
      <3> QED
        BY <2>2, <3>2, ReputationAssumption
    <2> QED
      BY <2>2, <2>3
  <1> QED
    BY <1>1, <1>2, <1>3, <1>4, <1>5 DEF ServerInv, ServingInv, Calling

\* What others do on chain, and what changes nothing.
LEMMA OthersKeep ==
    ASSUME ServerInv, ChainKept, UNCHANGED clientVars,
           serving' = serving \/ (serving' = None /\ ~Calling("challenge"))
    PROVE  ServerInv'
  <1>1. UNCHANGED <<call, returned, refused>>
    BY DEF clientVars
  <1>2. ClientInv'
    BY <1>1, CallStays, RefusalStays, ReturnedStays DEF ServerInv, ClientInv, ChainKept
  <1>3. CASE serving' = serving
    <2>1. ServingInv /\ UNCHANGED call
      BY <1>1 DEF ServerInv
    <2>2. ServingInv'
      BY <1>3, <2>1, ServingStays
    <2> QED
      BY <1>2, <2>2 DEF ServerInv
  <1>4. CASE serving' = None /\ ~Calling("challenge")
    BY <1>1, <1>2, <1>4 DEF ServerInv, ServingInv, Calling
  <1> QED
    BY <1>3, <1>4

LEMMA InitEstablishesServerInv ==
    ASSUME ToolSystemInit
    PROVE  ServerInv
  <1>1. ReputationInv
    BY InitEstablishesReputation DEF ToolSystemInit, ClientSystemInit, ReputationSystemInit
  <1>2. /\ config = None /\ call = None /\ returned = None /\ refused = None
        /\ serving = None
    BY DEF ToolSystemInit, ClientSystemInit, ClientInit, ReputationSystemInit, ConfigInit
  <1> QED
    BY <1>1, <1>2
    DEF ServerInv, ClientInv, ServingInv, ChainInv, IdsIssued, CallInv, CallTyped,
        ExpectedIdPast, ResolveAccountsRead, RefusalHolds, ReturnedIssued, Calling

LEMMA ToolStepsKeepInv ==
    ASSUME ServerInv,
           [ToolSystemNext]_<<chainVars, clientVars, serving>>
    PROVE  ServerInv'
  <1>1. CASE ReputationSystemNext /\ UNCHANGED <<clientVars, serving>>
    <2>1. UNCHANGED clientVars /\ serving' = serving
      BY <1>1
    <2>2. ChainKept
      BY <1>1, ChainSteps DEF ServerInv, ClientInv
    <2> QED
      BY <2>1, <2>2, OthersKeep
  <1>2. CASE ServeAttestation \/ ServeChallenge \/ ServeResolution \/ Use
    BY <1>2, ServingSteps
  <1>3. CASE MakeCall
    <2>1. CallStep
      BY <1>3 DEF MakeCall
    <2>4. serving' = IF call' = None THEN None ELSE serving
      BY <1>3 DEF MakeCall
    <2>2. ClientInv' /\ SameCall
      BY <2>1, CallStepsKeep DEF ServerInv
    <2>3. ChainKept
      BY <2>1, CallStepsOnChain DEF ServerInv
    <2> QED
      BY <2>2, <2>3, <2>4, ServingStays DEF ServerInv
  <1>4. CASE PlaceChallenge
    BY <1>4, ChallengeStep
  <1>5. CASE ReplyChallenge
    <2>1. /\ serving # None /\ serving.landed /\ serving' = None
          /\ UNCHANGED <<clientVars, chainVars>>
      BY <1>5 DEF ReplyChallenge
    <2>2. ~Calling("challenge")
      BY <2>1 DEF ServerInv, ServingInv
    <2>3. ChainKept
      BY <2>1, ChainSteps DEF ServerInv, ClientInv
    <2> QED
      BY <2>1, <2>2, <2>3, OthersKeep
  <1>6. CASE UNCHANGED <<chainVars, clientVars, serving>>
    <2>1. UNCHANGED clientVars /\ serving' = serving /\ UNCHANGED chainVars
      BY <1>6
    <2>2. ChainKept
      BY <2>1, ChainSteps DEF ServerInv, ClientInv
    <2> QED
      BY <2>1, <2>2, OthersKeep
  <1> QED
    BY <1>1, <1>2, <1>3, <1>4, <1>5, <1>6 DEF ToolSystemNext

\* The invariant of a tool server at work while others act on chain.
THEOREM ServerInvariant == ToolSystem => []ServerInv
  <1>1. ToolSystemInit => ServerInv
    BY InitEstablishesServerInv
  <1>2. ServerInv /\ [ToolSystemNext]_<<chainVars, clientVars, serving>> => ServerInv'
    BY ToolStepsKeepInv
  <1> QED
    BY <1>1, <1>2, PTL DEF ToolSystem

\* A resolution never names a challenger or a treasury other than the program's own,
\* however old its reads are when it lands.
THEOREM ResolveAccountsStayFresh == ToolSystem => []ResolveAccountsFresh
  <1>1. ServerInv => ResolveAccountsFresh
    BY DEF ServerInv, ClientInv, CallInv, ResolveAccountsRead, ResolveAccountsFresh
  <1> QED
    BY <1>1, ServerInvariant, PTL

\* What the client refuses for something that cannot change stays impossible.
THEOREM RefusalsAreFinal == ToolSystem => []LocalRefusalsFinal
  <1>1. ServerInv => LocalRefusalsFinal
    BY DEF ServerInv, ClientInv, RefusalHolds, LocalRefusalsFinal
  <1> QED
    BY <1>1, ServerInvariant, PTL

\* attest never returns an id that is still to be issued.
THEOREM ReturnedIdsWereIssued == ToolSystem => []ReturnedIdNotAhead
  <1>1. ServerInv => ReturnedIdNotAhead
    BY DEF ServerInv, ClientInv, ReturnedIssued, ReturnedIdNotAhead
  <1> QED
    BY <1>1, ServerInvariant, PTL

\* A tool submits the verdict its argument spells, and reads back its own challenge.
THEOREM ToolsDoAsAsked == ToolSystem => []ServedAsAsked
  <1>1. ServerInv => ServedAsAsked
    BY DEF ServerInv, ServingInv, ServedAsAsked
  <1> QED
    BY <1>1, ServerInvariant, PTL
=============================================================================
