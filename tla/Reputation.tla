----------------------------- MODULE Reputation -----------------------------
(***************************************************************************)
(* instructions/agent.rs and instructions/reputation.rs: agents attest     *)
(* completions, anybody challenges one with a bond, an authority resolves  *)
(* the challenge or the challenger takes the bond back after the timeout.  *)
(*                                                                         *)
(* A completion lives at the address of its (authority, sequence number);  *)
(* its challenge and the vault of its bond live at addresses derived from  *)
(* that one.                                                               *)
(***************************************************************************)
EXTENDS ProtocolConfig, FiniteSets

CONSTANTS
    Profiles,           \* agent metadata URIs
    NoProfile,          \* the empty URI an attestation creates the agent with
    ChallengeTimeout    \* CHALLENGE_TIMEOUT_SECS

VARIABLES
    agents,         \* authority -> Agent account
    completions,    \* (authority, seq) -> Completion account
    challenges      \* (authority, seq) -> Challenge account

reputationVars == <<agents, completions, challenges>>

Agent ==
    [metadata : Profiles \cup {NoProfile}, completions : 0 .. MaxU64,
     disputes : 0 .. MaxU64, last_activity : Nat]
Completion ==
    [id : 1 .. MaxU64 - 1, timestamp : Nat, challenged : BOOLEAN, disputed : BOOLEAN]
Challenge ==
    [challenger : Keys, timestamp : Nat, resolved : BOOLEAN, upheld : BOOLEAN,
     bond_lamports : Nat]

ASSUME ReputationAssumption ==
    /\ ChallengeTimeout \in Nat
    /\ None \notin Agent /\ None \notin Completion /\ None \notin Challenge

ReputationTypeOK ==
    /\ agents \in [Keys -> Agent \cup {None}]
    /\ completions \in [CompletionKeys -> Completion \cup {None}]
    /\ challenges \in [CompletionKeys -> Challenge \cup {None}]

ReputationInit ==
    /\ agents = [a \in Keys |-> None]
    /\ completions = [c \in CompletionKeys |-> None]
    /\ challenges = [c \in CompletionKeys |-> None]

-----------------------------------------------------------------------------
NewAgent == [metadata |-> NoProfile, completions |-> 0, disputes |-> 0, last_activity |-> 0]

\* init_if_needed
AgentAnew(authority) == NewAgent  \* mutant: the account is always initialized
AgentOf(authority) == IF agents[authority] = None THEN NewAgent ELSE agents[authority]

RegisterAgent(authority, profile) ==
    /\ agents' = [agents EXCEPT ![authority] = [AgentOf(authority) EXCEPT !.metadata = profile]]
    /\ UNCHANGED <<completions, challenges, configVars, runtimeVars>>

IsNextSeqOrLater(agent, seq) == seq >= agent.completions  \* mutant: a gap is accepted
IsNextSeq(agent, seq) == seq = agent.completions

IssuedIdOfAgent(seq) == seq + 1     \* mutant: numbered by the agent's own counter
IssuedId(seq) == config.next_completion_id

AttestCompletion(authority, seq) ==
    LET c == <<authority, seq>>
        agent == AgentOf(authority)
    IN  /\ config # None /\ ~config.paused
        /\ completions[c] = None
        /\ IsNextSeq(agent, seq)
        /\ HasRoom(config.next_completion_id)
        /\ HasRoom(agent.completions)
        /\ config' = [config EXCEPT !.next_completion_id = @ + 1]
        /\ agents' = [agents EXCEPT ![authority] =
                         [agent EXCEPT !.completions = @ + 1, !.last_activity = clock]]
        /\ completions' = [completions EXCEPT ![c] =
                              [id |-> IssuedId(seq), timestamp |-> clock,
                               challenged |-> FALSE, disputed |-> FALSE]]
        /\ UNCHANGED <<challenges, pendingAdmin, upgradeAuthority, runtimeVars>>

\* The challenge account is init_if_needed: only the flag prevents a second challenge.
Exists(c) == completions[c] # None  \* mutant: the flag is not checked
Challengeable(c) == completions[c] # None /\ ~completions[c].challenged

\* The vault may already hold donations: only the transfer is checked.
ChallengeCompletion(challenger, c) ==
    /\ config # None /\ ~config.paused
    /\ Challengeable(c)
    /\ SystemTransfer(challenger, ChallengeVault(c), config.challenge_bond_lamports)
    /\ challenges' = [challenges EXCEPT ![c] =
                         [challenger |-> challenger, timestamp |-> clock,
                          resolved |-> FALSE, upheld |-> FALSE,
                          bond_lamports |-> config.challenge_bond_lamports]]
    /\ completions' = [completions EXCEPT ![c].challenged = TRUE]
    /\ UNCHANGED <<agents, configVars, clock>>

Pending(c) ==
    /\ challenges[c] # None /\ ~challenges[c].resolved
    /\ completions[c] # None /\ completions[c].challenged

\* Mutant: what the configuration asks for now is paid out, not what is escrowed.
SweepConfiguredBond(vault, destination) ==
    SystemTransfer(vault, destination, config.challenge_bond_lamports)

\* The whole vault goes to one destination, donations included.
SweepTo(vault, destination) == SystemTransfer(vault, destination, lamports[vault])

DisputesPlusOne(disputes, upheld) == disputes + 1   \* mutant: counted whatever the verdict
DisputesAfter(disputes, upheld) == IF upheld THEN disputes + 1 ELSE disputes

UpheldSet(c, upheld) ==     \* mutant: the challenge is not marked resolved
    [challenges EXCEPT ![c].upheld = upheld]
Settled(c, upheld) ==
    [challenges EXCEPT ![c].resolved = TRUE, ![c].upheld = upheld]

ResolveChallenge(signer, c, upheld) ==
    LET agent == c[1]
        destination == IF upheld THEN challenges[c].challenger ELSE config.treasury
    IN  /\ IsAuthority(signer)
        /\ agents[agent] # None
        /\ Pending(c)
        /\ lamports[ChallengeVault(c)] >= challenges[c].bond_lamports
        /\ SweepTo(ChallengeVault(c), destination)
        /\ upheld => HasRoom(agents[agent].disputes)
        /\ completions' = [completions EXCEPT ![c].disputed = @ \/ upheld]
        /\ agents' = [agents EXCEPT ![agent].disputes = DisputesAfter(@, upheld)]
        /\ challenges' = Settled(c, upheld)
        /\ UNCHANGED <<configVars, clock>>

TimedOutUnlessPaused(c) ==  \* mutant: the pause flag closes the exit, too
    clock - challenges[c].timestamp >= ChallengeTimeout /\ ~config.paused
TimedOut(c) == clock - challenges[c].timestamp >= ChallengeTimeout

\* Not gated by the pause flag, and no configuration is read: a bond can always
\* be taken back once the authority has been silent for ChallengeTimeout.
CancelChallenge(signer, c) ==
    /\ Pending(c)
    /\ signer = challenges[c].challenger
    /\ TimedOut(c)
    /\ SweepTo(ChallengeVault(c), signer)
    /\ challenges' = Settled(c, FALSE)
    /\ UNCHANGED <<agents, completions, configVars, clock>>

ReputationStep ==
    \/ \E authority \in Keys, profile \in Profiles : RegisterAgent(authority, profile)
    \/ \E authority \in Keys, seq \in Seqs : AttestCompletion(authority, seq)
    \/ \E challenger \in Keys, c \in CompletionKeys : ChallengeCompletion(challenger, c)
    \/ \E signer \in Keys, c \in CompletionKeys, upheld \in BOOLEAN :
           ResolveChallenge(signer, c, upheld)
    \/ \E signer \in Keys, c \in CompletionKeys : CancelChallenge(signer, c)

-----------------------------------------------------------------------------
(* The component by itself, beside the configuration it reads. *)

reputationSystemVars == <<runtimeVars, configVars, reputationVars>>

ReputationSystemInit ==
    /\ RuntimeInit
    /\ ConfigInit
    /\ ReputationInit

ReputationSystemNext ==
    \/ RuntimeStep /\ UNCHANGED <<configVars, reputationVars>>
    \/ ConfigStep /\ UNCHANGED reputationVars
    \/ ReputationStep

ReputationSystem == ReputationSystemInit /\ [][ReputationSystemNext]_reputationSystemVars

-----------------------------------------------------------------------------
(* Properties *)

\* The bond of a pending challenge is in its vault, whatever has been donated,
\* reconfigured, paused or settled elsewhere since, and the runtime lets the
\* whole vault be paid to either destination: resolve_challenge never fails with
\* VaultBalanceMismatch and neither settlement fails on the rent rule.
PendingBondPayable ==
    \A c \in CompletionKeys :
        Pending(c) =>
            LET vault == ChallengeVault(c)
            IN  /\ lamports[vault] >= challenges[c].bond_lamports
                /\ CanPay(lamports, vault, challenges[c].challenger, lamports[vault])
                /\ CanPay(lamports, vault, config.treasury, lamports[vault])

Upheld(c) == challenges[c] # None /\ challenges[c].resolved /\ challenges[c].upheld

DisputedSeqs(agent) ==
    {s \in Seqs : completions[<<agent, s>>] # None /\ completions[<<agent, s>>].disputed}

\* The counter the score is computed from agrees with the verdicts: a completion
\* is disputed exactly when its challenge was upheld, the agent's dispute count is
\* the number of its disputed completions, and it never exceeds its completions.
DisputesMatchVerdicts ==
    \A a \in Keys :
        /\ \A s \in Seqs :
               completions[<<a, s>>] # None =>
                   (completions[<<a, s>>].disputed <=> Upheld(<<a, s>>))
        /\ agents[a] # None =>
               /\ agents[a].disputes = Cardinality(DisputedSeqs(a))
               /\ agents[a].disputes <= agents[a].completions

\* An agent's completions are numbered without a gap up to its counter, however
\* attestations of several agents interleave, and a challenge account exists for
\* exactly the completions that are marked challenged.
CompletionLogDense ==
    \A a \in Keys, s \in Seqs :
        /\ completions[<<a, s>>] # None <=> agents[a] # None /\ s < agents[a].completions
        /\ challenges[<<a, s>>] # None <=>
               completions[<<a, s>>] # None /\ completions[<<a, s>>].challenged

\* The global ids that attest_completion hands out are unique and below the
\* counter, agree with each agent's own numbering, and order the timestamps.
CompletionIdsOrdered ==
    \A c, d \in CompletionKeys :
        completions[c] # None /\ completions[d] # None =>
            /\ config # None /\ completions[c].id < config.next_completion_id
            /\ completions[c].id = completions[d].id => c = d
            /\ c[1] = d[1] /\ c[2] < d[2] => completions[c].id < completions[d].id
            /\ completions[c].id < completions[d].id =>
                   completions[c].timestamp <= completions[d].timestamp

AgentKept(a) ==
    agents[a] # None =>
        /\ agents'[a] # None
        /\ agents'[a].completions >= agents[a].completions
        /\ agents'[a].disputes >= agents[a].disputes
        /\ agents'[a].last_activity >= agents[a].last_activity

CompletionKept(c) ==
    completions[c] # None =>
        /\ completions'[c] # None
        /\ completions'[c].id = completions[c].id
        /\ completions'[c].timestamp = completions[c].timestamp
        /\ completions[c].challenged => completions'[c].challenged
        /\ completions[c].disputed => completions'[c].disputed

ChallengeKept(c) ==
    challenges[c] # None =>
        /\ challenges'[c] # None
        /\ challenges'[c].challenger = challenges[c].challenger
        /\ challenges'[c].bond_lamports = challenges[c].bond_lamports
        /\ challenges[c].resolved => challenges'[c] = challenges[c]

HistoryStep ==
    /\ \A a \in Keys : AgentKept(a)
    /\ \A c \in CompletionKeys : CompletionKept(c) /\ ChallengeKept(c)

\* No handler rewrites history: a completion keeps its id and time and is never
\* un-challenged or un-disputed, an agent's counters never go down (registering
\* again or re-creating the account does not reset them), a challenge keeps its
\* challenger and bond, and a verdict, once given, is final.
HistoryKept == [][HistoryStep]_reputationVars

BondLeavesStep ==
    \A c \in CompletionKeys :
        LET vault == ChallengeVault(c)
            Credited(key) == lamports'[key] = lamports[key] + lamports[vault]
        IN  lamports'[vault] < lamports[vault] =>
                /\ Pending(c) /\ ~Pending(c)'
                /\ lamports'[vault] = 0
                /\ IF Upheld(c)' THEN Credited(challenges[c].challenger)
                   ELSE \/ Credited(config.treasury)
                        \/ TimedOut(c) /\ Credited(challenges[c].challenger)

\* Lamports leave a challenge vault only in the step that settles its pending
\* challenge, all at once: to the challenger when it is upheld, to the treasury when it
\* is rejected, and back to the challenger when, timed out, it is cancelled.
BondLeavesBySettlement == [][BondLeavesStep]_<<lamports, reputationVars>>

\* No bond is locked for ever: under ProgramFairness a challenge that times
\* out within the clock's bound is settled, by the authority or by cancel_challenge,
\* whether or not the program is paused or the authority ever acts.
TimedOutBondReleased ==
    \A c \in CompletionKeys :
        Pending(c) /\ challenges[c].timestamp + ChallengeTimeout <= MaxClock + 1
            ~> ~Pending(c)

\* docs/architecture.md, section 4, of the settlement sweep: "donations are never
\* stranded".
DonationsNeverStranded ==
    \A c \in CompletionKeys :
        challenges[c] # None /\ challenges[c].resolved => lamports[ChallengeVault(c)] = 0
=============================================================================
