----------------------------- MODULE Mechanisms -----------------------------
(***************************************************************************)
(* benchmark/src/mechanisms.ts, the six reputation mechanisms the benchmark *)
(* compares, and the scenarios that attack them: scenarios/sybil.ts and     *)
(* scenarios/slowBurn.ts.  A scenario is a loop over a simulated history;   *)
(* what it draws at random is a choice here.  Costs are told apart by what  *)
(* they are for, not by their size.                                         *)
(***************************************************************************)
EXTENDS ScoreMath, Sequences, FiniteSets

CONSTANTS
    Bond,           \* bondLamports
    CapabilityBond, \* capabilityBondLamports
    StakeUnit,      \* the stake behind one point of stake_gated
    DiversityWeight,\* RECEIPT_DIVERSITY_WEIGHT
    Period,         \* decayPeriodSecs, in days
    Sybils,         \* how many sybils there are, and...
    AttestsPerSybil,\* ... how often each attests
    TargetScore,
    AttestsPerDay,
    Horizons        \* what horizonDays may be

ASSUME MechanismsAssumption ==
    /\ Bond \in Nat /\ CapabilityBond \in Nat /\ StakeUnit \in Nat \ {0}
    /\ DiversityWeight \in Nat \ {0} /\ Period \in Nat \ {0}
    /\ Sybils \in Nat \ {0} /\ AttestsPerSybil \in Nat \ {0}
    /\ TargetScore \in Nat \ {0} /\ AttestsPerDay \in Nat \ {0} /\ Horizons \subseteq Nat

VARIABLES
    mechanism,      \* its name; "none" before one is chosen
    scenario,       \* "none" before one is run, then the name of the one that is
    horizon,        \* slow burn: horizonDays
    state,          \* MechanismState
    day,            \* slow burn: the day to be simulated next
    outcome         \* slow burn: "burning", "harvested" or "unreachable"

benchmarkVars == <<mechanism, scenario, horizon, state, day, outcome>>

MechanismNames ==
    {"taop_bonded_decay", "naive_count", "completions_minus_disputes",
     "peer_ratings", "stake_gated", "two_sided_receipts"}

UsesPeerRatings == mechanism \in {"peer_ratings", "two_sided_receipts"}
RequiresReceipts == mechanism = "two_sided_receipts"
LocksCapital == mechanism = "stake_gated"

\* Sybils and the attacker are numbered from 0, the honest agent is -1, its confirmers
\* are the numbers below, accomplices follow 100 and challengers 1000.
Honest == -1
Attacker == 0
Accomplice(i) == 100 + i
Challenger(i) == 1000 + i
AgentIds ==
    (-1 - AttestsPerSybil .. Sybils)
    \cup {Accomplice(i) : i \in 0 .. TargetScore}
    \cup {Challenger(i) : i \in 1 .. Sybils * AttestsPerSybil + AttestsPerSybil}

-----------------------------------------------------------------------------
(* The operations of a mechanism, from one state to the next.  fees and capital,
   which the code does not keep, are what was paid in fees and rent, and locked. *)

NewAgent ==
    [completions |-> 0, disputes |-> 0, last_activity |-> 0, raters |-> {}, confirmed |-> 0,
     spent |-> 0, locked |-> 0, slashed |-> 0, fees |-> 0, capital |-> 0]

NewState == [agents |-> [id \in AgentIds |-> NewAgent], completions |-> <<>>]

Charged(agent, fees) == [agent EXCEPT !.spent = @ + fees, !.fees = @ + fees]

\* A fee and the rent of the completion, the first time also that of the agent.
Attest(st, id, now) ==
    LET agent == st.agents[id]
        counted == [agent EXCEPT !.completions = @ + 1, !.last_activity = now]
    IN  [agents |-> [st.agents EXCEPT ![id] =
                        Charged(counted, IF agent.completions = 0 THEN 3 ELSE 2)],
         completions |-> Append(st.completions,
             [agent |-> id, challenger |-> id, challenged |-> FALSE, disputed |-> FALSE,
              resolved |-> FALSE])]

Rated(agent, from) == [agent EXCEPT !.raters = @ \cup {from}]
Confirmed(agent, from) ==
    IF agent.completions > agent.confirmed
    THEN [Rated(agent, from) EXCEPT !.confirmed = @ + 1]
    ELSE agent

Rate(st, from, to) ==
    IF RequiresReceipts /\ from = to THEN st
    ELSE [st EXCEPT !.agents[from] = Charged(@, 1),
                    !.agents[to] = IF RequiresReceipts THEN Confirmed(@, from)
                                   ELSE Rated(@, from)]

BondPosted(agent) == [Charged(agent, 1) EXCEPT !.spent = @ + Bond, !.locked = @ + Bond]
Challenge(st, i, id) ==
    IF st.completions[i].challenged THEN st
    ELSE [st EXCEPT !.completions[i] = [@ EXCEPT !.challenged = TRUE, !.challenger = id],
                    !.agents[id] = BondPosted(@)]

BondForfeited(challenger, upheld) ==    \* mutant: a rejected bond stays locked as well
    IF upheld THEN [challenger EXCEPT !.locked = AtLeastZero(@ - Bond), !.spent = @ - Bond]
    ELSE [challenger EXCEPT !.slashed = @ + Bond]
BondSettled(challenger, upheld) ==
    LET unlocked == [challenger EXCEPT !.locked = AtLeastZero(@ - Bond)]
    IN  IF upheld THEN [unlocked EXCEPT !.spent = @ - Bond]
        ELSE [unlocked EXCEPT !.slashed = @ + Bond]

Resolve(st, i, upheld) ==
    LET completion == st.completions[i]
    IN  IF ~completion.challenged \/ completion.resolved THEN st
        ELSE [st EXCEPT !.completions[i] = [@ EXCEPT !.resolved = TRUE, !.disputed = upheld],
                        !.agents[completion.agent].disputes = @ + (IF upheld THEN 1 ELSE 0),
                        !.agents[completion.challenger] = BondSettled(@, upheld)]

\* lockCapital; a slow burn locks a capability's bond in the same way.
Locked(agent, lamports) ==
    [Charged(agent, 1) EXCEPT !.locked = @ + lamports, !.capital = @ + lamports]
Lock(st, id, lamports) == [st EXCEPT !.agents[id] = Locked(@, lamports)]

CapitalRequired(target) == target * StakeUnit

Slashable(agent) == IF LocksCapital THEN agent.locked ELSE CapabilityBond

Slashed(agent) ==
    LET slashed == AtMost(agent.locked, Slashable(agent))
    IN  [agent EXCEPT !.locked = @ - slashed, !.slashed = @ + slashed, !.spent = @ + slashed]
SlashCapability(st, id) == [st EXCEPT !.agents[id] = Slashed(@)]

Decayed(agent, completions, now) ==
    ComputeScore([agent EXCEPT !.completions = completions], now, Period).score

ScoreOf(agent, now) ==
    CASE mechanism = "taop_bonded_decay" -> Decayed(agent, agent.completions, now)
      [] mechanism = "naive_count" -> agent.completions
      [] mechanism = "completions_minus_disputes" ->
             AtLeastZero(agent.completions - agent.disputes)
      [] mechanism = "peer_ratings" ->
             AtLeastZero(Cardinality(agent.raters) - agent.disputes)
      [] mechanism = "stake_gated" ->
             AtLeastZero(AtMost(agent.locked \div StakeUnit,
                                agent.completions - agent.disputes))
      [] mechanism = "two_sided_receipts" ->
             Decayed(agent, AtMost(Cardinality(agent.raters) * DiversityWeight,
                                   agent.confirmed), now)

FewerCounterparties(target) ==      \* mutant: rounded down
    IF mechanism = "peer_ratings" THEN target
    ELSE IF target < DiversityWeight THEN 1 ELSE target \div DiversityWeight
CounterpartiesRequired(target) ==
    IF mechanism = "peer_ratings" THEN target
    ELSE (target + DiversityWeight - 1) \div DiversityWeight

-----------------------------------------------------------------------------
(* runSybilFarming: an honest agent first, then each sybil attests, is confirmed by
   the next ones, and may be challenged by a watcher, who is right or wrong. *)

BenchmarkInit ==
    /\ mechanism = "none"
    /\ scenario = "none"
    /\ horizon = 0
    /\ state = NewState
    /\ day = 1
    /\ outcome = "burning"

\* The benchmark runs each scenario for each mechanism, from a new state.
ChooseMechanism ==
    /\ mechanism = "none"
    /\ mechanism' \in MechanismNames
    /\ UNCHANGED <<scenario, horizon, state, day, outcome>>

Distinct == IF RequiresReceipts THEN CounterpartiesRequired(AttestsPerSybil) ELSE AttestsPerSybil

LockedFor(st, id) ==
    IF LocksCapital THEN Lock(st, id, CapitalRequired(AttestsPerSybil)) ELSE st

Farmed == Len(state.completions)
FarmingHonest == scenario = "sybil" /\ Farmed < AttestsPerSybil
FarmingSybils ==
    /\ scenario = "sybil"
    /\ Farmed >= AttestsPerSybil /\ Farmed < AttestsPerSybil * (Sybils + 1)

BeginSybil ==
    /\ mechanism # "none" /\ scenario = "none"
    /\ scenario' = "sybil"
    /\ state' = LockedFor(state, Honest)
    /\ UNCHANGED <<mechanism, horizon, day, outcome>>

\* The ratings follow when all is attested; that is the same, one by one.
FarmHonestly ==
    /\ FarmingHonest
    /\ LET attested == Attest(state, Honest, 0)
       IN  state' = IF UsesPeerRatings THEN Rate(attested, -2 - (Farmed % Distinct), Honest)
                    ELSE attested
    /\ UNCHANGED <<mechanism, scenario, horizon, day, outcome>>

Farm ==
    /\ FarmingSybils
    /\ LET sybil == (Farmed \div AttestsPerSybil) - 1
           k == Farmed % AttestsPerSybil
           funded == IF k = 0 THEN LockedFor(state, sybil) ELSE state
           attested == Attest(funded, sybil, 0)
           confirmed == IF UsesPeerRatings
                        THEN Rate(attested, (sybil + 1 + (k % Distinct)) % Sybils, sybil)
                        ELSE attested
           last == Farmed + 1
       IN  \/ state' = confirmed
           \/ \E upheld \in BOOLEAN :
                  state' = Resolve(Challenge(confirmed, last, Challenger(last)), last, upheld)
    /\ UNCHANGED <<mechanism, scenario, horizon, day, outcome>>

-----------------------------------------------------------------------------
(* runSlowBurnHarvest: the attacker attests day by day, confirmed by accomplices,
   until its score is high enough; then its bond is slashed and all is disputed. *)

Accomplices ==
    IF UsesPeerRatings
    THEN [i \in 0 .. (IF RequiresReceipts THEN CounterpartiesRequired(TargetScore)
                      ELSE TargetScore) - 1 |-> Accomplice(i)]
    ELSE <<>>

BeginSlowBurn ==
    /\ mechanism # "none" /\ scenario = "none"
    /\ scenario' = "slowBurn"
    /\ horizon' \in Horizons
    /\ state' = Lock(state, Attacker,
                     IF LocksCapital THEN CapitalRequired(TargetScore) ELSE CapabilityBond)
    /\ UNCHANGED <<mechanism, day, outcome>>

AttestOnce(st, i) ==
    LET attested == Attest(st, Attacker, day)
    IN  IF UsesPeerRatings
        THEN Rate(attested, Accomplices[(day * AttestsPerDay + i)
                                            % Cardinality(DOMAIN Accomplices)], Attacker)
        ELSE attested

Burnt[i \in Nat] == IF i = 0 THEN state ELSE AttestOnce(Burnt[i - 1], i - 1)

Harvested(st) ==
    LET slashed == SlashCapability(st, Attacker)
    IN  [slashed EXCEPT !.agents[Attacker].disputes = slashed.agents[Attacker].completions]

Burning == scenario = "slowBurn" /\ outcome = "burning"

BurnDay ==
    /\ Burning /\ day <= horizon
    /\ LET burnt == Burnt[AttestsPerDay]
       IN  IF ScoreOf(burnt.agents[Attacker], day) >= TargetScore
           THEN /\ state' = Harvested(burnt)
                /\ outcome' = "harvested"
                /\ UNCHANGED day
           ELSE /\ state' = burnt
                /\ day' = day + 1
                /\ UNCHANGED outcome
    /\ UNCHANGED <<mechanism, scenario, horizon>>

GiveUp ==
    /\ Burning /\ day > horizon
    /\ outcome' = "unreachable"
    /\ UNCHANGED <<mechanism, scenario, horizon, state, day>>

-----------------------------------------------------------------------------
BenchmarkNext ==
    \/ ChooseMechanism
    \/ BeginSybil \/ FarmHonestly \/ Farm
    \/ BeginSlowBurn \/ BurnDay \/ GiveUp

BenchmarkSpec == BenchmarkInit /\ [][BenchmarkNext]_benchmarkVars

-----------------------------------------------------------------------------
(* Properties *)

Challenged(id, resolved, upheld) ==
    Cardinality({i \in DOMAIN state.completions :
        LET c == state.completions[i]
        IN  c.challenged /\ c.challenger = id /\ c.resolved = resolved /\ c.disputed = upheld})

\* The lamports the benchmark compares mechanisms by add up for everybody: what is
\* spent is fees, what was slashed and what is in pending challenges; what was locked
\* or bonded, and not returned, is locked or slashed, never both.
LedgerBalanced ==
    \A id \in AgentIds :
        LET agent == state.agents[id]
            pending == Challenged(id, FALSE, FALSE)
            rejected == Challenged(id, TRUE, FALSE)
        IN  /\ agent.spent = agent.fees + agent.slashed + Bond * pending
            /\ agent.locked + agent.slashed = agent.capital + Bond * (pending + rejected)

\* The rational attacker has recruited and locked just enough: decay or not, no
\* mechanism keeps it from the target score once it has attested that often.  And after
\* the harvest the disputes outweigh whatever a mechanism has counted, ratings and
\* confirmations included, but for the baseline that ignores disputes.
TargetReachedThenLost ==
    /\ Burning => (day - 1) * AttestsPerDay < TargetScore
    /\ outcome = "harvested" /\ mechanism # "naive_count" =>
           ScoreOf(state.agents[Attacker], horizon) = 0
=============================================================================
