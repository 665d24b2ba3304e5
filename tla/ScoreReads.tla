----------------------------- MODULE ScoreReads ------------------------------
(***************************************************************************)
(* packages/solana/src/client.ts, getScore: a score is put together from   *)
(* accounts that are read one by one, while the agent attests, is disputed, *)
(* the configuration changes and time passes.  The demo works out the same *)
(* once more from what it is given.                                         *)
(***************************************************************************)
EXTENDS ScoreMath

CONSTANTS
    DecayPeriods,   \* what decay_period_secs may be
    LocalTimes,     \* what the caller's own clock may show
    MaxCompletions, \* bound on an agent's completions
    LastTime,       \* bound on the clock
    Nothing         \* no account, no query, a field that is not read yet

ASSUME ScoreReadsAssumption ==
    /\ DecayPeriods \subseteq Nat \ {0} /\ LocalTimes \subseteq Nat
    /\ MaxCompletions \in Nat \ {0} /\ LastTime \in Nat
    /\ MaxCompletions < Pow2[SafeBits]
    /\ Nothing \notin Int

VARIABLES
    record,         \* the agent's account
    period,         \* the configuration's decay_period_secs
    time,           \* the cluster's clock
    query           \* the call of getScore in progress

scoreVars == <<record, period, time, query>>

-----------------------------------------------------------------------------
(* The chain, as far as a score depends on it. *)

View(agent, breakdown) ==
    [completions |-> agent.completions, disputes |-> agent.disputes,
     score |-> breakdown.score, decayed |-> breakdown.decayed]
NoView == [completions |-> 0, disputes |-> 0, score |-> 0, decayed |-> FALSE]

\* What get_score answers. Of an agent that does not exist the instruction fails, and
\* the SDK's getScore answers zeros instead, which is what NoView stands for.
GetScoreOnChain(now) ==
    IF record = Nothing THEN NoView ELSE View(record, ChainScore(record, now, period))

\* A query keeps, which the code does not, when it began and whether the agent and the
\* configuration have been left alone since.
Disturb == query' = IF query = Nothing THEN Nothing ELSE [query EXCEPT !.quiet = FALSE]

Attested ==
    IF record = Nothing THEN [completions |-> 1, disputes |-> 0, last_activity |-> time]
    ELSE [record EXCEPT !.completions = @ + 1, !.last_activity = time]

AgentAttests ==
    /\ record # Nothing => record.completions < MaxCompletions
    /\ record' = Attested
    /\ UNCHANGED <<period, time>>
    /\ Disturb

LoseDispute ==
    /\ record # Nothing /\ record.disputes < record.completions
    /\ record' = [record EXCEPT !.disputes = @ + 1]
    /\ UNCHANGED <<period, time>>
    /\ Disturb

Reconfigure ==
    /\ period' \in DecayPeriods \ {period}
    /\ UNCHANGED <<record, time>>
    /\ Disturb

TimePasses ==
    /\ time < LastTime
    /\ time' = time + 1
    /\ UNCHANGED <<record, period, query>>

-----------------------------------------------------------------------------
(* getScore: the agent, the configuration and the time are read concurrently. *)

GetScore ==
    /\ query = Nothing
    /\ query' = [agent |-> Nothing, read |-> FALSE, period |-> Nothing, now |-> Nothing,
                 begun |-> time, quiet |-> TRUE]
    /\ UNCHANGED <<record, period, time>>

Answer(updated) ==
    /\ query' = updated
    /\ UNCHANGED <<record, period, time>>

GetAgent ==
    /\ query # Nothing /\ ~query.read
    /\ Answer([query EXCEPT !.agent = record, !.read = TRUE])

GetConfig ==
    /\ query # Nothing /\ query.period = Nothing
    /\ Answer([query EXCEPT !.period = period])

\* Without a block time the caller's own clock is used, which may be any.
ClusterTime ==
    /\ query # Nothing /\ query.now = Nothing
    /\ \/ Answer([query EXCEPT !.now = time])
       \/ \E local \in LocalTimes :
              Answer([query EXCEPT !.now = local, !.quiet = FALSE])

Answered == query # Nothing /\ query.read /\ query.period # Nothing /\ query.now # Nothing

ReturnedView ==
    IF query.agent = Nothing THEN NoView
    ELSE View(query.agent, ComputeScore(query.agent, query.now, query.period))

\* It also ends when a request fails.
EndGetScore ==
    /\ query # Nothing
    /\ Answer(Nothing)

-----------------------------------------------------------------------------
ScoreInit ==
    /\ record = Nothing
    /\ period \in DecayPeriods
    /\ time = 1
    /\ query = Nothing

ScoreNext ==
    \/ AgentAttests \/ LoseDispute \/ Reconfigure \/ TimePasses
    \/ GetScore \/ GetAgent \/ GetConfig \/ ClusterTime \/ EndGetScore

ScoreSpec == ScoreInit /\ [][ScoreNext]_scoreVars

-----------------------------------------------------------------------------
(* Properties *)

\* The elapsed periods fit into a u32: they do for 136 years at one a second.
PeriodsFit == record # Nothing => (time - record.last_activity) \div period < Pow2[PeriodBits]

\* The SDK puts a score together from three reads of different slots with arithmetic
\* of its own: if the agent and the configuration are left alone meanwhile, what it
\* returns is what get_score would have answered at some moment of the call.
ScoreWasRight ==
    Answered /\ query.quiet /\ PeriodsFit =>
        ReturnedView \in {GetScoreOnChain(now) : now \in query.begun .. time}

\* What the demo works out agrees with the chain: the decayed score, every point of
\* the chart, and the countdown to the next halving, which is at most one second late
\* (from the second halving on, it is) and never early.
WebMathAgrees ==
    record # Nothing /\ PeriodsFit =>
        LET web == ScoreMath(record, time, period)
            next == NextHalvingInSecs(record, time, period)
            HalvingsIn(secs) == ScoreMath(record, time + secs, period).halvings
        IN  /\ [score |-> web.score, decayed |-> web.decayed] = ChainScore(record, time, period)
            /\ \A elapsed \in DOMAIN DecaySeries(web.net, period) :
                   DecaySeries(web.net, period)[elapsed] =
                       ChainScore(record, record.last_activity + elapsed, period).score
            /\ web.net > 0 /\ web.halvings < MaxHalvings =>
                   /\ HalvingsIn(next) > web.halvings
                   /\ next >= 2 => HalvingsIn(next - 2) = web.halvings
=============================================================================
