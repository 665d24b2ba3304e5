------------------------------ MODULE ScoreMath ------------------------------
(***************************************************************************)
(* The score of an agent, which is computed three times over: by get_score *)
(* on chain (programs/taop_reputation/src/state.rs), by the SDK and the     *)
(* benchmark (packages/solana/src/pda.ts) and by the web demo               *)
(* (apps/web/src/lib/format.ts).  The widths of the chain's integers and of *)
(* a double's are parameters, so that TLC meets them.                       *)
(***************************************************************************)
EXTENDS Integers

CONSTANTS
    WordBits,       \* u64
    PeriodBits,     \* u32, to which get_score truncates the elapsed periods
    SafeBits        \* the integers a double holds exactly

ASSUME ScoreMathAssumption ==
    WordBits \in Nat \ {0, 1} /\ PeriodBits \in Nat \ {0, 1} /\ SafeBits \in Nat \ {0}

MaxHalvings == WordBits - 1
AtMost(bound, n) == IF n > bound THEN bound ELSE n
AtLeastZero(n) == IF n < 0 THEN 0 ELSE n

\* What a shift by so many bits divides by.
Pow2[n \in Nat] == IF n = 0 THEN 1 ELSE 2 * Pow2[n - 1]

-----------------------------------------------------------------------------
(* compute_score *)

ChainHalvings(elapsed, decayPeriod) ==
    AtMost(MaxHalvings, (elapsed \div decayPeriod) % Pow2[PeriodBits])

ChainScore(agent, now, decayPeriod) ==
    LET net == AtLeastZero(agent.completions - agent.disputes)
        elapsed == now - agent.last_activity
        decayed == net # 0 /\ agent.last_activity > 0 /\ elapsed > decayPeriod
    IN  [score |-> IF decayed THEN net \div Pow2[ChainHalvings(elapsed, decayPeriod)] ELSE net,
         decayed |-> decayed]

-----------------------------------------------------------------------------
(* computeScore *)

HalveModWidth(net, halvings) ==     \* mutant: net >>> halvings, the count modulo the width
    net \div Pow2[halvings % SafeBits]
HalveU64(net, halvings) ==
    IF halvings >= SafeBits THEN 0 ELSE net \div Pow2[halvings]

ComputeScore(agent, now, decayPeriod) ==
    LET net == AtLeastZero(agent.completions - agent.disputes)
        elapsed == AtLeastZero(now - agent.last_activity)
        decayed == net # 0 /\ agent.last_activity > 0 /\ elapsed > decayPeriod
        halvings == AtMost(MaxHalvings, elapsed \div decayPeriod)
    IN  [score |-> IF decayed THEN HalveU64(net, halvings) ELSE net, decayed |-> decayed]

-----------------------------------------------------------------------------
(* scoreMath and decaySeries *)

WebHalvings(elapsed, decayPeriod) ==
    IF elapsed <= decayPeriod THEN 0 ELSE AtMost(MaxHalvings, elapsed \div decayPeriod)

ScoreMath(agent, now, decayPeriod) ==
    LET net == AtLeastZero(agent.completions - agent.disputes)
        elapsed == AtLeastZero(now - agent.last_activity)
        decays == net # 0 /\ agent.last_activity > 0
        halvings == IF decays THEN WebHalvings(elapsed, decayPeriod) ELSE 0
    IN  [net |-> net, halvings |-> halvings, score |-> HalveU64(net, halvings),
         decayed |-> halvings > 0]

NextBoundary(agent, now, decayPeriod) ==    \* mutant: the first boundary for all of them
    decayPeriod + 1 - AtLeastZero(now - agent.last_activity)
NextHalvingInSecs(agent, now, decayPeriod) ==
    LET halvings == ScoreMath(agent, now, decayPeriod).halvings
        left == (halvings + 1) * decayPeriod + 1 - AtLeastZero(now - agent.last_activity)
    IN  IF left < 1 THEN 1 ELSE left

\* The points of the chart, by the time since the last activity.
DecaySeries(base, decayPeriod) ==
    [elapsed \in 0 .. 3 * decayPeriod |-> HalveU64(base, WebHalvings(elapsed, decayPeriod))]
=============================================================================
