---------------------------- MODULE AlgorithmProofs ----------------------------
(***************************************************************************)
(* What the parts that work by themselves promise, for every value of the  *)
(* constants: the scores of the SDK and of the demo against get_score, the  *)
(* events decoded from a log, and the benchmark's mechanisms and detectors. *)
(*                                                                         *)
(* Each part has an inductive invariant (ScoreInv, DecoderInv, BenchmarkInv *)
(* and CollusionInv) and its theorems follow from it.                       *)
(***************************************************************************)
EXTENDS ScoreReads, EventDecoder, Mechanisms, CollusionRing,
        TLAPS, WellFoundedInduction, FiniteSetTheorems

(***************************************************************************)
(* Numbers.  Induction is stated with sets: a set of numbers that is not   *)
(* empty has a least one, so that no number is the first to be bad.        *)
(***************************************************************************)

\* A set of numbers that is not empty has a least one.
LEMMA LeastNumber ==
    ASSUME NEW S \in SUBSET Nat, S # {}
    PROVE  \E n \in S : \A m \in S : n <= m
  <1> DEFINE R == OpToRel(<, Nat)
  <1>1. IsWellFoundedOn(R, Nat)
    BY NatLessThanWellFounded
  <1>2. \A m, n \in Nat : <<m, n>> \in R <=> m < n
    BY DEF OpToRel
  <1> HIDE DEF R
  <1>3. PICK n \in S : \A m \in S : <<m, n>> \notin R
    BY <1>1, WFMin
  <1>4. ASSUME NEW m \in S PROVE n <= m
    <2>1. m \in Nat /\ n \in Nat /\ ~(m < n)
      BY <1>2, <1>3
    <2> QED
      BY <2>1
  <1> QED
    BY <1>4

\* Induction, for a property of numbers that is given as a set.
LEMMA SetInduction ==
    ASSUME NEW good, 0 \in good, \A n \in Nat : n \in good => n + 1 \in good
    PROVE  Nat \subseteq good
  <1> DEFINE bad == {n \in Nat : n \notin good}
  <1>1. ASSUME bad # {} PROVE FALSE
    <2>1. PICK n \in bad : \A m \in bad : n <= m
      BY <1>1, LeastNumber
    <2>2. n \in Nat /\ n \notin good /\ n # 0
      BY <2>1
    <2>3. n - 1 \in Nat /\ n - 1 \in good
      BY <2>1, <2>2
    <2>4. (n - 1) + 1 = n
      BY <2>2
    <2> QED
      BY <2>2, <2>3, <2>4
  <1> QED
    BY <1>1

\* A function is there that starts as given and goes on as given.
Approximates(g, f0, step, n) ==
    /\ g[0] = f0
    /\ \A i \in 0 .. n - 1 : g[i + 1] = step[i][g[i]]

Iterates(g, f0, step) == g[0] = f0 /\ \A n \in Nat : g[n + 1] = step[n][g[n]]

\* A function defined by recursion on the numbers exists.
LEMMA Recursion ==
    ASSUME NEW S, NEW f0 \in S, NEW step \in [Nat -> [S -> S]]
    PROVE  \E g \in [Nat -> S] : Iterates(g, f0, step)
  <1> DEFINE Reached(n) == {g \in [Nat -> S] : Approximates(g, f0, step, n)}
             good == {n \in Nat : Reached(n) # {}}
  <1>1. 0 \in good
    <2>1. [n \in Nat |-> f0] \in Reached(0)
      BY DEF Approximates
    <2> QED
      BY <2>1
  <1>2. ASSUME NEW n \in Nat, n \in good PROVE n + 1 \in good
    <2>1. PICK g \in [Nat -> S] : Approximates(g, f0, step, n)
      BY <1>2
    <2> DEFINE h == [g EXCEPT ![n + 1] = step[n][g[n]]]
    <2>2. h \in [Nat -> S]
      BY <2>1
    <2>3. h[n + 1] = step[n][g[n]] /\ \A i \in 0 .. n : h[i] = g[i]
      BY <2>1
    <2> HIDE DEF h
    <2>4. Approximates(h, f0, step, n + 1)
      <3>1. h[0] = f0
        BY <2>1, <2>3 DEF Approximates
      <3>2. ASSUME NEW i \in 0 .. (n + 1) - 1 PROVE h[i + 1] = step[i][h[i]]
        <4>1. CASE i = n
          BY <2>3, <4>1
        <4>2. CASE i # n
          <5>1. i \in 0 .. n - 1 /\ i \in 0 .. n /\ i + 1 \in 0 .. n
            BY <4>2
          <5> QED
            BY <2>1, <2>3, <5>1 DEF Approximates
        <4> QED
          BY <4>1, <4>2
      <3> QED
        BY <3>1, <3>2 DEF Approximates
    <2>5. n + 1 \in Nat /\ Reached(n + 1) # {}
      BY <2>2, <2>4
    <2> QED
      BY <2>5
  <1>3. \A n \in Nat : Reached(n) # {}
    <2>1. Nat \subseteq good
      <3> HIDE DEF good
      <3> QED
        BY <1>1, <1>2, SetInduction
    <2> QED
      BY <2>1
  <1>4. ASSUME NEW m \in Nat, NEW n \in Nat, m <= n, NEW g \in Reached(m), NEW h \in Reached(n)
        PROVE  g[m] = h[m]
    <2> DEFINE same == {i \in Nat : i <= m => g[i] = h[i]}
    <2>1. 0 \in same
      BY <1>4 DEF Approximates
    <2>2. ASSUME NEW i \in Nat, i \in same PROVE i + 1 \in same
      <3>1. CASE i + 1 <= m
        <4>1. i <= m /\ i \in 0 .. m - 1 /\ i \in 0 .. n - 1
          BY <1>4, <3>1
        <4>2. g[i] = h[i]
          BY <2>2, <4>1
        <4>3. g[i + 1] = step[i][g[i]] /\ h[i + 1] = step[i][h[i]]
          BY <4>1 DEF Approximates
        <4> QED
          BY <4>2, <4>3
      <3> QED
        BY <3>1
    <2>3. m \in same
      <3> HIDE DEF same
      <3> QED
        BY <2>1, <2>2, SetInduction
    <2> QED
      BY <2>3
  <1> DEFINE G(n) == CHOOSE g \in Reached(n) : TRUE
             f == [n \in Nat |-> G(n)[n]]
  <1>5. \A n \in Nat : G(n) \in Reached(n)
    BY <1>3
  <1> HIDE DEF G
  <1>6. f \in [Nat -> S]
    BY <1>5
  <1>7. f[0] = f0
    BY <1>5 DEF Approximates
  <1>8. ASSUME NEW n \in Nat PROVE f[n + 1] = step[n][f[n]]
    <2>1. n + 1 \in Nat /\ n <= n + 1 /\ n \in 0 .. (n + 1) - 1
      OBVIOUS
    <2>2. G(n)[n] = G(n + 1)[n]
      <3> HIDE DEF Reached
      <3> QED
        BY <1>4, <1>5, <2>1
    <2>3. G(n + 1)[n + 1] = step[n][G(n + 1)[n]]
      BY <1>5, <2>1 DEF Approximates
    <2> QED
      BY <2>1, <2>2, <2>3
  <1> QED
    BY <1>6, <1>7, <1>8 DEF Iterates

-----------------------------------------------------------------------------
(***************************************************************************)
(* Scores.                                                                 *)
(***************************************************************************)


\* Pow2 satisfies its own definition.
LEMMA Pow2Equation ==
    ASSUME NEW n \in Nat
    PROVE  Pow2[n] = IF n = 0 THEN 1 ELSE 2 * Pow2[n - 1]
  <1> DEFINE step == [i \in Nat |-> [x \in Nat |-> 2 * x]]
  <1>1. step \in [Nat -> [Nat -> Nat]] /\ 1 \in Nat
    OBVIOUS
  <1> HIDE DEF step
  <1>2. PICK g \in [Nat -> Nat] : Iterates(g, 1, step)
    BY <1>1, Recursion
  <1>3. g[0] = 1 /\ \A i \in Nat : g[i + 1] = 2 * g[i]
    BY <1>2 DEF Iterates, step
  <1>4. ASSUME NEW i \in Nat PROVE g[i] = IF i = 0 THEN 1 ELSE 2 * g[i - 1]
    <2>1. CASE i # 0
      <3>1. i - 1 \in Nat /\ (i - 1) + 1 = i
        BY <2>1
      <3> QED
        BY <1>3, <2>1, <3>1
    <2> QED
      BY <1>3, <2>1
  <1>5. g = [i \in Nat |-> IF i = 0 THEN 1 ELSE 2 * g[i - 1]]
    BY <1>2, <1>4
  <1>6. Pow2 = [i \in Nat |-> IF i = 0 THEN 1 ELSE 2 * Pow2[i - 1]]
    BY <1>5 DEF Pow2
  <1> QED
    BY <1>6

\* Powers of two are positive and double with every step.
LEMMA Pow2Types ==
    /\ Pow2[0] = 1
    /\ \A n \in Nat : Pow2[n] \in Nat \ {0} /\ Pow2[n + 1] = 2 * Pow2[n]
  <1>1. Pow2[0] = 1
    BY Pow2Equation
  <1>2. ASSUME NEW n \in Nat PROVE Pow2[n + 1] = 2 * Pow2[n]
    <2>1. n + 1 \in Nat /\ n + 1 # 0 /\ (n + 1) - 1 = n
      OBVIOUS
    <2> QED
      BY <2>1, Pow2Equation
  <1> DEFINE good == {n \in Nat : Pow2[n] \in Nat \ {0}}
  <1>3. 0 \in good /\ \A n \in Nat : n \in good => n + 1 \in good
    BY <1>1, <1>2
  <1>4. Nat \subseteq good
    <2> HIDE DEF good
    <2> QED
      BY <1>3, SetInduction
  <1> QED
    BY <1>1, <1>2, <1>4

\* More shifts never divide by less.
LEMMA Pow2Grows ==
    ASSUME NEW m \in Nat, NEW n \in Nat, m <= n
    PROVE  Pow2[m] <= Pow2[n]
  <1> DEFINE good == {d \in Nat : Pow2[m] <= Pow2[m + d]}
  <1>1. 0 \in good
    BY Pow2Types
  <1>2. ASSUME NEW d \in Nat, d \in good PROVE d + 1 \in good
    <2>1. m + d \in Nat /\ m + (d + 1) = (m + d) + 1
      OBVIOUS
    <2>2. Pow2[m + (d + 1)] = 2 * Pow2[m + d] /\ Pow2[m + d] \in Nat /\ Pow2[m] \in Nat
      BY <2>1, Pow2Types
    <2> QED
      BY <1>2, <2>2
  <1>3. Nat \subseteq good
    <2> HIDE DEF good
    <2> QED
      BY <1>1, <1>2, SetInduction
  <1>4. n - m \in good
    BY <1>3
  <1> QED
    BY <1>4

-----------------------------------------------------------------------------
(* Division. *)

\* What the quotient of a division is...
LEMMA Quotient ==
    ASSUME NEW a \in Nat, NEW b \in Nat \ {0}
    PROVE  a \div b \in Nat /\ b * (a \div b) <= a /\ a < b * (a \div b) + b
  OBVIOUS

\* ... that nothing else is...
LEMMA QuotientIs ==
    ASSUME NEW a \in Nat, NEW b \in Nat \ {0}, NEW q \in Nat,
           b * q <= a, a < b * q + b
    PROVE  a \div b = q
  <1> DEFINE r == a \div b
  <1>2. r \in Nat /\ b * r <= a /\ a < b * r + b
    BY Quotient
  <1> HIDE DEF r
  <1>3. ~(q + 1 <= r)
    <2>1. ASSUME q + 1 <= r PROVE b * (q + 1) <= b * r
      <3>1. r - (q + 1) \in Nat
        BY <1>2, <2>1
      <3>2. b * (r - (q + 1)) >= 0
        BY <3>1
      <3>3. b * r = b * (q + 1) + b * (r - (q + 1))
        BY <1>2
      <3> QED
        BY <1>2, <3>2, <3>3
    <2>2. b * (q + 1) = b * q + b
      OBVIOUS
    <2> QED
      BY <1>2, <2>1, <2>2
  <1>4. ~(r + 1 <= q)
    <2>1. ASSUME r + 1 <= q PROVE b * (r + 1) <= b * q
      <3>1. q - (r + 1) \in Nat
        BY <1>2, <2>1
      <3>2. b * (q - (r + 1)) >= 0
        BY <3>1
      <3>3. b * q = b * (r + 1) + b * (q - (r + 1))
        BY <1>2
      <3> QED
        BY <1>2, <3>2, <3>3
    <2>2. b * (r + 1) = b * r + b
      BY <1>2
    <2> QED
      BY <1>2, <2>1, <2>2
  <1> QED
    BY <1>2, <1>3, <1>4 DEF r

\* ... and that it grows with what is divided.
LEMMA QuotientGrows ==
    ASSUME NEW a \in Nat, NEW c \in Nat, a <= c, NEW b \in Nat \ {0}
    PROVE  a \div b <= c \div b
  <1> DEFINE q == a \div b
             r == c \div b
  <1>1. q \in Nat /\ r \in Nat /\ b * q <= a /\ c < b * r + b
    BY Quotient
  <1> HIDE DEF q, r
  <1>2. ~(r + 1 <= q)
    <2>1. ASSUME r + 1 <= q PROVE b * (r + 1) <= b * q
      <3>1. q - (r + 1) \in Nat
        BY <1>1, <2>1
      <3>2. b * (q - (r + 1)) >= 0
        BY <3>1
      <3>3. b * q = b * (r + 1) + b * (q - (r + 1))
        BY <1>1
      <3> QED
        BY <1>1, <3>2, <3>3
    <2>2. b * (r + 1) = b * r + b
      BY <1>1
    <2> QED
      BY <1>1, <2>1, <2>2
  <1> QED
    BY <1>1, <1>2 DEF q, r

-----------------------------------------------------------------------------
(* The three computations of a score. *)

ScoredAgent == [completions : 0 .. MaxCompletions, disputes : Nat, last_activity : Nat \ {0}]

ElapsedFits(elapsed, decayPeriod) == elapsed \div decayPeriod < Pow2[PeriodBits]

\* The constants of the scores.
LEMMA ScoreConstants ==
    /\ MaxHalvings \in Nat \ {0} /\ SafeBits \in Nat \ {0}
    /\ PeriodBits \in Nat /\ Pow2[PeriodBits] > 3
    /\ MaxCompletions \in Nat \ {0} /\ MaxCompletions < Pow2[SafeBits]
  <1>1. /\ MaxHalvings \in Nat \ {0} /\ SafeBits \in Nat \ {0}
        /\ PeriodBits \in Nat /\ 2 <= PeriodBits
    BY ScoreMathAssumption DEF MaxHalvings
  <1>2. Pow2[2] = 4
    <2>1. 0 + 1 = 1 /\ 1 + 1 = 2
      OBVIOUS
    <2>2. Pow2[1] = 2
      BY <2>1, Pow2Types
    <2> QED
      BY <2>1, <2>2, Pow2Types
  <1>3. Pow2[2] <= Pow2[PeriodBits] /\ Pow2[PeriodBits] \in Nat
    BY <1>1, Pow2Grows, Pow2Types
  <1> QED
    BY <1>1, <1>2, <1>3, ScoreReadsAssumption

\* A double holds what is left after fewer halvings than it has bits; after more there
\* is nothing left.
LEMMA HalvesAgree ==
    ASSUME NEW net \in 0 .. MaxCompletions, NEW halvings \in Nat
    PROVE  HalveU64(net, halvings) = net \div Pow2[halvings]
  <1>1. CASE halvings >= SafeBits
    <2>1. Pow2[SafeBits] <= Pow2[halvings] /\ Pow2[halvings] \in Nat \ {0}
          /\ Pow2[SafeBits] \in Nat
      BY <1>1, ScoreConstants, Pow2Grows, Pow2Types
    <2>2. net \in Nat /\ net < Pow2[halvings]
      BY <2>1, ScoreConstants
    <2>3. net \div Pow2[halvings] = 0
      BY <2>1, <2>2, QuotientIs
    <2> QED
      BY <1>1, <2>3 DEF HalveU64
  <1>2. CASE ~(halvings >= SafeBits)
    BY <1>2 DEF HalveU64
  <1> QED
    BY <1>1, <1>2

\* Periods that fit into the chain's integer are not truncated.
LEMMA HalvingsAgree ==
    ASSUME NEW elapsed \in Nat, NEW decayPeriod \in Nat \ {0},
           ElapsedFits(elapsed, decayPeriod)
    PROVE  /\ ChainHalvings(elapsed, decayPeriod) = AtMost(MaxHalvings, elapsed \div decayPeriod)
           /\ AtMost(MaxHalvings, elapsed \div decayPeriod) \in Nat
           /\ elapsed > decayPeriod => AtMost(MaxHalvings, elapsed \div decayPeriod) > 0
  <1> DEFINE periods == elapsed \div decayPeriod
  <1>1. periods \in Nat /\ periods < Pow2[PeriodBits] /\ Pow2[PeriodBits] \in Nat \ {0}
    BY Quotient, Pow2Types, ScoreConstants DEF ElapsedFits
  <1>2. elapsed > decayPeriod => periods > 0
    <2>1. decayPeriod * 0 = 0
      OBVIOUS
    <2> QED
      BY <1>1, <2>1, Quotient
  <1> HIDE DEF periods
  <1>3. periods % Pow2[PeriodBits] = periods
    BY <1>1
  <1>4. /\ AtMost(MaxHalvings, periods) \in Nat
        /\ elapsed > decayPeriod => AtMost(MaxHalvings, periods) > 0
    BY <1>1, <1>2, ScoreConstants DEF AtMost
  <1>5. ChainHalvings(elapsed, decayPeriod) = AtMost(MaxHalvings, periods)
    BY <1>3 DEF ChainHalvings, periods
  <1> QED
    BY <1>4, <1>5 DEF periods

\* What is left after disputes is no more than what was completed.
LEMMA NetTypes ==
    ASSUME NEW agent \in ScoredAgent
    PROVE  AtLeastZero(agent.completions - agent.disputes) \in 0 .. MaxCompletions
  <1>1. agent.completions \in 0 .. MaxCompletions /\ agent.disputes \in Nat
    BY DEF ScoredAgent
  <1> QED
    BY <1>1, ScoreConstants DEF AtLeastZero

\* computeScore is compute_score, as long as the elapsed periods fit their width.
LEMMA SdkAgrees ==
    ASSUME NEW agent \in ScoredAgent, NEW now \in Nat, agent.last_activity <= now,
           NEW decayPeriod \in Nat \ {0}, ElapsedFits(now - agent.last_activity, decayPeriod)
    PROVE  ComputeScore(agent, now, decayPeriod) = ChainScore(agent, now, decayPeriod)
  <1> DEFINE net == AtLeastZero(agent.completions - agent.disputes)
             elapsed == now - agent.last_activity
             halvings == AtMost(MaxHalvings, elapsed \div decayPeriod)
             decayed == net # 0 /\ agent.last_activity > 0 /\ elapsed > decayPeriod
  <1>1. net \in 0 .. MaxCompletions
    BY NetTypes
  <1>2. elapsed \in Nat /\ AtLeastZero(elapsed) = elapsed
    BY DEF ScoredAgent, AtLeastZero
  <1>3. ChainHalvings(elapsed, decayPeriod) = halvings /\ halvings \in Nat
    BY <1>2, HalvingsAgree
  <1>4. HalveU64(net, halvings) = net \div Pow2[halvings]
    BY <1>1, <1>3, HalvesAgree
  <1>5. ComputeScore(agent, now, decayPeriod) =
            [score |-> IF decayed THEN HalveU64(net, halvings) ELSE net, decayed |-> decayed]
    BY <1>2 DEF ComputeScore
  <1>6. ChainScore(agent, now, decayPeriod) =
            [score |-> IF decayed THEN net \div Pow2[ChainHalvings(elapsed, decayPeriod)]
                       ELSE net, decayed |-> decayed]
    BY DEF ChainScore
  <1> QED
    BY <1>3, <1>4, <1>5, <1>6

\* The demo counts a halving only after one whole period.
LEMMA WebHalvingsTypes ==
    ASSUME NEW elapsed \in Nat, NEW decayPeriod \in Nat \ {0}
    PROVE  /\ WebHalvings(elapsed, decayPeriod) \in Nat
           /\ elapsed > decayPeriod =>
                  WebHalvings(elapsed, decayPeriod) =
                      AtMost(MaxHalvings, elapsed \div decayPeriod)
           /\ WebHalvings(elapsed, decayPeriod) > 0 <=> elapsed > decayPeriod
  <1>1. elapsed \div decayPeriod \in Nat
    BY Quotient
  <1>2. elapsed > decayPeriod => elapsed \div decayPeriod > 0
    <2>1. decayPeriod * 0 = 0
      OBVIOUS
    <2> QED
      BY <2>1, Quotient
  <1> QED
    BY <1>1, <1>2, ScoreConstants DEF WebHalvings, AtMost

\* The demo's score is that of compute_score.
LEMMA WebAgrees ==
    ASSUME NEW agent \in ScoredAgent, NEW now \in Nat, agent.last_activity <= now,
           NEW decayPeriod \in Nat \ {0}, ElapsedFits(now - agent.last_activity, decayPeriod)
    PROVE  [score |-> ScoreMath(agent, now, decayPeriod).score,
            decayed |-> ScoreMath(agent, now, decayPeriod).decayed]
               = ChainScore(agent, now, decayPeriod)
  <1> DEFINE net == AtLeastZero(agent.completions - agent.disputes)
             elapsed == now - agent.last_activity
             decayed == net # 0 /\ agent.last_activity > 0 /\ elapsed > decayPeriod
             halvings == IF net # 0 /\ agent.last_activity > 0
                         THEN WebHalvings(elapsed, decayPeriod) ELSE 0
  <1>1. net \in 0 .. MaxCompletions /\ agent.last_activity > 0
    BY NetTypes DEF ScoredAgent
  <1>2. elapsed \in Nat /\ AtLeastZero(elapsed) = elapsed
    BY DEF ScoredAgent, AtLeastZero
  <1>3. /\ ScoreMath(agent, now, decayPeriod).score = HalveU64(net, halvings)
        /\ ScoreMath(agent, now, decayPeriod).decayed = (halvings > 0)
    BY <1>2 DEF ScoreMath
  <1>4. ChainScore(agent, now, decayPeriod) =
            [score |-> IF decayed THEN net \div Pow2[ChainHalvings(elapsed, decayPeriod)]
                       ELSE net, decayed |-> decayed]
    BY DEF ChainScore
  <1>5. halvings \in Nat /\ (halvings > 0 <=> decayed)
    BY <1>1, <1>2, WebHalvingsTypes
  <1>6. HalveU64(net, halvings) = net \div Pow2[halvings]
    BY <1>1, <1>5, HalvesAgree
  <1>7. CASE decayed
    <2>1. halvings = ChainHalvings(elapsed, decayPeriod)
      BY <1>2, <1>7, HalvingsAgree, WebHalvingsTypes
    <2> QED
      BY <1>3, <1>4, <1>5, <1>6, <1>7, <2>1
  <1>8. CASE ~decayed
    <2>1. halvings = 0
      BY <1>5, <1>8
    <2>2. net \div 1 = net
      BY <1>1
    <2>3. HalveU64(net, halvings) = net
      BY <1>6, <2>1, <2>2, Pow2Types
    <2> QED
      BY <1>3, <1>4, <1>5, <1>8, <2>3
  <1> QED
    BY <1>7, <1>8

\* A point of the chart is the chain's score at that time, for three periods.
LEMMA SeriesAgrees ==
    ASSUME NEW agent \in ScoredAgent, NEW decayPeriod \in Nat \ {0},
           NEW elapsed \in 0 .. 3 * decayPeriod
    PROVE  HalveU64(AtLeastZero(agent.completions - agent.disputes),
                    WebHalvings(elapsed, decayPeriod))
               = ChainScore(agent, agent.last_activity + elapsed, decayPeriod).score
  <1> DEFINE net == AtLeastZero(agent.completions - agent.disputes)
             now == agent.last_activity + elapsed
  <1>1. /\ net \in 0 .. MaxCompletions /\ agent.last_activity > 0
        /\ agent.last_activity \in Nat
    BY NetTypes DEF ScoredAgent
  <1>2. /\ elapsed \in Nat /\ now \in Nat /\ now - agent.last_activity = elapsed
        /\ agent.last_activity <= now /\ AtLeastZero(now - agent.last_activity) = elapsed
    BY <1>1 DEF AtLeastZero
  <1>3. ElapsedFits(now - agent.last_activity, decayPeriod)
    <2>1. 3 * decayPeriod \in Nat /\ elapsed <= 3 * decayPeriod
          /\ decayPeriod * 3 <= 3 * decayPeriod /\ 3 * decayPeriod < decayPeriod * 3 + decayPeriod
      BY <1>2
    <2>2. (3 * decayPeriod) \div decayPeriod = 3
      BY <2>1, QuotientIs
    <2>3. elapsed \div decayPeriod <= 3 /\ elapsed \div decayPeriod \in Nat
      BY <1>2, <2>1, <2>2, QuotientGrows, Quotient
    <2>4. Pow2[PeriodBits] \in Nat /\ Pow2[PeriodBits] > 3
      BY ScoreConstants, Pow2Types
    <2> QED
      BY <1>2, <2>3, <2>4 DEF ElapsedFits
  <1>4. ScoreMath(agent, now, decayPeriod).score
            = ChainScore(agent, now, decayPeriod).score
    <2> HIDE DEF now
    <2>1. [score |-> ScoreMath(agent, now, decayPeriod).score,
           decayed |-> ScoreMath(agent, now, decayPeriod).decayed]
               = ChainScore(agent, now, decayPeriod)
      BY <1>2, <1>3, WebAgrees
    <2> QED
      BY <2>1
  <1>5. ScoreMath(agent, now, decayPeriod).score =
            HalveU64(net, IF net # 0 THEN WebHalvings(elapsed, decayPeriod) ELSE 0)
    BY <1>1, <1>2 DEF ScoreMath
  <1>6. CASE net = 0
    <2>1. ASSUME NEW halvings \in Nat PROVE HalveU64(0, halvings) = 0
      <3>1. HalveU64(0, halvings) = 0 \div Pow2[halvings]
        BY <1>1, <1>6, HalvesAgree
      <3>2. Pow2[halvings] \in Nat \ {0} /\ Pow2[halvings] * 0 <= 0
            /\ 0 < Pow2[halvings] * 0 + Pow2[halvings]
        BY Pow2Types
      <3> QED
        BY <3>1, <3>2, QuotientIs
    <2>2. WebHalvings(elapsed, decayPeriod) \in Nat
      BY <1>2, WebHalvingsTypes
    <2> QED
      BY <1>4, <1>5, <1>6, <2>1, <2>2
  <1>7. CASE net # 0
    BY <1>4, <1>5, <1>7
  <1> QED
    BY <1>6, <1>7

\* The countdown ends in the next halving, at the latest one second after it.
LEMMA CountdownAgrees ==
    ASSUME NEW agent \in ScoredAgent, NEW now \in Nat, agent.last_activity <= now,
           NEW decayPeriod \in Nat \ {0},
           ScoreMath(agent, now, decayPeriod).net > 0,
           ScoreMath(agent, now, decayPeriod).halvings < MaxHalvings
    PROVE  LET halvings == ScoreMath(agent, now, decayPeriod).halvings
               next == NextHalvingInSecs(agent, now, decayPeriod)
           IN  /\ ScoreMath(agent, now + next, decayPeriod).halvings > halvings
               /\ next >= 2 => ScoreMath(agent, now + (next - 2), decayPeriod).halvings = halvings
  <1> DEFINE elapsed == now - agent.last_activity
             halvings == ScoreMath(agent, now, decayPeriod).halvings
             left == (halvings + 1) * decayPeriod + 1 - elapsed
             next == NextHalvingInSecs(agent, now, decayPeriod)
  <1>1. agent.last_activity \in Nat /\ agent.last_activity > 0 /\ elapsed \in Nat
    BY DEF ScoredAgent
  <1>2. ASSUME NEW later \in Nat, agent.last_activity <= later
        PROVE  ScoreMath(agent, later, decayPeriod).halvings =
                   WebHalvings(later - agent.last_activity, decayPeriod)
    <2>1. AtLeastZero(later - agent.last_activity) = later - agent.last_activity
      BY <1>1, <1>2 DEF AtLeastZero
    <2>2. AtLeastZero(agent.completions - agent.disputes) # 0
      BY DEF ScoreMath
    <2> QED
      BY <1>1, <2>1, <2>2 DEF ScoreMath
  <1>3. /\ halvings = WebHalvings(elapsed, decayPeriod)
        /\ halvings \in Nat /\ halvings < MaxHalvings /\ MaxHalvings \in Nat
    BY <1>1, <1>2, WebHalvingsTypes, ScoreConstants
  <1>4. next = IF left < 1 THEN 1 ELSE left
    <2>1. AtLeastZero(elapsed) = elapsed
      BY <1>1 DEF AtLeastZero
    <2> QED
      BY <2>1 DEF NextHalvingInSecs
  <1> HIDE DEF halvings, next
  <1> DEFINE bound == (halvings + 1) * decayPeriod
  <1>5. /\ bound \in Nat /\ bound = decayPeriod * (halvings + 1)
        /\ bound = decayPeriod * halvings + decayPeriod /\ decayPeriod <= bound
    <2>1. decayPeriod * halvings \in Nat
      BY <1>3
    <2>2. (halvings + 1) * decayPeriod = decayPeriod * halvings + decayPeriod
      BY <1>3
    <2>3. decayPeriod * (halvings + 1) = decayPeriod * halvings + decayPeriod
      BY <1>3
    <2> QED
      BY <2>1, <2>2, <2>3
  <1> HIDE DEF bound
  <1>6. next \in Nat \ {0} /\ elapsed + next >= bound + 1
        /\ (next >= 2 => elapsed + (next - 2) = bound - 1)
    BY <1>1, <1>4, <1>5 DEF bound
  <1>7. ScoreMath(agent, now + next, decayPeriod).halvings > halvings
    <2> DEFINE then == elapsed + next
    <2>1. /\ now + next \in Nat /\ agent.last_activity <= now + next
          /\ (now + next) - agent.last_activity = then
          /\ then \in Nat /\ then > decayPeriod /\ bound <= then
      BY <1>1, <1>5, <1>6
    <2> HIDE DEF then
    <2>2. ScoreMath(agent, now + next, decayPeriod).halvings
              = AtMost(MaxHalvings, then \div decayPeriod)
      BY <1>2, <2>1, WebHalvingsTypes
    <2>3. bound \div decayPeriod = halvings + 1
      BY <1>3, <1>5, QuotientIs
    <2>4. halvings + 1 <= then \div decayPeriod /\ then \div decayPeriod \in Nat
      BY <1>5, <2>1, <2>3, QuotientGrows, Quotient
    <2> QED
      BY <1>3, <2>2, <2>4 DEF AtMost
  <1>8. ASSUME next >= 2
        PROVE  ScoreMath(agent, now + (next - 2), decayPeriod).halvings = halvings
    <2> DEFINE then == elapsed + (next - 2)
    <2>1. /\ now + (next - 2) \in Nat /\ agent.last_activity <= now + (next - 2)
          /\ (now + (next - 2)) - agent.last_activity = then
          /\ then \in Nat /\ then = bound - 1 /\ elapsed <= then
      BY <1>1, <1>5, <1>6, <1>8
    <2> HIDE DEF then
    <2>2. ScoreMath(agent, now + (next - 2), decayPeriod).halvings
              = WebHalvings(then, decayPeriod)
      BY <1>2, <2>1
    <2>3. CASE halvings = 0
      <3>1. decayPeriod * halvings = 0
        BY <2>3
      <3>2. then <= decayPeriod
        <4>1. bound = decayPeriod
          <5>1. bound = 0 + decayPeriod
            BY <1>5, <3>1, Zenon
          <5> QED
            BY <5>1
        <4> QED
          BY <2>1, <4>1
      <3> QED
        BY <2>2, <2>3, <3>2 DEF WebHalvings
    <2>4. CASE halvings # 0
      <3>1. elapsed > decayPeriod
        BY <1>1, <1>3, <2>4, WebHalvingsTypes
      <3>2. then > decayPeriod
        BY <1>1, <2>1, <3>1
      <3>3. then \div decayPeriod = halvings
        BY <1>3, <1>5, <2>1, QuotientIs
      <3>4. WebHalvings(then, decayPeriod) = AtMost(MaxHalvings, halvings)
        BY <2>1, <3>2, <3>3, WebHalvingsTypes
      <3> QED
        BY <1>3, <2>2, <3>4 DEF AtMost
    <2> QED
      BY <2>3, <2>4
  <1> QED
    BY <1>7, <1>8 DEF halvings, next

-----------------------------------------------------------------------------
(* A score that is put together from several reads. *)

Queries ==
    [agent : ScoredAgent \cup {Nothing}, read : BOOLEAN, period : DecayPeriods \cup {Nothing},
     now : Nat \cup {Nothing}, begun : Nat, quiet : BOOLEAN]

\* While nothing disturbs the query, what it has read still is.
QuietReads ==
    query # Nothing /\ query.quiet =>
        /\ query.begun <= time
        /\ record # Nothing => record.last_activity <= query.begun
        /\ query.read => query.agent = record
        /\ query.period # Nothing => query.period = period
        /\ query.now # Nothing => query.begun <= query.now /\ query.now <= time

ScoreInv ==
    /\ record # Nothing => record \in ScoredAgent /\ record.last_activity <= time
    /\ period \in DecayPeriods /\ time \in Nat \ {0}
    /\ query # Nothing => query \in Queries
    /\ QuietReads

\* What others do on chain disturbs a query.
LEMMA AttestKeepsScore ==
    ASSUME ScoreInv, AgentAttests \/ LoseDispute \/ Reconfigure
    PROVE  ScoreInv'
  <1>1. UNCHANGED time /\ Disturb
    BY DEF AgentAttests, LoseDispute, Reconfigure
  <1>2. record' # Nothing => record' \in ScoredAgent /\ record'.last_activity <= time'
    <2>1. CASE AgentAttests
      <3>1. CASE record = Nothing
        <4>1. record' = [completions |-> 1, disputes |-> 0, last_activity |-> time]
          BY <2>1, <3>1 DEF AgentAttests, Attested
        <4> QED
          BY <1>1, <4>1, ScoreConstants DEF ScoreInv, ScoredAgent
      <3>2. CASE record # Nothing
        <4>1. /\ record \in ScoredAgent /\ record.completions < MaxCompletions
              /\ record' = [record EXCEPT !.completions = @ + 1, !.last_activity = time]
          BY <2>1, <3>2 DEF AgentAttests, Attested, ScoreInv
        <4>2. record.completions + 1 \in 0 .. MaxCompletions /\ time \in Nat \ {0}
          BY <4>1, ScoreConstants DEF ScoreInv, ScoredAgent
        <4>3. record' \in ScoredAgent /\ record'.last_activity = time
          BY <4>1, <4>2 DEF ScoredAgent
        <4> QED
          BY <1>1, <4>2, <4>3
      <3> QED
        BY <3>1, <3>2
    <2>2. CASE LoseDispute
      <3>1. record \in ScoredAgent /\ record' = [record EXCEPT !.disputes = @ + 1]
        BY <2>2 DEF LoseDispute, ScoreInv
      <3> QED
        BY <1>1, <2>2, <3>1 DEF ScoreInv, ScoredAgent, LoseDispute
    <2>3. CASE Reconfigure
      BY <1>1, <2>3 DEF Reconfigure, ScoreInv
    <2> QED
      BY <2>1, <2>2, <2>3
  <1>3. period' \in DecayPeriods /\ time' \in Nat \ {0}
    BY <1>1 DEF ScoreInv, AgentAttests, LoseDispute, Reconfigure
  <1>4. query' # Nothing => query' \in Queries /\ ~query'.quiet
    BY <1>1 DEF ScoreInv, Disturb, Queries
  <1> QED
    BY <1>2, <1>3, <1>4 DEF ScoreInv, QuietReads

\* The reads of a query copy what is on chain.
LEMMA ReadKeepsScore ==
    ASSUME ScoreInv, GetScore \/ GetAgent \/ GetConfig \/ ClusterTime \/ EndGetScore
    PROVE  ScoreInv'
  <1>1. UNCHANGED <<record, period, time>>
    BY DEF GetScore, GetAgent, GetConfig, ClusterTime, EndGetScore, Answer
  <1>2. DecayPeriods \subseteq Nat \ {0} /\ LocalTimes \subseteq Nat
    BY ScoreReadsAssumption
  <1>3. (query' # Nothing => query' \in Queries) /\ QuietReads'
    <2>1. CASE GetScore
      <3>1. query' = [agent |-> Nothing, read |-> FALSE, period |-> Nothing,
                      now |-> Nothing, begun |-> time, quiet |-> TRUE]
        BY <2>1 DEF GetScore
      <3> QED
        BY <1>1, <3>1 DEF ScoreInv, Queries, QuietReads
    <2>2. CASE GetAgent
      <3>1. query \in Queries /\ query' = [query EXCEPT !.agent = record, !.read = TRUE]
        BY <2>2 DEF GetAgent, Answer, ScoreInv
      <3>2. query' \in Queries
        BY <3>1 DEF ScoreInv, Queries
      <3> QED
        BY <1>1, <2>2, <3>1, <3>2 DEF ScoreInv, Queries, QuietReads, GetAgent
    <2>3. CASE GetConfig
      <3>1. query \in Queries /\ query' = [query EXCEPT !.period = period]
        BY <2>3 DEF GetConfig, Answer, ScoreInv
      <3>2. query' \in Queries
        BY <3>1 DEF ScoreInv, Queries
      <3> QED
        BY <1>1, <2>3, <3>1, <3>2 DEF ScoreInv, Queries, QuietReads, GetConfig
    <2>4. CASE ClusterTime
      <3>1. query # Nothing /\ query \in Queries
        BY <2>4 DEF ClusterTime, ScoreInv
      <3>2. CASE query' = [query EXCEPT !.now = time]
        <4>1. query' \in Queries
          BY <3>1, <3>2 DEF ScoreInv, Queries
        <4> QED
          BY <1>1, <3>1, <3>2, <4>1 DEF ScoreInv, Queries, QuietReads
      <3>3. CASE \E local \in LocalTimes :
                     query' = [query EXCEPT !.now = local, !.quiet = FALSE]
        BY <1>2, <3>1, <3>3 DEF Queries, QuietReads
      <3> QED
        BY <2>4, <3>2, <3>3 DEF ClusterTime, Answer
    <2>5. CASE EndGetScore
      BY <2>5 DEF EndGetScore, Answer, QuietReads
    <2> QED
      BY <2>1, <2>2, <2>3, <2>4, <2>5
  <1> QED
    BY <1>1, <1>3 DEF ScoreInv

\* ScoreInv holds of every reachable state.
LEMMA ScoreInvariance == ScoreSpec => []ScoreInv
  <1>1. ScoreInit => ScoreInv
    BY DEF ScoreInit, ScoreInv, QuietReads
  <1>2. ASSUME ScoreInv, [ScoreNext]_scoreVars PROVE ScoreInv'
    <2>1. CASE TimePasses
      <3>1. /\ time' = time + 1 /\ UNCHANGED <<record, period, query>>
            /\ time \in Nat \ {0}
        BY <1>2, <2>1 DEF TimePasses, ScoreInv
      <3>2. record' # Nothing => record' \in ScoredAgent /\ record'.last_activity <= time'
        BY <1>2, <3>1 DEF ScoreInv, ScoredAgent
      <3>3. QuietReads'
        BY <1>2, <3>1 DEF ScoreInv, QuietReads, Queries
      <3> QED
        BY <1>2, <3>1, <3>2, <3>3 DEF ScoreInv
    <2>2. CASE UNCHANGED scoreVars
      BY <1>2, <2>2 DEF scoreVars, ScoreInv, QuietReads
    <2> QED
      BY <1>2, <2>1, <2>2, AttestKeepsScore, ReadKeepsScore DEF ScoreNext
  <1> QED
    BY <1>1, <1>2, PTL DEF ScoreSpec

\* The elapsed periods fit at any time before now if they do now.
LEMMA FitsBefore ==
    ASSUME ScoreInv, PeriodsFit, record # Nothing, NEW now \in Nat,
           record.last_activity <= now, now <= time
    PROVE  ElapsedFits(now - record.last_activity, period)
  <1> DEFINE since == now - record.last_activity
             until == time - record.last_activity
  <1>1. period \in Nat \ {0} /\ time \in Nat /\ record.last_activity \in Nat
    BY ScoreReadsAssumption DEF ScoreInv, ScoredAgent
  <1>2. since \in Nat /\ until \in Nat /\ since <= until
    BY <1>1
  <1>3. until \div period < Pow2[PeriodBits] /\ Pow2[PeriodBits] \in Nat
    BY ScoreConstants, Pow2Types DEF PeriodsFit
  <1> HIDE DEF since, until
  <1>4. since \div period <= until \div period
        /\ since \div period \in Nat /\ until \div period \in Nat
    BY <1>1, <1>2, QuotientGrows, Quotient
  <1>5. since \div period < Pow2[PeriodBits]
    BY <1>3, <1>4
  <1> QED
    BY <1>5 DEF ElapsedFits, since

\* What getScore returns, put together from reads of different slots, is what get_score
\* would have answered at a moment of the call, unless somebody interfered with it or the
\* elapsed periods do not fit their width.
THEOREM ScoresWereRight == ScoreSpec => []ScoreWasRight
  <1>1. ASSUME ScoreInv, Answered, query.quiet, PeriodsFit
        PROVE  ReturnedView \in {GetScoreOnChain(now) : now \in query.begun .. time}
    <2>1. /\ query \in Queries /\ query.now \in Nat /\ query.begun \in Nat
          /\ query.begun <= query.now /\ query.now <= time /\ time \in Nat
          /\ query.agent = record /\ query.period = period
          /\ record # Nothing => record.last_activity <= query.begun
      BY <1>1 DEF Answered, ScoreInv, QuietReads, Queries
    <2>2. query.now \in query.begun .. time
      BY <2>1
    <2>3. ReturnedView = GetScoreOnChain(query.now)
      <3>1. CASE record = Nothing
        BY <2>1, <3>1 DEF ReturnedView, GetScoreOnChain
      <3>2. CASE record # Nothing
        <4>1. record \in ScoredAgent /\ period \in Nat \ {0}
          BY <1>1, <3>2, ScoreReadsAssumption DEF ScoreInv
        <4>2. record.last_activity \in Nat /\ record.last_activity <= query.now
          BY <2>1, <3>2, <4>1 DEF ScoredAgent
        <4>3. ElapsedFits(query.now - record.last_activity, period)
          BY <1>1, <2>1, <3>2, <4>2, FitsBefore
        <4>4. ComputeScore(record, query.now, period) = ChainScore(record, query.now, period)
          BY <2>1, <4>1, <4>2, <4>3, SdkAgrees
        <4> QED
          BY <2>1, <3>2, <4>4 DEF ReturnedView, GetScoreOnChain
      <3> QED
        BY <3>1, <3>2
    <2> QED
      BY <2>2, <2>3
  <1>2. ScoreInv => ScoreWasRight
    BY <1>1 DEF ScoreWasRight
  <1> QED
    BY <1>2, ScoreInvariance, PTL

\* The demo's mirror of the score agrees with the chain: the score, every point of its
\* chart, and the countdown up to one second, while the elapsed periods fit their width.
THEOREM WebComputesTheSame == ScoreSpec => []WebMathAgrees
  <1>1. ASSUME ScoreInv, record # Nothing, PeriodsFit
        PROVE  WebMathAgrees
    <2> DEFINE web == ScoreMath(record, time, period)
               next == NextHalvingInSecs(record, time, period)
    <2>1. /\ record \in ScoredAgent /\ record.last_activity <= time
          /\ time \in Nat /\ period \in Nat \ {0}
      BY <1>1, ScoreReadsAssumption DEF ScoreInv
    <2>2. [score |-> web.score, decayed |-> web.decayed] = ChainScore(record, time, period)
      BY <1>1, <2>1, FitsBefore, WebAgrees
    <2>3. web.net = AtLeastZero(record.completions - record.disputes)
      BY DEF ScoreMath
    <2>4. ASSUME NEW elapsed \in DOMAIN DecaySeries(web.net, period)
          PROVE  DecaySeries(web.net, period)[elapsed] =
                     ChainScore(record, record.last_activity + elapsed, period).score
      <3>1. elapsed \in 0 .. 3 * period
        BY <2>4 DEF DecaySeries
      <3>2. DecaySeries(web.net, period)[elapsed] =
                HalveU64(web.net, WebHalvings(elapsed, period))
        BY <3>1 DEF DecaySeries
      <3> QED
        BY <2>1, <2>3, <3>1, <3>2, SeriesAgrees
    <2>5. web.net > 0 /\ web.halvings < MaxHalvings =>
              /\ ScoreMath(record, time + next, period).halvings > web.halvings
              /\ next >= 2 =>
                     ScoreMath(record, time + (next - 2), period).halvings = web.halvings
      BY <2>1, CountdownAgrees
    <2> QED
      BY <2>2, <2>4, <2>5 DEF WebMathAgrees
  <1>2. ScoreInv => WebMathAgrees
    BY <1>1 DEF WebMathAgrees
  <1> QED
    BY <1>2, ScoreInvariance, PTL

-----------------------------------------------------------------------------
(***************************************************************************)
(* The event decoder.                                                      *)
(***************************************************************************)

Lines ==
    [kind : {"invoke", "return"}, of : Programs \cup {LogWord}]
    \cup DataLines \cup [kind : {"text"}, length : Nat]

\* How far from its end a sequence holds the program.
TaopAt(s, distance) == distance < Len(s) /\ s[Len(s) - distance] = Taop

\* The program is the last to run, but for the System program that it calls, which
\* calls nobody.
TaopOnTop ==
    /\ \A d \in Nat : TaopAt(frames, d) => d = 0 \/ (d = 1 /\ Executing(System))
    /\ \A i \in 1 .. Len(frames) : frames[i] = System => i = Len(frames)

\* What other programs log has taken the two stacks apart, but not where the program is.
StackKnowsTaop == whole => \A d \in Nat : TaopAt(stack, d) <=> TaopAt(frames, d)

\* Lines have been lost, but none that says that the program or the System program has
\* returned: what the decoder still holds of the program is no deeper than the program.
StackNotDeeper ==
    room > ReturnLength(Taop) =>
        \A d \in Nat : TaopAt(stack, d) => \E e \in Nat : d <= e /\ TaopAt(frames, e)

EventsWhole ==
    whole => /\ Len(events) = emitted
             /\ \A i \in 1 .. Len(events) : events[i].event = i

EventsOrdered(s, count) ==
    /\ \A i \in 1 .. Len(s) :
           /\ s[i].event <= count
           /\ s[i].event # Forged \/ s[i].length < ReturnLength(Taop)
    /\ \A i, j \in 1 .. Len(s) :
           i < j /\ s[i].event # Forged /\ s[j].event # Forged => s[i].event < s[j].event

DecoderInv ==
    /\ DecoderTypeOK
    /\ TaopOnTop
    /\ StackKnowsTaop
    /\ StackNotDeeper
    /\ EventsWhole
    /\ EventsOrdered(events, emitted)

\* A program that is invoked moves the ones below it one further from the top.
LEMMA AppendedTaop ==
    ASSUME NEW S, NEW s \in Seq(S), NEW program \in S, NEW d \in Nat
    PROVE  TaopAt(Append(s, program), d) <=>
               IF d = 0 THEN program = Taop ELSE TaopAt(s, d - 1)
  BY DEF TaopAt

\* A program that ends moves the ones below it one closer to the top.
LEMMA PoppedTaop ==
    ASSUME NEW S, NEW s \in Seq(S), s # <<>>, NEW d \in Nat
    PROVE  /\ Front(s) \in Seq(S)
           /\ Len(Front(s)) = Len(s) - 1
           /\ \A i \in 1 .. Len(s) - 1 : Front(s)[i] = s[i]
           /\ TaopAt(Front(s), d) <=> TaopAt(s, d + 1)
  <1>1. Len(s) \in Nat \ {0}
    OBVIOUS
  <1>2. Front(s) = [i \in 1 .. Len(s) - 1 |-> s[i]]
    BY <1>1 DEF Front
  <1>3. Front(s) \in Seq(S) /\ Len(Front(s)) = Len(s) - 1
    BY <1>1, <1>2
  <1>4. \A i \in 1 .. Len(s) - 1 : Front(s)[i] = s[i]
    BY <1>2
  <1>5. TaopAt(Front(s), d) <=> TaopAt(s, d + 1)
    <2>1. d + 1 < Len(s) =>
              /\ (Len(s) - 1) - d = Len(s) - (d + 1)
              /\ (Len(s) - 1) - d \in 1 .. Len(s) - 1
      BY <1>1
    <2>2. d < Len(s) - 1 <=> d + 1 < Len(s)
      BY <1>1
    <2> QED
      BY <1>3, <1>4, <2>1, <2>2 DEF TaopAt
  <1> QED
    BY <1>3, <1>4, <1>5

\* The decoder's stack when it reads that a program has returned.
LEMMA DecoderPops ==
    ASSUME stack \in Seq(Programs \cup {LogWord}), NEW d \in Nat
    PROVE  /\ Popped \in Seq(Programs \cup {LogWord})
           /\ TaopAt(Popped, d) <=> TaopAt(stack, d + 1)
  <1>1. CASE stack = <<>>
    BY <1>1 DEF Popped, TaopAt
  <1>2. CASE stack # <<>>
    BY <1>2, PoppedTaop DEF Popped
  <1> QED
    BY <1>1, <1>2

\* Every line has a length.
LEMMA LengthsOfLines ==
    ASSUME NEW line \in Lines
    PROVE  BytesOf(line) \in Nat
  <1>1. CASE line \in [kind : {"invoke", "return"}, of : Programs \cup {LogWord}]
    <2>1. IdLength[line.of] \in Nat
      BY <1>1, DecoderAssumption DEF Programs
    <2> QED
      BY <1>1, <2>1 DEF BytesOf, ReturnLength
  <1>2. CASE line \in DataLines
    BY <1>2, DecoderAssumption DEF DataLines, BytesOf
  <1>3. CASE line \in [kind : {"text"}, length : Nat]
    BY <1>3 DEF BytesOf
  <1> QED
    BY <1>1, <1>2, <1>3 DEF Lines

\* A line is logged alike in every action: it is kept and decoded, or it is dropped and
\* the log is not whole any more.
LEMMA LoggedOrDropped ==
    ASSUME DecoderTypeOK, NEW line \in Lines, Log(line)
    PROVE  /\ lines' \in 0 .. MaxLines
           /\ room' \in 0 .. LogLimit /\ room' <= room
           /\ whole' \in BOOLEAN /\ (whole' => whole)
           /\ stack' \in Seq(Programs \cup {LogWord})
           /\ events' \in Seq(DataLines)
           /\ \/ BytesOf(line) < room /\ DecodeEvents(line)
              \/ BytesOf(line) >= room /\ ~whole' /\ UNCHANGED <<stack, events>>
  <1>1. lines' \in 0 .. MaxLines
    BY DecoderAssumption DEF DecoderTypeOK, Log
  <1>2. BytesOf(line) \in Nat /\ room \in 0 .. LogLimit /\ whole \in BOOLEAN
    BY LengthsOfLines DEF DecoderTypeOK
  <1>3. stack \in Seq(Programs \cup {LogWord}) /\ events \in Seq(DataLines)
    BY DEF DecoderTypeOK
  <1>4. CASE BytesOf(line) < room
    <2>1. room' = room - BytesOf(line) /\ DecodeEvents(line) /\ whole' = whole
      BY <1>4 DEF Log
    <2>2. room' \in 0 .. LogLimit /\ room' <= room
      BY <1>2, <1>4, <2>1, DecoderAssumption
    <2>3. stack' \in Seq(Programs \cup {LogWord})
      <3>1. \/ stack' = stack \/ stack' = Popped
            \/ line.kind = "invoke" /\ stack' = Append(stack, line.of)
        BY <2>1 DEF DecodeEvents
      <3>2. line.kind = "invoke" => line.of \in Programs \cup {LogWord}
        BY DEF Lines, DataLines
      <3>3. Popped \in Seq(Programs \cup {LogWord})
        BY <1>3, DecoderPops
      <3> QED
        BY <1>3, <3>1, <3>2, <3>3
    <2>4. events' \in Seq(DataLines)
      <3>1. events' = events \/ (line.kind = "data" /\ events' = Append(events, line))
        BY <2>1 DEF DecodeEvents
      <3>2. line.kind = "data" => line \in DataLines
        BY DEF Lines
      <3> QED
        BY <1>3, <3>1, <3>2
    <2> QED
      BY <1>1, <1>2, <1>4, <2>1, <2>2, <2>3, <2>4
  <1>5. CASE ~(BytesOf(line) < room)
    <2>1. whole' = FALSE /\ room' = room /\ stack' = stack /\ events' = events
      BY <1>5 DEF Log
    <2>2. BytesOf(line) >= room /\ room' <= room
      BY <1>2, <1>5, <2>1, DecoderAssumption
    <2> QED
      BY <1>1, <1>2, <1>3, <2>1, <2>2
  <1> QED
    BY <1>4, <1>5

\* An invocation is pushed on the decoder's stack, or lost.
LEMMA InvokeKeepsDecoder ==
    ASSUME DecoderInv, NEW program \in Programs, Invoke(program)
    PROVE  DecoderInv'
  <1> DEFINE line == Invocation(program)
  <1>1. /\ DecoderTypeOK /\ TaopOnTop /\ StackKnowsTaop /\ StackNotDeeper
        /\ EventsWhole /\ EventsOrdered(events, emitted)
        /\ frames \in Seq(Programs) /\ stack \in Seq(Programs \cup {LogWord})
        /\ room \in Int
    BY DecoderAssumption DEF DecoderInv, DecoderTypeOK
  <1>2. /\ frames' = Append(frames, program) /\ Log(line)
        /\ emitted' = emitted /\ Callable(program)
    BY DEF Invoke
  <1>3. line \in Lines /\ line.kind = "invoke" /\ line.of = program
    BY DEF Lines, Invocation
  <1> HIDE DEF line
  <1>4. /\ lines' \in 0 .. MaxLines
        /\ room' \in 0 .. LogLimit /\ room' <= room
        /\ whole' \in BOOLEAN /\ (whole' => whole)
        /\ stack' \in Seq(Programs \cup {LogWord})
        /\ events' \in Seq(DataLines)
        /\ \/ DecodeEvents(line)
           \/ ~whole' /\ UNCHANGED <<stack, events>>
    BY <1>1, <1>2, <1>3, LoggedOrDropped
  <1>5. events' = events
    BY <1>3, <1>4 DEF DecodeEvents
  <1>6. stack' = Append(stack, program) \/ (~whole' /\ stack' = stack)
    BY <1>3, <1>4 DEF DecodeEvents
  <1>7. DecoderTypeOK'
    <2>1. frames' \in Seq(Programs) /\ Len(frames') <= MaxDepth
      BY <1>1, <1>2, DecoderAssumption DEF Callable
    <2> QED
      BY <1>1, <1>2, <1>4, <2>1 DEF DecoderTypeOK
  <1>8. \A d \in Nat : TaopAt(frames', d) <=>
            IF d = 0 THEN program = Taop ELSE TaopAt(frames, d - 1)
    BY <1>1, <1>2, AppendedTaop
  <1>9. \A d \in Nat : TaopAt(Append(stack, program), d) <=>
            IF d = 0 THEN program = Taop ELSE TaopAt(stack, d - 1)
    BY <1>1, AppendedTaop
  <1>10. TaopOnTop'
    <2>1. Executing(program)'
      BY <1>1, <1>2 DEF Executing, Last
    <2>2. ~Executing(System) /\ (Executing(Taop) => program = System)
      BY <1>2, DecoderAssumption DEF Callable, Executing
    <2>3. ASSUME NEW d \in Nat, TaopAt(frames', d)
          PROVE  d = 0 \/ (d = 1 /\ Executing(System)')
      <3>1. CASE d # 0
        <4>1. d - 1 \in Nat /\ TaopAt(frames, d - 1)
          BY <1>8, <2>3, <3>1
        <4>2. d - 1 = 0
          BY <1>1, <2>2, <4>1 DEF TaopOnTop
        <4>3. Executing(Taop)
          BY <1>1, <4>1, <4>2 DEF TaopAt, Executing, Last
        <4> QED
          BY <2>1, <2>2, <4>2, <4>3
      <3> QED
        BY <3>1
    <2>4. ASSUME NEW i \in 1 .. Len(frames'), frames'[i] = System
          PROVE  i = Len(frames')
      <3>1. CASE i # Len(frames')
        <4>1. i \in 1 .. Len(frames) /\ frames[i] = System
          BY <1>1, <1>2, <2>4, <3>1
        <4>2. Executing(System)
          BY <1>1, <4>1 DEF TaopOnTop, Executing, Last
        <4> QED
          BY <2>2, <4>2
      <3> QED
        BY <3>1
    <2> QED
      BY <2>3, <2>4 DEF TaopOnTop, TaopAt
  <1>11. StackKnowsTaop'
    <2>1. ASSUME whole', NEW d \in Nat PROVE TaopAt(stack', d) <=> TaopAt(frames', d)
      <3>1. TaopAt(stack', d) <=> IF d = 0 THEN program = Taop ELSE TaopAt(stack, d - 1)
        BY <1>6, <1>9, <2>1
      <3>2. \A e \in Nat : TaopAt(stack, e) <=> TaopAt(frames, e)
        BY <1>1, <1>4, <2>1 DEF StackKnowsTaop
      <3>3. d # 0 => d - 1 \in Nat
        OBVIOUS
      <3> QED
        BY <1>8, <3>1, <3>2, <3>3
    <2> QED
      BY <2>1 DEF StackKnowsTaop, TaopAt
  <1>12. StackNotDeeper'
    <2>1. ASSUME room' > ReturnLength(Taop), NEW d \in Nat, TaopAt(stack', d)
          PROVE  \E e \in Nat : d <= e /\ TaopAt(frames', e)
      <3>1. \A f \in Nat : TaopAt(stack, f) => \E e \in Nat : f <= e /\ TaopAt(frames, e)
        <4>1. ReturnLength(Taop) \in Int /\ room' \in Int
          BY <1>4, DecoderAssumption DEF ReturnLength
        <4>2. room > ReturnLength(Taop)
          BY <1>1, <1>4, <2>1, <4>1
        <4> QED
          BY <1>1, <4>2 DEF StackNotDeeper
      <3>2. ASSUME NEW f \in Nat, TaopAt(stack, f)
            PROVE  \E e \in Nat : f + 1 <= e /\ TaopAt(frames', e)
        <4>1. PICK e \in Nat : f <= e /\ TaopAt(frames, e)
          BY <3>1, <3>2
        <4>2. e + 1 \in Nat /\ e + 1 # 0 /\ (e + 1) - 1 = e /\ f + 1 <= e + 1
          BY <4>1
        <4>3. TaopAt(frames', e + 1)
          BY <1>8, <4>1, <4>2
        <4> QED
          BY <4>2, <4>3
      <3>3. CASE stack' = stack
        <4>1. PICK e \in Nat : d + 1 <= e /\ TaopAt(frames', e)
          BY <2>1, <3>2, <3>3
        <4>2. d <= e
          BY <4>1
        <4> QED
          BY <4>1, <4>2
      <3>4. CASE stack' = Append(stack, program)
        <4>1. CASE d = 0
          BY <1>8, <1>9, <2>1, <3>4, <4>1
        <4>2. CASE d # 0
          <5>1. d - 1 \in Nat /\ (d - 1) + 1 = d
            BY <4>2
          <5>2. TaopAt(stack, d - 1)
            BY <1>9, <2>1, <3>4, <4>2
          <5> QED
            BY <3>2, <5>1, <5>2
        <4> QED
          BY <4>1, <4>2
      <3> QED
        BY <1>6, <3>3, <3>4
    <2> QED
      BY <2>1 DEF StackNotDeeper, TaopAt, ReturnLength
  <1> QED
    BY <1>1, <1>2, <1>4, <1>5, <1>7, <1>10, <1>11, <1>12
    DEF DecoderInv, EventsWhole, EventsOrdered, ReturnLength

\* A return is popped from the decoder's stack, or lost; the program's own and the System
\* program's are not lost while there is room for them.
LEMMA EndKeepsDecoder ==
    ASSUME DecoderInv, End
    PROVE  DecoderInv'
  <1> DEFINE line == Return(Last(frames))
  <1>1. /\ DecoderTypeOK /\ TaopOnTop /\ StackKnowsTaop /\ StackNotDeeper
        /\ EventsWhole /\ EventsOrdered(events, emitted)
        /\ frames \in Seq(Programs) /\ stack \in Seq(Programs \cup {LogWord})
        /\ room \in Int
    BY DecoderAssumption DEF DecoderInv, DecoderTypeOK
  <1>2. /\ frames # <<>> /\ frames' = Front(frames) /\ Log(line)
        /\ emitted' = emitted
    BY DEF End
  <1>3. line \in Lines /\ line.kind = "return" /\ line.of = Last(frames)
    <2>1. Last(frames) \in Programs
      BY <1>1, <1>2 DEF Last
    <2> QED
      BY <2>1 DEF Lines, Return
  <1>4. BytesOf(line) = ReturnLength(Last(frames))
    BY <1>3 DEF BytesOf
  <1> HIDE DEF line
  <1>5. /\ lines' \in 0 .. MaxLines
        /\ room' \in 0 .. LogLimit /\ room' <= room
        /\ whole' \in BOOLEAN /\ (whole' => whole)
        /\ stack' \in Seq(Programs \cup {LogWord})
        /\ events' \in Seq(DataLines)
        /\ \/ DecodeEvents(line)
           \/ BytesOf(line) >= room /\ ~whole' /\ UNCHANGED <<stack, events>>
    BY <1>1, <1>2, <1>3, LoggedOrDropped
  <1>6. events' = events
    BY <1>3, <1>5 DEF DecodeEvents
  <1>7. \/ stack' = Popped
        \/ ReturnLength(Last(frames)) >= room /\ ~whole' /\ stack' = stack
    BY <1>3, <1>4, <1>5 DEF DecodeEvents
  <1>8. /\ frames' \in Seq(Programs) /\ Len(frames') = Len(frames) - 1
        /\ \A i \in 1 .. Len(frames) - 1 : frames'[i] = frames[i]
        /\ \A d \in Nat : TaopAt(frames', d) <=> TaopAt(frames, d + 1)
    BY <1>1, <1>2, PoppedTaop
  <1>9. \A d \in Nat : TaopAt(Popped, d) <=> TaopAt(stack, d + 1)
    BY <1>1, DecoderPops
  <1>10. DecoderTypeOK'
    <2>1. Len(frames') <= MaxDepth
      <3>1. Len(frames) \in Nat /\ Len(frames) <= MaxDepth
        BY <1>1 DEF DecoderTypeOK
      <3> QED
        BY <1>8, <3>1, DecoderAssumption
    <2> QED
      BY <1>1, <1>2, <1>5, <1>8, <2>1 DEF DecoderTypeOK
  <1>11. TaopOnTop'
    <2>1. ASSUME NEW d \in Nat, TaopAt(frames', d)
          PROVE  d = 0
      <3>1. d + 1 \in Nat /\ TaopAt(frames, d + 1)
        BY <1>8, <2>1
      <3>2. d + 1 = 0 \/ d + 1 = 1
        BY <1>1, <3>1 DEF TaopOnTop
      <3> QED
        BY <3>2
    <2>2. ASSUME NEW i \in 1 .. Len(frames'), frames'[i] = System
          PROVE  FALSE
      <3>1. Len(frames) \in Nat /\ i \in 1 .. Len(frames) - 1
        BY <1>1, <1>8, <2>2
      <3>2. i \in 1 .. Len(frames) /\ i # Len(frames)
        BY <3>1
      <3>3. frames[i] = System
        BY <1>8, <2>2, <3>1
      <3> QED
        BY <1>1, <3>2, <3>3 DEF TaopOnTop
    <2> QED
      BY <2>1, <2>2 DEF TaopOnTop, TaopAt
  <1>12. StackKnowsTaop'
    <2>1. ASSUME whole', NEW d \in Nat PROVE TaopAt(stack', d) <=> TaopAt(frames', d)
      <3>1. TaopAt(stack', d) <=> TaopAt(stack, d + 1)
        BY <1>7, <1>9, <2>1
      <3>2. \A e \in Nat : TaopAt(stack, e) <=> TaopAt(frames, e)
        BY <1>1, <1>5, <2>1 DEF StackKnowsTaop
      <3>3. d + 1 \in Nat
        OBVIOUS
      <3> QED
        BY <1>8, <3>1, <3>2, <3>3
    <2> QED
      BY <2>1 DEF StackKnowsTaop, TaopAt
  <1>13. StackNotDeeper'
    <2>1. ASSUME room' > ReturnLength(Taop), NEW d \in Nat, TaopAt(stack', d)
          PROVE  \E e \in Nat : d <= e /\ TaopAt(frames', e)
      <3>1. /\ ReturnLength(Taop) \in Int /\ room' \in Int
            /\ ReturnLength(System) \in Int /\ ReturnLength(System) <= ReturnLength(Taop)
        BY <1>5, DecoderAssumption DEF ReturnLength
      <3>2. room > ReturnLength(Taop)
        BY <1>1, <1>5, <2>1, <3>1
      <3>3. \A f \in Nat : TaopAt(stack, f) => \E e \in Nat : f <= e /\ TaopAt(frames, e)
        BY <1>1, <3>2 DEF StackNotDeeper
      <3>4. CASE stack' = Popped
        <4>1. d + 1 \in Nat /\ TaopAt(stack, d + 1)
          BY <1>9, <2>1, <3>4
        <4>2. PICK e \in Nat : d + 1 <= e /\ TaopAt(frames, e)
          BY <3>3, <4>1
        <4>3. e - 1 \in Nat /\ d <= e - 1 /\ (e - 1) + 1 = e
          BY <4>2
        <4> QED
          BY <1>8, <4>2, <4>3
      <3>5. CASE ReturnLength(Last(frames)) >= room /\ stack' = stack
        <4>1. PICK e \in Nat : d <= e /\ TaopAt(frames, e)
          BY <2>1, <3>3, <3>5
        <4>2. e = 0 \/ Executing(System)
          BY <1>1, <4>1 DEF TaopOnTop
        <4>3. Last(frames) = Taop \/ Last(frames) = System
          BY <1>1, <4>1, <4>2 DEF Executing, TaopAt, Last
        <4> QED
          BY <1>1, <3>1, <3>2, <3>5, <4>3
      <3> QED
        BY <1>7, <3>4, <3>5
    <2> QED
      BY <2>1 DEF StackNotDeeper, TaopAt, ReturnLength
  <1> QED
    BY <1>1, <1>2, <1>5, <1>6, <1>10, <1>11, <1>12, <1>13
    DEF DecoderInv, EventsWhole, EventsOrdered, ReturnLength

\* The events of lines are numbers.
LEMMA EventsNumbered ==
    ASSUME NEW s \in Seq(DataLines), NEW i \in 1 .. Len(s)
    PROVE  s[i].event \in Int
  <1>1. s[i] \in DataLines
    OBVIOUS
  <1>2. \A line \in DataLines : line.event \in 0 .. MaxEvents
    BY DEF DataLines
  <1> QED
    BY <1>1, <1>2, DecoderAssumption

\* An event more in order.
LEMMA AppendedInOrder ==
    ASSUME NEW s \in Seq(DataLines), NEW count \in Nat, EventsOrdered(s, count),
           NEW line \in DataLines, line.event = count + 1
    PROVE  EventsOrdered(Append(s, line), count + 1)
  <1> DEFINE t == Append(s, line)
  <1>1. /\ Len(s) \in Nat /\ Len(t) = Len(s) + 1
        /\ \A i \in 1 .. Len(s) : t[i] = s[i]
        /\ t[Len(s) + 1] = line
        /\ \A i \in 1 .. Len(t) : i \in 1 .. Len(s) \/ i = Len(s) + 1
    OBVIOUS
  <1>2. line.event # Forged
    BY DEF Forged
  <1>3. \A i \in 1 .. Len(s) :
            /\ s[i].event <= count
            /\ s[i].event # Forged \/ s[i].length < ReturnLength(Taop)
    BY DEF EventsOrdered
  <1>4. \A i \in 1 .. Len(s) : s[i].event <= count + 1 /\ s[i].event < line.event
    <2>1. \A i \in 1 .. Len(s) : s[i].event \in Int
      BY EventsNumbered
    <2> QED
      BY <1>3, <2>1
  <1> HIDE DEF t
  <1>5. \A i \in 1 .. Len(t) :
            /\ t[i].event <= count + 1
            /\ t[i].event # Forged \/ t[i].length < ReturnLength(Taop)
    BY <1>1, <1>2, <1>3, <1>4
  <1>6. ASSUME NEW i \in 1 .. Len(t), NEW j \in 1 .. Len(t), i < j,
               t[i].event # Forged, t[j].event # Forged
        PROVE  t[i].event < t[j].event
    <2>1. i \in 1 .. Len(s)
      BY <1>1, <1>6
    <2>2. CASE j \in 1 .. Len(s)
      BY <1>1, <1>6, <2>1, <2>2 DEF EventsOrdered
    <2>3. CASE j = Len(s) + 1
      BY <1>1, <1>4, <2>1, <2>3
    <2> QED
      BY <1>1, <2>2, <2>3
  <1>7. EventsOrdered(t, count + 1)
    BY <1>5, <1>6 DEF EventsOrdered
  <1> QED
    BY <1>7 DEF t

\* A forged event among them.
LEMMA ForgedInOrder ==
    ASSUME NEW s \in Seq(DataLines), NEW count \in Nat, EventsOrdered(s, count),
           NEW line \in DataLines, line.event = Forged,
           line.length < ReturnLength(Taop)
    PROVE  EventsOrdered(Append(s, line), count)
  <1> DEFINE t == Append(s, line)
  <1>1. /\ Len(s) \in Nat /\ Len(t) = Len(s) + 1
        /\ \A i \in 1 .. Len(s) : t[i] = s[i]
        /\ t[Len(s) + 1] = line
        /\ \A i \in 1 .. Len(t) : i \in 1 .. Len(s) \/ i = Len(s) + 1
    OBVIOUS
  <1>2. line.event <= count
    BY DEF Forged
  <1> HIDE DEF t
  <1>3. \A i \in 1 .. Len(t) :
            /\ t[i].event <= count
            /\ t[i].event # Forged \/ t[i].length < ReturnLength(Taop)
    BY <1>1, <1>2 DEF EventsOrdered
  <1>4. ASSUME NEW i \in 1 .. Len(t), NEW j \in 1 .. Len(t), i < j,
               t[i].event # Forged, t[j].event # Forged
        PROVE  t[i].event < t[j].event
    <2>1. i \in 1 .. Len(s) /\ j \in 1 .. Len(s)
      BY <1>1, <1>4
    <2> QED
      BY <1>1, <1>4, <2>1 DEF EventsOrdered
  <1>5. EventsOrdered(t, count)
    BY <1>3, <1>4 DEF EventsOrdered
  <1> QED
    BY <1>5 DEF t

\* An event that is lost leaves the others in order.
LEMMA StillInOrder ==
    ASSUME NEW s \in Seq(DataLines), NEW count \in Nat, EventsOrdered(s, count)
    PROVE  EventsOrdered(s, count + 1)
  <1>1. \A i \in 1 .. Len(s) : s[i].event \in Int
    BY EventsNumbered
  <1> QED
    BY <1>1 DEF EventsOrdered

\* The program emits while it is on top of both stacks.
LEMMA EmitKeepsDecoder ==
    ASSUME DecoderInv, EmitEvent
    PROVE  DecoderInv'
  <1>1. /\ DecoderTypeOK /\ TaopOnTop /\ StackKnowsTaop /\ StackNotDeeper
        /\ EventsWhole /\ EventsOrdered(events, emitted)
        /\ frames \in Seq(Programs) /\ stack \in Seq(Programs \cup {LogWord})
        /\ events \in Seq(DataLines) /\ emitted \in 0 .. MaxEvents /\ emitted \in Nat
        /\ room \in Int
    BY DecoderAssumption DEF DecoderInv, DecoderTypeOK
  <1>2. PICK length \in DataLengths : Log(Data(emitted + 1, length))
    BY DEF EmitEvent
  <1>3. /\ Executing(Taop) /\ emitted < MaxEvents /\ emitted' = emitted + 1
        /\ frames' = frames
    BY DEF EmitEvent
  <1>4. emitted' \in 0 .. MaxEvents
    BY <1>1, <1>3, DecoderAssumption
  <1> DEFINE line == Data(emitted + 1, length)
  <1>5. /\ line \in DataLines /\ line \in Lines
        /\ line.kind = "data" /\ line.event = emitted + 1
    BY <1>3, <1>4 DEF Data, DataLines, Lines
  <1> HIDE DEF line
  <1>6. /\ lines' \in 0 .. MaxLines
        /\ room' \in 0 .. LogLimit /\ room' <= room
        /\ whole' \in BOOLEAN /\ (whole' => whole)
        /\ stack' \in Seq(Programs \cup {LogWord})
        /\ events' \in Seq(DataLines)
        /\ \/ DecodeEvents(line)
           \/ ~whole' /\ UNCHANGED <<stack, events>>
    BY <1>1, <1>2, <1>5, LoggedOrDropped DEF line
  <1>7. stack' = stack
    BY <1>5, <1>6 DEF DecodeEvents
  <1>8. \/ Attributed /\ events' = Append(events, line)
        \/ events' = events /\ (Attributed => ~whole')
    BY <1>5, <1>6 DEF DecodeEvents
  <1>9. DecoderTypeOK'
    BY <1>1, <1>3, <1>4, <1>6 DEF DecoderTypeOK
  <1>10. EventsWhole'
    <2>1. CASE whole'
      <3>1. TaopAt(frames, 0)
        BY <1>1, <1>3 DEF Executing, Last, TaopAt
      <3>2. TaopAt(stack, 0)
        BY <1>1, <1>6, <2>1, <3>1 DEF StackKnowsTaop
      <3>3. Attributed
        BY <1>1, <3>2 DEF Attributed, TaopAt, Last
      <3>4. events' = Append(events, line)
        BY <1>8, <2>1, <3>3
      <3>5. /\ Len(events) = emitted
            /\ \A i \in 1 .. Len(events) : events[i].event = i
        BY <1>1, <1>6, <2>1 DEF EventsWhole
      <3>6. Len(events') = emitted + 1 /\ events'[emitted + 1] = line
        BY <1>1, <1>5, <3>4, <3>5
      <3>7. ASSUME NEW i \in 1 .. emitted + 1 PROVE events'[i].event = i
        <4>1. CASE i = emitted + 1
          BY <1>5, <3>6, <4>1
        <4>2. CASE i # emitted + 1
          <5>1. i \in 1 .. Len(events)
            BY <1>1, <3>5, <4>2
          <5>2. events'[i] = events[i]
            BY <1>1, <1>5, <3>4, <5>1
          <5> QED
            BY <3>5, <5>1, <5>2
        <4> QED
          BY <4>1, <4>2
      <3> QED
        BY <1>3, <3>6, <3>7 DEF EventsWhole
    <2> QED
      BY <2>1 DEF EventsWhole
  <1>11. EventsOrdered(events', emitted')
    BY <1>1, <1>3, <1>5, <1>8, AppendedInOrder, StillInOrder
  <1>12. StackKnowsTaop'
    BY <1>1, <1>3, <1>6, <1>7 DEF StackKnowsTaop, TaopAt
  <1>13. StackNotDeeper'
    <2>1. ReturnLength(Taop) \in Int /\ room' \in Int
      BY <1>6, DecoderAssumption DEF ReturnLength
    <2>2. room' > ReturnLength(Taop) => room > ReturnLength(Taop)
      BY <1>1, <1>6, <2>1
    <2> QED
      BY <1>1, <1>3, <1>7, <2>2 DEF StackNotDeeper, TaopAt, ReturnLength
  <1> QED
    BY <1>1, <1>3, <1>9, <1>10, <1>11, <1>12, <1>13
    DEF DecoderInv, TaopOnTop, TaopAt, Executing, EventsOrdered, ReturnLength

\* While another program runs, the decoder's stack has no trace of the program, unless
\* there was no room left for the line that says that the program has returned.
LEMMA LogAnythingKeepsDecoder ==
    ASSUME DecoderInv, LogAnything
    PROVE  DecoderInv'
  <1>1. /\ DecoderTypeOK /\ TaopOnTop /\ StackKnowsTaop /\ StackNotDeeper
        /\ EventsWhole /\ EventsOrdered(events, emitted)
        /\ frames \in Seq(Programs) /\ stack \in Seq(Programs \cup {LogWord})
        /\ events \in Seq(DataLines) /\ emitted \in Nat
        /\ room \in Int /\ ReturnLength(Taop) \in Int
    BY DecoderAssumption DEF DecoderInv, DecoderTypeOK, ReturnLength
  <1>2. PICK line \in {Data(Forged, length) : length \in DataLengths}
                       \cup {Invocation(LogWord), Return(LogWord)} : Log(line)
    BY DEF LogAnything
  <1>3. /\ frames # <<>> /\ Last(frames) \in Others
        /\ frames' = frames /\ emitted' = emitted
    BY DEF LogAnything
  <1>4. \/ line \in DataLines /\ line.kind = "data" /\ line.event = Forged
        \/ /\ line \in [kind : {"invoke", "return"}, of : Programs \cup {LogWord}]
           /\ line.of = LogWord
    BY DecoderAssumption DEF Data, DataLines, Invocation, Return, Forged
  <1>5. line \in Lines
    BY <1>4 DEF Lines
  <1>6. /\ lines' \in 0 .. MaxLines
        /\ room' \in 0 .. LogLimit /\ room' <= room
        /\ whole' \in BOOLEAN /\ (whole' => whole)
        /\ stack' \in Seq(Programs \cup {LogWord})
        /\ events' \in Seq(DataLines)
        /\ \/ BytesOf(line) < room /\ DecodeEvents(line)
           \/ BytesOf(line) >= room /\ ~whole' /\ UNCHANGED <<stack, events>>
    BY <1>1, <1>2, <1>5, LoggedOrDropped
  <1>7. DecoderTypeOK'
    BY <1>1, <1>3, <1>6 DEF DecoderTypeOK
  <1>8. \A d \in Nat : ~TaopAt(frames, d)
    <2>1. ~Executing(System) /\ ~TaopAt(frames, 0)
      BY <1>1, <1>3, DecoderAssumption DEF Executing, Last, TaopAt
    <2> QED
      BY <1>1, <2>1 DEF TaopOnTop
  <1>9. whole \/ room > ReturnLength(Taop) => \A d \in Nat : ~TaopAt(stack, d)
    BY <1>1, <1>8 DEF StackKnowsTaop, StackNotDeeper
  <1>10. (\A d \in Nat : ~TaopAt(stack, d)) => \A d \in Nat : ~TaopAt(stack', d)
    <2>1. ASSUME \A d \in Nat : ~TaopAt(stack, d), NEW d \in Nat
          PROVE  ~TaopAt(stack', d)
      <3>1. CASE stack' = Append(stack, LogWord)
        <4>1. TaopAt(stack', d) <=> IF d = 0 THEN LogWord = Taop ELSE TaopAt(stack, d - 1)
          <5>1. stack \in Seq(Programs \cup {LogWord}) /\ LogWord \in Programs \cup {LogWord}
            BY <1>1
          <5>2. TaopAt(Append(stack, LogWord), d) <=>
                    IF d = 0 THEN LogWord = Taop ELSE TaopAt(stack, d - 1)
            BY <5>1, AppendedTaop
          <5> QED
            BY <3>1, <5>2
        <4>2. LogWord # Taop /\ (d # 0 => d - 1 \in Nat)
          BY DecoderAssumption
        <4> QED
          BY <2>1, <4>1, <4>2
      <3>2. CASE stack' = Popped
        BY <1>1, <2>1, <3>2, DecoderPops
      <3>3. CASE stack' = stack
        BY <2>1, <3>3
      <3> QED
        BY <1>4, <1>6, <3>1, <3>2, <3>3 DEF DecodeEvents
    <2> QED
      BY <2>1
  <1>11. Attributed => ~whole /\ ~(room > ReturnLength(Taop))
    <2>1. Attributed => TaopAt(stack, 0)
      BY <1>1 DEF Attributed, TaopAt, Last
    <2> QED
      BY <1>9, <2>1
  <1>12. \/ events' = events
         \/ /\ line \in DataLines /\ line.event = Forged /\ Attributed
            /\ BytesOf(line) < room /\ events' = Append(events, line)
    BY <1>4, <1>6 DEF DecodeEvents
  <1>13. EventsWhole'
    BY <1>1, <1>3, <1>6, <1>11, <1>12 DEF EventsWhole
  <1>14. EventsOrdered(events', emitted')
    <2>1. CASE events' # events
      <3>1. BytesOf(line) = line.length /\ line.length \in Int
        BY <1>4, <1>12, <2>1, DecoderAssumption DEF BytesOf, DataLines
      <3>2. line.length < ReturnLength(Taop)
        BY <1>1, <1>11, <1>12, <2>1, <3>1
      <3> QED
        BY <1>1, <1>3, <1>12, <2>1, <3>2, ForgedInOrder
    <2> QED
      BY <1>1, <1>3, <2>1
  <1>15. StackKnowsTaop'
    BY <1>3, <1>6, <1>8, <1>9, <1>10 DEF StackKnowsTaop, TaopAt
  <1>16. StackNotDeeper'
    <2>1. room' > ReturnLength(Taop) => room > ReturnLength(Taop)
      BY <1>1, <1>6
    <2>2. room' > ReturnLength(Taop) => \A d \in Nat : ~TaopAt(stack', d)
      BY <1>9, <1>10, <2>1
    <2> QED
      BY <2>2 DEF StackNotDeeper, TaopAt, ReturnLength
  <1> QED
    BY <1>1, <1>3, <1>7, <1>13, <1>14, <1>15, <1>16
    DEF DecoderInv, TaopOnTop, TaopAt, Executing, EventsOrdered, ReturnLength

\* Lines that the decoder skips take room and nothing else.
LEMMA LogTextKeepsDecoder ==
    ASSUME DecoderInv, LogText
    PROVE  DecoderInv'
  <1>1. /\ DecoderTypeOK /\ TaopOnTop /\ StackKnowsTaop /\ StackNotDeeper
        /\ EventsWhole /\ EventsOrdered(events, emitted)
        /\ room \in Int /\ ReturnLength(Taop) \in Int
    BY DecoderAssumption DEF DecoderInv, DecoderTypeOK, ReturnLength
  <1>2. /\ frames # <<>> /\ frames' = frames /\ emitted' = emitted
        /\ \E length \in TextLengths[Last(frames)] : Log(Text(length))
    BY DEF LogText
  <1>3. PICK length \in TextLengths[Last(frames)] : Log(Text(length))
    BY <1>2
  <1>4. length \in Nat
    <2>1. Last(frames) \in Programs
      BY <1>1, <1>2 DEF DecoderTypeOK, Last
    <2> QED
      BY <2>1, DecoderAssumption DEF Programs
  <1>5. Text(length) \in Lines /\ Text(length).kind = "text"
    BY <1>4 DEF Text, Lines
  <1>6. /\ lines' \in 0 .. MaxLines
        /\ room' \in 0 .. LogLimit /\ room' <= room
        /\ whole' \in BOOLEAN /\ (whole' => whole)
        /\ DecodeEvents(Text(length)) \/ UNCHANGED <<stack, events>>
    BY <1>1, <1>3, <1>5, LoggedOrDropped
  <1>7. stack' = stack /\ events' = events
    BY <1>5, <1>6 DEF DecodeEvents
  <1>8. room' > ReturnLength(Taop) => room > ReturnLength(Taop)
    BY <1>1, <1>6
  <1> QED
    BY <1>1, <1>2, <1>6, <1>7, <1>8
    DEF DecoderInv, DecoderTypeOK, TaopOnTop, StackKnowsTaop, StackNotDeeper,
        EventsWhole, EventsOrdered, TaopAt, Executing, ReturnLength

\* DecoderInv holds of every reachable state.
LEMMA DecoderInvariance == DecoderSpec => []DecoderInv
  <1>1. ASSUME DecoderInit PROVE DecoderInv
    BY <1>1, DecoderAssumption
    DEF DecoderInit, DecoderInv, DecoderTypeOK, TaopOnTop, StackKnowsTaop,
        StackNotDeeper, EventsWhole, EventsOrdered, TaopAt
  <1>2. ASSUME DecoderInv, [DecoderNext]_decoderVars PROVE DecoderInv'
    <2>1. CASE UNCHANGED decoderVars
      BY <1>2, <2>1
      DEF decoderVars, DecoderInv, DecoderTypeOK, TaopOnTop, StackKnowsTaop,
          StackNotDeeper, EventsWhole, EventsOrdered, TaopAt, Executing, ReturnLength
    <2> QED
      BY <1>2, <2>1, InvokeKeepsDecoder, EndKeepsDecoder, EmitKeepsDecoder,
         LogAnythingKeepsDecoder, LogTextKeepsDecoder DEF DecoderNext
  <1> QED
    BY <1>1, <1>2, PTL DEF DecoderSpec

\* From a whole log the decoder has exactly the program's events, whatever calls what
\* and whatever text others log; from one that has lost lines it has some of them, in
\* order, and of another program's data at most what is shorter than the line that
\* says that the program has returned.
THEOREM DecodedExactly == DecoderSpec => []EventsExact
  <1>1. ASSUME DecoderInv PROVE EventsExact
    <2>1. events \in Seq(DataLines) /\ DOMAIN events = 1 .. Len(events)
      BY <1>1 DEF DecoderInv, DecoderTypeOK
    <2> QED
      BY <1>1, <2>1 DEF DecoderInv, EventsWhole, EventsOrdered, EventsExact, Genuine
  <1> QED
    BY <1>1, DecoderInvariance, PTL

-----------------------------------------------------------------------------
(***************************************************************************)
(* The benchmark's mechanisms under its attacks.                           *)
(***************************************************************************)


AgentRecord ==
    [completions : Nat, disputes : Nat, last_activity : Nat, raters : SUBSET Int,
     confirmed : Nat, spent : Int, locked : Nat, slashed : Nat, fees : Nat, capital : Nat]
Completions ==
    [agent : AgentIds, challenger : AgentIds, challenged : BOOLEAN, disputed : BOOLEAN,
     resolved : BOOLEAN]
States == [agents : [AgentIds -> AgentRecord], completions : Seq(Completions)]

\* The completions an agent has challenged, by how that went.
Matches(c, id, fate) ==
    /\ c.challenged /\ c.challenger = id /\ ~c.disputed
    /\ c.resolved <=> fate = "rejected"
ChallengesBy(st, id, fate) == {i \in DOMAIN st.completions : Matches(st.completions[i], id, fate)}
Pending(st, id) == Cardinality(ChallengesBy(st, id, "pending"))
Rejected(st, id) == Cardinality(ChallengesBy(st, id, "rejected"))

\* The accounts of an agent, when so many of its challenges are pending and rejected.
AddsUp(agent, pending, rejected) ==
    /\ agent.spent = agent.fees + agent.slashed + Bond * pending
    /\ agent.locked + agent.slashed = agent.capital + Bond * (pending + rejected)
    /\ agent.locked >= Bond * pending

InOrder(completion) ==
    /\ completion.resolved => completion.challenged
    /\ completion.disputed => completion.resolved

Sound(st) ==
    /\ st \in States
    /\ \A i \in DOMAIN st.completions : InOrder(st.completions[i])
    /\ \A id \in AgentIds : AddsUp(st.agents[id], Pending(st, id), Rejected(st, id))

\* The constants of the benchmark.
LEMMA Numbers ==
    /\ Bond \in Nat /\ CapabilityBond \in Nat /\ StakeUnit \in Nat \ {0}
    /\ DiversityWeight \in Nat \ {0} /\ Period \in Nat \ {0}
    /\ Sybils \in Nat \ {0} /\ AttestsPerSybil \in Nat \ {0}
    /\ TargetScore \in Nat \ {0} /\ AttestsPerDay \in Nat \ {0} /\ Horizons \subseteq Nat
    /\ AgentIds \subseteq Int
    /\ Honest \in AgentIds /\ Attacker \in AgentIds
  BY MechanismsAssumption DEF MechanismsAssumption, AgentIds, Accomplice, Challenger, Honest, Attacker

\* The challenges of an agent can be counted.
LEMMA CountTypes ==
    ASSUME NEW st \in States, NEW id, NEW fate
    PROVE  /\ IsFiniteSet(ChallengesBy(st, id, fate))
           /\ Cardinality(ChallengesBy(st, id, fate)) \in Nat
  <1>1. PICK n \in Nat : DOMAIN st.completions = 1 .. n
    BY DEF States
  <1>2. IsFiniteSet(1 .. n)
    BY <1>1, FS_Interval
  <1>3. ChallengesBy(st, id, fate) \in SUBSET (1 .. n)
    BY <1>1 DEF ChallengesBy
  <1> QED
    BY <1>2, <1>3, FS_Subset, FS_CardinalityType

\* What the accounts add up to is not disturbed by fees, nor by locking capital.
PaysOnly(a, b) ==
    /\ b.spent - b.fees = a.spent - a.fees
    /\ b.locked - b.capital = a.locked - a.capital
    /\ b.slashed = a.slashed /\ b.locked >= a.locked

\* Accounts that add up still do after a payment.
LEMMA PayingAddsUp ==
    ASSUME NEW a \in AgentRecord, NEW b \in AgentRecord, PaysOnly(a, b),
           NEW p \in Nat, NEW r \in Nat, AddsUp(a, p, r)
    PROVE  AddsUp(b, p, r)
  <1> DEFINE x == Bond * p
             y == Bond * (p + r)
  <1>1. x \in Int /\ y \in Int
    BY Numbers
  <1>2. /\ a.spent = a.fees + a.slashed + x
        /\ a.locked + a.slashed = a.capital + y
        /\ a.locked >= x
    BY DEF AddsUp
  <1> HIDE DEF x, y
  <1>3. /\ a.spent \in Int /\ a.fees \in Int /\ a.slashed \in Int /\ a.locked \in Int
        /\ a.capital \in Int
        /\ b.spent \in Int /\ b.fees \in Int /\ b.slashed \in Int /\ b.locked \in Int
        /\ b.capital \in Int
    BY DEF AgentRecord
  <1>4. /\ b.spent - b.fees = a.spent - a.fees
        /\ b.locked - b.capital = a.locked - a.capital
        /\ b.slashed = a.slashed /\ b.locked >= a.locked
    BY DEF PaysOnly
  <1>5. b.spent = b.fees + b.slashed + x
    BY <1>1, <1>2, <1>3, <1>4
  <1>6. b.locked + b.slashed = b.capital + y
    BY <1>1, <1>2, <1>3, <1>4
  <1>7. b.locked >= x
    BY <1>1, <1>2, <1>3, <1>4
  <1> QED
    BY <1>5, <1>6, <1>7 DEF AddsUp, x, y

\* A state in which agents have only paid is sound if it was.
LEMMA PayingKeepsSound ==
    ASSUME NEW st, Sound(st), NEW next \in States,
           \A i \in DOMAIN next.completions : InOrder(next.completions[i]),
           \A id \in AgentIds : PaysOnly(st.agents[id], next.agents[id]),
           \A id \in AgentIds, fate \in {"pending", "rejected"} :
               ChallengesBy(next, id, fate) = ChallengesBy(st, id, fate)
    PROVE  Sound(next)
  <1>1. ASSUME NEW id \in AgentIds
        PROVE  AddsUp(next.agents[id], Pending(next, id), Rejected(next, id))
    <2>1. Pending(next, id) = Pending(st, id) /\ Rejected(next, id) = Rejected(st, id)
      BY DEF Pending, Rejected
    <2>2. Pending(st, id) \in Nat /\ Rejected(st, id) \in Nat
      BY CountTypes DEF Pending, Rejected, Sound
    <2>3. st.agents[id] \in AgentRecord /\ next.agents[id] \in AgentRecord
      BY DEF Sound, States
    <2>4. AddsUp(st.agents[id], Pending(st, id), Rejected(st, id))
      BY DEF Sound
    <2> QED
      BY <2>1, <2>2, <2>3, <2>4, PayingAddsUp
  <1> QED
    BY <1>1 DEF Sound

-----------------------------------------------------------------------------
\* What a charge changes, and what it does not.
LEMMA ChargedPays ==
    ASSUME NEW agent \in AgentRecord, NEW fees \in Nat
    PROVE  /\ Charged(agent, fees) \in AgentRecord
           /\ PaysOnly(agent, Charged(agent, fees))
           /\ LET paid == Charged(agent, fees)
              IN  /\ paid.completions = agent.completions /\ paid.disputes = agent.disputes
                  /\ paid.last_activity = agent.last_activity /\ paid.raters = agent.raters
                  /\ paid.confirmed = agent.confirmed /\ paid.locked = agent.locked
                  /\ paid.slashed = agent.slashed /\ paid.capital = agent.capital
                  /\ paid.spent = agent.spent + fees /\ paid.fees = agent.fees + fees
  <1> DEFINE paid == Charged(agent, fees)
  <1>1. /\ agent.spent \in Int /\ agent.fees \in Nat /\ agent.spent + fees \in Int
        /\ agent.fees + fees \in Nat /\ agent.locked \in Nat /\ agent.capital \in Nat
    BY DEF AgentRecord
  <1>2. /\ paid.completions = agent.completions /\ paid.disputes = agent.disputes
        /\ paid.last_activity = agent.last_activity /\ paid.raters = agent.raters
        /\ paid.confirmed = agent.confirmed /\ paid.locked = agent.locked
        /\ paid.slashed = agent.slashed /\ paid.capital = agent.capital
        /\ paid.spent = agent.spent + fees /\ paid.fees = agent.fees + fees
    BY DEF Charged, AgentRecord
  <1>3. paid \in AgentRecord
    BY <1>1 DEF Charged, AgentRecord
  <1> HIDE DEF paid
  <1>4. PaysOnly(agent, paid)
    BY <1>1, <1>2 DEF PaysOnly
  <1> QED
    BY <1>2, <1>3, <1>4 DEF paid

\* The state a scenario starts from is sound.
LEMMA NewStateSound == Sound(NewState)
  <1>1. NewAgent \in AgentRecord
    BY DEF NewAgent, AgentRecord
  <1>2. NewState \in States /\ DOMAIN NewState.completions = {}
    BY <1>1 DEF NewState, States
  <1>3. ASSUME NEW id \in AgentIds
        PROVE  AddsUp(NewState.agents[id], Pending(NewState, id), Rejected(NewState, id))
    <2>1. Pending(NewState, id) = 0 /\ Rejected(NewState, id) = 0
      BY <1>2, FS_EmptySet DEF Pending, Rejected, ChallengesBy
    <2>2. NewState.agents[id] = NewAgent
      BY DEF NewState
    <2> QED
      BY <2>1, <2>2, Numbers DEF AddsUp, NewAgent
  <1> QED
    BY <1>2, <1>3 DEF Sound

\* What attest changes, and what it does not.
LEMMA AttestIs ==
    ASSUME NEW st \in States, NEW id \in AgentIds, NEW now \in Nat
    PROVE  LET next == Attest(st, id, now)
               a == st.agents[id]
               b == next.agents[id]
           IN  /\ next \in States
               /\ \A other \in AgentIds \ {id} : next.agents[other] = st.agents[other]
               /\ PaysOnly(a, b)
               /\ b.completions = a.completions + 1 /\ b.last_activity = now
               /\ b.disputes = a.disputes /\ b.raters = a.raters
               /\ b.confirmed = a.confirmed /\ b.locked = a.locked
               /\ Len(next.completions) = Len(st.completions) + 1
               /\ \A i \in 1 .. Len(st.completions) : next.completions[i] = st.completions[i]
               /\ LET c == next.completions[Len(st.completions) + 1]
                  IN  ~c.challenged /\ ~c.disputed /\ ~c.resolved
  <1> DEFINE a == st.agents[id]
             counted == [a EXCEPT !.completions = @ + 1, !.last_activity = now]
             b == Charged(counted, IF a.completions = 0 THEN 3 ELSE 2)
             c == [agent |-> id, challenger |-> id, challenged |-> FALSE, disputed |-> FALSE,
                   resolved |-> FALSE]
             next == Attest(st, id, now)
  <1>1. a \in AgentRecord
    BY DEF States
  <1> HIDE DEF a
  <1>2. /\ counted \in AgentRecord
        /\ counted.completions = a.completions + 1 /\ counted.last_activity = now
        /\ counted.disputes = a.disputes /\ counted.raters = a.raters
        /\ counted.confirmed = a.confirmed /\ counted.locked = a.locked
        /\ counted.spent = a.spent /\ counted.fees = a.fees
        /\ counted.capital = a.capital /\ counted.slashed = a.slashed
    <2>1. a.completions + 1 \in Nat
      BY <1>1 DEF AgentRecord
    <2>2. counted \in AgentRecord
      BY <1>1, <2>1 DEF AgentRecord
    <2> QED
      BY <1>1, <2>2 DEF AgentRecord
  <1>3. b \in AgentRecord /\ PaysOnly(counted, b)
        /\ b.completions = counted.completions /\ b.last_activity = counted.last_activity
        /\ b.disputes = counted.disputes /\ b.raters = counted.raters
        /\ b.confirmed = counted.confirmed /\ b.locked = counted.locked
        /\ b.capital = counted.capital /\ b.slashed = counted.slashed
    <2> HIDE DEF counted
    <2> DEFINE f == IF a.completions = 0 THEN 3 ELSE 2
    <2>1. f \in Nat
      OBVIOUS
    <2> HIDE DEF f
    <2>2. b = Charged(counted, f)
      BY DEF f
    <2> HIDE DEF b
    <2> QED
      BY <1>2, <2>1, <2>2, ChargedPays
  <1>4. PaysOnly(a, b)
    <2>1. /\ a.spent \in Int /\ a.fees \in Nat /\ a.locked \in Nat /\ a.capital \in Nat
          /\ b.spent \in Int /\ b.fees \in Nat /\ b.locked \in Nat /\ b.capital \in Nat
      BY <1>1, <1>3 DEF AgentRecord
    <2> QED
      BY <1>2, <1>3, <2>1 DEF PaysOnly
  <1>5. c \in Completions
    BY DEF Completions
  <1>6. next = [agents |-> [st.agents EXCEPT ![id] = b], completions |-> Append(st.completions, c)]
    BY DEF Attest, a
  <1> HIDE DEF next, b, c, counted
  <1>7. next.agents = [st.agents EXCEPT ![id] = b] /\ next.completions = Append(st.completions, c)
    BY <1>6
  <1>8. next \in States
    BY <1>3, <1>5, <1>6 DEF States
  <1>9. next.agents[id] = b /\ \A other \in AgentIds \ {id} : next.agents[other] = st.agents[other]
    BY <1>7 DEF States
  <1>10. /\ Len(next.completions) = Len(st.completions) + 1
         /\ \A i \in 1 .. Len(st.completions) : next.completions[i] = st.completions[i]
         /\ next.completions[Len(st.completions) + 1] = c
    BY <1>5, <1>7 DEF States
  <1>11. ~c.challenged /\ ~c.disputed /\ ~c.resolved
    BY DEF c
  <1> QED
    BY <1>2, <1>3, <1>4, <1>8, <1>9, <1>10, <1>11 DEF next, a

\* Paying nothing is paying.
LEMMA PaysNothing ==
    ASSUME NEW a \in AgentRecord
    PROVE  PaysOnly(a, a)
  BY DEF PaysOnly, AgentRecord

\* An attestation keeps the state sound.
LEMMA AttestSound ==
    ASSUME NEW st, Sound(st), NEW id \in AgentIds, NEW now \in Nat
    PROVE  Sound(Attest(st, id, now))
  <1> DEFINE next == Attest(st, id, now)
             n == Len(st.completions)
  <1>1. st \in States
    BY DEF Sound
  <1>2. /\ next \in States
        /\ \A other \in AgentIds \ {id} : next.agents[other] = st.agents[other]
        /\ PaysOnly(st.agents[id], next.agents[id])
        /\ Len(next.completions) = n + 1
        /\ \A i \in 1 .. n : next.completions[i] = st.completions[i]
        /\ ~next.completions[n + 1].challenged
        /\ ~next.completions[n + 1].disputed
        /\ ~next.completions[n + 1].resolved
    BY <1>1, AttestIs
  <1>3. n \in Nat /\ DOMAIN st.completions = 1 .. n /\ DOMAIN next.completions = 1 .. n + 1
    BY <1>1, <1>2 DEF States
  <1> HIDE DEF next, n
  <1>4. \A i \in DOMAIN next.completions : InOrder(next.completions[i])
    BY <1>2, <1>3 DEF Sound, InOrder
  <1>5. \A other \in AgentIds : PaysOnly(st.agents[other], next.agents[other])
    BY <1>1, <1>2, PaysNothing DEF States
  <1>6. ASSUME NEW other \in AgentIds, NEW fate \in {"pending", "rejected"}
        PROVE ChallengesBy(next, other, fate) = ChallengesBy(st, other, fate)
    <2>1. ~Matches(next.completions[n + 1], other, fate)
      BY <1>2 DEF Matches
    <2> QED
      BY <1>2, <1>3, <2>1 DEF ChallengesBy
  <1> QED
    BY <1>2, <1>4, <1>5, <1>6, PayingKeepsSound DEF next

\* Paying twice is paying.
LEMMA PaysTwice ==
    ASSUME NEW a \in AgentRecord, NEW b \in AgentRecord, NEW c \in AgentRecord,
           PaysOnly(a, b), PaysOnly(b, c)
    PROVE  PaysOnly(a, c)
  <1>1. /\ a.spent \in Int /\ a.fees \in Nat /\ a.locked \in Nat /\ a.capital \in Nat
        /\ b.spent \in Int /\ b.fees \in Nat /\ b.locked \in Nat /\ b.capital \in Nat
        /\ c.spent \in Int /\ c.fees \in Nat /\ c.locked \in Nat /\ c.capital \in Nat
    BY DEF AgentRecord
  <1> QED
    BY <1>1 DEF PaysOnly

\* A rating that counts: with receipts, somebody else's, for a completion not confirmed yet.
Counts(agent, from, to) == RequiresReceipts => from # to /\ agent.completions > agent.confirmed

\* What a rating makes of the agent that is rated.
Received(a, b, from, to) ==
    /\ b.completions = a.completions /\ b.disputes = a.disputes
    /\ b.last_activity = a.last_activity /\ b.locked = a.locked
    /\ b.raters = IF Counts(a, from, to) THEN a.raters \cup {from} ELSE a.raters
    /\ b.confirmed = IF RequiresReceipts /\ Counts(a, from, to) THEN a.confirmed + 1
                     ELSE a.confirmed

\* What a rating changes, and what it does not.
LEMMA RatedPays ==
    ASSUME NEW a \in AgentRecord, NEW from \in Int
    PROVE  /\ Rated(a, from) \in AgentRecord /\ PaysOnly(a, Rated(a, from))
           /\ Rated(a, from).completions = a.completions
           /\ Rated(a, from).disputes = a.disputes
           /\ Rated(a, from).last_activity = a.last_activity
           /\ Rated(a, from).locked = a.locked
           /\ Rated(a, from).confirmed = a.confirmed
           /\ Rated(a, from).raters = a.raters \cup {from}
  <1>1. a.raters \cup {from} \in SUBSET Int
    BY DEF AgentRecord
  <1>2. Rated(a, from) \in AgentRecord
    BY <1>1 DEF Rated, AgentRecord
  <1> QED
    BY <1>2 DEF Rated, AgentRecord, PaysOnly

\* What a confirmation changes, and what it does not.
LEMMA ConfirmedPays ==
    ASSUME NEW a \in AgentRecord, NEW from \in Int
    PROVE  LET b == Confirmed(a, from)
           IN  /\ b \in AgentRecord /\ PaysOnly(a, b)
               /\ b.completions = a.completions /\ b.disputes = a.disputes
               /\ b.last_activity = a.last_activity /\ b.locked = a.locked
               /\ b.raters = IF a.completions > a.confirmed THEN a.raters \cup {from}
                             ELSE a.raters
               /\ b.confirmed = IF a.completions > a.confirmed THEN a.confirmed + 1
                                ELSE a.confirmed
  <1>1. CASE a.completions > a.confirmed
    <2> DEFINE r == Rated(a, from)
               b == [r EXCEPT !.confirmed = @ + 1]
    <2>1. /\ r \in AgentRecord /\ PaysOnly(a, r)
          /\ r.completions = a.completions /\ r.disputes = a.disputes
          /\ r.last_activity = a.last_activity /\ r.locked = a.locked
          /\ r.confirmed = a.confirmed /\ r.raters = a.raters \cup {from}
      BY RatedPays
    <2>2. Confirmed(a, from) = b
      BY <1>1 DEF Confirmed
    <2> HIDE DEF r
    <2>3. r.confirmed + 1 \in Nat
      BY <2>1 DEF AgentRecord
    <2>4. b \in AgentRecord
      BY <2>1, <2>3 DEF AgentRecord
    <2>5. /\ b.completions = r.completions /\ b.disputes = r.disputes
          /\ b.last_activity = r.last_activity /\ b.locked = r.locked
          /\ b.raters = r.raters /\ b.confirmed = r.confirmed + 1
          /\ b.spent = r.spent /\ b.fees = r.fees /\ b.capital = r.capital
          /\ b.slashed = r.slashed
      BY <2>1 DEF AgentRecord
    <2>6. PaysOnly(a, b)
      BY <2>1, <2>5 DEF PaysOnly
    <2> QED
      BY <1>1, <2>1, <2>2, <2>4, <2>5, <2>6
  <1>2. CASE ~(a.completions > a.confirmed)
    <2>1. Confirmed(a, from) = a
      BY <1>2 DEF Confirmed
    <2> QED
      BY <1>2, <2>1, PaysNothing
  <1> QED
    BY <1>1, <1>2

\* What rate changes, and what it does not.
LEMMA RateIs ==
    ASSUME NEW st \in States, NEW from \in AgentIds, NEW to \in AgentIds
    PROVE  LET next == Rate(st, from, to)
           IN  /\ next \in States /\ next.completions = st.completions
               /\ \A id \in AgentIds : PaysOnly(st.agents[id], next.agents[id])
               /\ from # to => Received(st.agents[to], next.agents[to], from, to)
  <1> DEFINE next == Rate(st, from, to)
  <1>0. from \in Int /\ to \in Int
    BY Numbers
  <1>1. CASE RequiresReceipts /\ from = to
    <2>1. next = st
      BY <1>1 DEF Rate
    <2> QED
      BY <1>1, <2>1, PaysNothing DEF States
  <1>2. CASE ~(RequiresReceipts /\ from = to)
    <2> DEFINE paid == [st.agents EXCEPT ![from] = Charged(st.agents[from], 1)]
               a == paid[to]
               b == IF RequiresReceipts THEN Confirmed(a, from) ELSE Rated(a, from)
               agents == [paid EXCEPT ![to] = b]
    <2>1. next = [agents |-> agents, completions |-> st.completions]
      <3>1. st = [agents |-> st.agents, completions |-> st.completions]
        BY DEF States
      <3>2. next.agents = agents /\ next.completions = st.completions
        BY <1>2, <3>1 DEF Rate
      <3>3. next = [agents |-> next.agents, completions |-> next.completions]
        BY <1>2, <3>1 DEF Rate
      <3> HIDE DEF next, agents
      <3> QED
        BY <3>2, <3>3
    <2>2. Charged(st.agents[from], 1) \in AgentRecord
          /\ PaysOnly(st.agents[from], Charged(st.agents[from], 1))
      BY ChargedPays DEF States
    <2>3. paid \in [AgentIds -> AgentRecord]
      BY <2>2 DEF States
    <2>4. \A id \in AgentIds : PaysOnly(st.agents[id], paid[id])
      BY <2>2, PaysNothing DEF States
    <2>5. from # to => a = st.agents[to]
      BY DEF States
    <2> HIDE DEF paid
    <2>6. a \in AgentRecord
      BY <2>3
    <2> HIDE DEF a
    <2>7. b \in AgentRecord /\ PaysOnly(a, b) /\ (from # to => Received(a, b, from, to))
      <3>1. CASE RequiresReceipts
        BY <1>0, <2>6, <3>1, ConfirmedPays DEF Received, Counts
      <3>2. CASE ~RequiresReceipts
        BY <1>0, <2>6, <3>2, RatedPays DEF Received, Counts
      <3> QED
        BY <3>1, <3>2
    <2> HIDE DEF b
    <2>8. agents \in [AgentIds -> AgentRecord]
      BY <2>3, <2>7
    <2>9. agents[to] = b /\ \A id \in AgentIds \ {to} : agents[id] = paid[id]
      BY <2>3
    <2> HIDE DEF agents
    <2>10. next \in States /\ next.completions = st.completions /\ next.agents = agents
      BY <2>1, <2>8 DEF States
    <2>11. ASSUME NEW id \in AgentIds PROVE PaysOnly(st.agents[id], agents[id])
      <3>1. CASE id = to
        <4>1. PaysOnly(st.agents[to], a) /\ st.agents[to] \in AgentRecord
          BY <2>4 DEF a, States
        <4> QED
          BY <2>6, <2>7, <2>9, <3>1, <4>1, PaysTwice
      <3>2. CASE id # to
        BY <2>4, <2>9, <3>2
      <3> QED
        BY <3>1, <3>2
    <2> HIDE DEF next
    <2>12. from # to => Received(st.agents[to], next.agents[to], from, to)
      BY <2>5, <2>7, <2>9, <2>10
    <2> QED
      BY <2>10, <2>11, <2>12 DEF next
  <1> QED
    BY <1>1, <1>2

\* When no completion changes, paying keeps the state sound.
LEMMA SameCompletionsSound ==
    ASSUME NEW st, Sound(st), NEW next \in States, next.completions = st.completions,
           \A id \in AgentIds : PaysOnly(st.agents[id], next.agents[id])
    PROVE  Sound(next)
  <1>1. \A id \in AgentIds, fate \in {"pending", "rejected"} :
            ChallengesBy(next, id, fate) = ChallengesBy(st, id, fate)
    BY DEF ChallengesBy
  <1>2. \A i \in DOMAIN next.completions : InOrder(next.completions[i])
    BY DEF Sound
  <1> QED
    BY <1>1, <1>2, PayingKeepsSound

\* A rating keeps the state sound.
LEMMA RateSound ==
    ASSUME NEW st, Sound(st), NEW from \in AgentIds, NEW to \in AgentIds
    PROVE  Sound(Rate(st, from, to))
  <1>1. st \in States
    BY DEF Sound
  <1> QED
    BY <1>1, RateIs, SameCompletionsSound

\* What locked capital changes in an account, and what it does not.
LEMMA LockedPays ==
    ASSUME NEW a \in AgentRecord, NEW lamports \in Nat
    PROVE  LET b == Locked(a, lamports)
           IN  /\ b \in AgentRecord /\ PaysOnly(a, b)
               /\ b.completions = a.completions /\ b.disputes = a.disputes
               /\ b.last_activity = a.last_activity /\ b.raters = a.raters
               /\ b.confirmed = a.confirmed /\ b.locked = a.locked + lamports
  <1> DEFINE paid == Charged(a, 1)
             b == [paid EXCEPT !.locked = @ + lamports, !.capital = @ + lamports]
  <1>1. b = Locked(a, lamports)
    BY DEF Locked
  <1>2. /\ paid \in AgentRecord /\ PaysOnly(a, paid)
        /\ paid.completions = a.completions /\ paid.disputes = a.disputes
        /\ paid.last_activity = a.last_activity /\ paid.raters = a.raters
        /\ paid.confirmed = a.confirmed /\ paid.locked = a.locked
    <2>1. 1 \in Nat
      OBVIOUS
    <2> QED
      BY <2>1, ChargedPays
  <1> HIDE DEF paid
  <1>3. paid.locked \in Nat /\ paid.capital \in Nat /\ paid.spent \in Int /\ paid.fees \in Nat
        /\ paid.locked + lamports \in Nat /\ paid.capital + lamports \in Nat
    BY <1>2 DEF AgentRecord
  <1>4. b \in AgentRecord
    BY <1>2, <1>3 DEF AgentRecord
  <1>5. /\ b.completions = paid.completions /\ b.disputes = paid.disputes
        /\ b.last_activity = paid.last_activity /\ b.raters = paid.raters
        /\ b.confirmed = paid.confirmed /\ b.locked = paid.locked + lamports
        /\ b.capital = paid.capital + lamports /\ b.spent = paid.spent
        /\ b.fees = paid.fees /\ b.slashed = paid.slashed
    BY <1>2 DEF AgentRecord
  <1> HIDE DEF b
  <1>6. PaysOnly(paid, b)
    BY <1>3, <1>5 DEF PaysOnly
  <1>7. PaysOnly(a, b)
    BY <1>2, <1>4, <1>6, PaysTwice
  <1> QED
    BY <1>1, <1>2, <1>4, <1>5, <1>7

\* What lockCapital changes, and what it does not.
LEMMA LockIs ==
    ASSUME NEW st \in States, NEW id \in AgentIds, NEW lamports \in Nat
    PROVE  LET next == Lock(st, id, lamports)
               a == st.agents[id]
               b == next.agents[id]
           IN  /\ next \in States /\ next.completions = st.completions
               /\ \A other \in AgentIds : PaysOnly(st.agents[other], next.agents[other])
               /\ \A other \in AgentIds \ {id} : next.agents[other] = st.agents[other]
               /\ b.completions = a.completions /\ b.disputes = a.disputes
               /\ b.last_activity = a.last_activity /\ b.raters = a.raters
               /\ b.confirmed = a.confirmed /\ b.locked = a.locked + lamports
  <1> DEFINE next == Lock(st, id, lamports)
             a == st.agents[id]
             b == Locked(a, lamports)
  <1>1. a \in AgentRecord
    BY DEF States
  <1>2. next = [agents |-> [st.agents EXCEPT ![id] = b], completions |-> st.completions]
    BY DEF Lock, States
  <1> HIDE DEF a
  <1>3. /\ b \in AgentRecord /\ PaysOnly(a, b)
        /\ b.completions = a.completions /\ b.disputes = a.disputes
        /\ b.last_activity = a.last_activity /\ b.raters = a.raters
        /\ b.confirmed = a.confirmed /\ b.locked = a.locked + lamports
    BY <1>1, LockedPays
  <1> HIDE DEF b
  <1>4. /\ next \in States /\ next.completions = st.completions
        /\ next.agents[id] = b
        /\ \A other \in AgentIds \ {id} : next.agents[other] = st.agents[other]
    BY <1>2, <1>3 DEF States
  <1> HIDE DEF next
  <1>5. \A other \in AgentIds : PaysOnly(st.agents[other], next.agents[other])
    BY <1>3, <1>4, PaysNothing DEF States, a
  <1> QED
    BY <1>3, <1>4, <1>5 DEF a, next

\* Locking capital keeps the state sound.
LEMMA LockSound ==
    ASSUME NEW st, Sound(st), NEW id \in AgentIds, NEW lamports \in Nat
    PROVE  Sound(Lock(st, id, lamports))
  <1>1. st \in States
    BY DEF Sound
  <1> QED
    BY <1>1, LockIs, SameCompletionsSound

-----------------------------------------------------------------------------
(* A challenge and its resolution move one completion from one count to another. *)

OneChanged(st, next, i) ==
    /\ DOMAIN next.completions = DOMAIN st.completions
    /\ \A j \in DOMAIN st.completions \ {i} : next.completions[j] = st.completions[j]

\* How the count of an agent's challenges follows when one completion changes.
LEMMA CountAfter ==
    ASSUME NEW st \in States, NEW next \in States, NEW i \in DOMAIN st.completions,
           OneChanged(st, next, i), NEW id, NEW fate
    PROVE  LET before == Cardinality(ChallengesBy(st, id, fate))
               after == Cardinality(ChallengesBy(next, id, fate))
               was == Matches(st.completions[i], id, fate)
               is == Matches(next.completions[i], id, fate)
           IN  /\ was /\ is => after = before
               /\ ~was /\ ~is => after = before
               /\ ~was /\ is => after = before + 1
               /\ was /\ ~is => after = before - 1
  <1> DEFINE was == Matches(st.completions[i], id, fate)
             is == Matches(next.completions[i], id, fate)
             A == ChallengesBy(st, id, fate)
             B == ChallengesBy(next, id, fate)
  <1>1. IsFiniteSet(A) /\ Cardinality(A) \in Nat
    BY CountTypes
  <1>2. (i \in A <=> was) /\ (i \in B <=> is)
    BY DEF ChallengesBy, OneChanged
  <1>3. \A j : j # i => (j \in A <=> j \in B)
    BY DEF ChallengesBy, OneChanged
  <1> HIDE DEF A, B, was, is
  <1>4. CASE was /\ is
    <2>1. A = B
      BY <1>2, <1>3, <1>4
    <2> QED
      BY <1>1, <1>4, <2>1 DEF A, B, was, is
  <1>5. CASE ~was /\ ~is
    <2>1. A = B
      BY <1>2, <1>3, <1>5
    <2> QED
      BY <1>1, <1>5, <2>1 DEF A, B, was, is
  <1>6. CASE ~was /\ is
    <2>1. B = A \cup {i} /\ i \notin A
      BY <1>2, <1>3, <1>6
    <2>2. Cardinality(B) = Cardinality(A) + 1
      BY <1>1, <2>1, FS_AddElement
    <2> QED
      BY <1>1, <1>6, <2>2 DEF A, B, was, is
  <1>7. CASE was /\ ~is
    <2>1. B = A \ {i} /\ i \in A
      BY <1>2, <1>3, <1>7
    <2>2. Cardinality(B) = Cardinality(A) - 1
      BY <1>1, <2>1, FS_RemoveElement
    <2> QED
      BY <1>1, <1>7, <2>2 DEF A, B, was, is
  <1> QED
    BY <1>4, <1>5, <1>6, <1>7

\* The bond of a challenge, times one more or one less.
LEMMA OneBond ==
    ASSUME NEW n \in Int
    PROVE  /\ Bond * n \in Int
           /\ Bond * (n + 1) = Bond * n + Bond
           /\ Bond * (n - 1) = Bond * n - Bond
  BY Numbers

\* A posted bond is one more pending challenge.
LEMMA PostingAddsUp ==
    ASSUME NEW a \in AgentRecord, NEW p \in Nat, NEW r \in Nat, AddsUp(a, p, r)
    PROVE  BondPosted(a) \in AgentRecord /\ AddsUp(BondPosted(a), p + 1, r)
  <1> DEFINE paid == Charged(a, 1)
             b == [paid EXCEPT !.spent = @ + Bond, !.locked = @ + Bond]
             x == Bond * p
             y == Bond * (p + r)
  <1>1. b = BondPosted(a)
    BY DEF BondPosted
  <1>2. paid \in AgentRecord /\ PaysOnly(a, paid)
    <2>1. 1 \in Nat
      OBVIOUS
    <2> QED
      BY <2>1, ChargedPays
  <1>3. AddsUp(paid, p, r)
    BY <1>2, PayingAddsUp
  <1> HIDE DEF paid
  <1>4. /\ paid.locked \in Nat /\ paid.capital \in Nat /\ paid.spent \in Int
        /\ paid.fees \in Nat /\ paid.slashed \in Nat
        /\ paid.spent + Bond \in Int /\ paid.locked + Bond \in Nat
    BY <1>2, Numbers DEF AgentRecord
  <1>5. b \in AgentRecord
    BY <1>2, <1>4 DEF AgentRecord
  <1>6. /\ b.spent = paid.spent + Bond /\ b.locked = paid.locked + Bond
        /\ b.fees = paid.fees /\ b.slashed = paid.slashed /\ b.capital = paid.capital
    BY <1>2 DEF AgentRecord
  <1>7. /\ paid.spent = paid.fees + paid.slashed + x
        /\ paid.locked + paid.slashed = paid.capital + y
        /\ paid.locked >= x
    BY <1>3 DEF AddsUp
  <1>8. /\ x \in Int /\ y \in Int /\ Bond \in Int
        /\ Bond * (p + 1) = x + Bond /\ Bond * ((p + 1) + r) = y + Bond
    <2>1. p \in Int /\ p + r \in Int /\ (p + 1) + r = (p + r) + 1
      OBVIOUS
    <2> QED
      BY <2>1, OneBond, Numbers
  <1> HIDE DEF x, y, b
  <1>9. b.spent = b.fees + b.slashed + (x + Bond)
    BY <1>4, <1>6, <1>7, <1>8
  <1>10. b.locked + b.slashed = b.capital + (y + Bond)
    <2>1. (paid.locked + Bond) + paid.slashed = paid.capital + (y + Bond)
      BY <1>4, <1>7, <1>8
    <2> QED
      BY <1>6, <2>1
  <1>11. b.locked >= x + Bond
    BY <1>4, <1>6, <1>7, <1>8
  <1> QED
    BY <1>1, <1>5, <1>8, <1>9, <1>10, <1>11 DEF AddsUp

\* A challenge keeps the state sound.
LEMMA ChallengeSound ==
    ASSUME NEW st, Sound(st), NEW i \in DOMAIN st.completions, NEW id \in AgentIds
    PROVE  /\ Sound(Challenge(st, i, id))
           /\ DOMAIN Challenge(st, i, id).completions = DOMAIN st.completions
  <1> DEFINE c == st.completions[i]
             d == [c EXCEPT !.challenged = TRUE, !.challenger = id]
             a == st.agents[id]
             b == BondPosted(a)
             next == Challenge(st, i, id)
  <1>0. st \in States /\ c \in Completions /\ a \in AgentRecord /\ InOrder(c)
    BY DEF Sound, States
  <1>1. CASE c.challenged
    <2>1. next = st
      BY <1>1 DEF Challenge
    <2> QED
      BY <2>1
  <1>2. CASE ~c.challenged
    <2>1. next = [agents |-> [st.agents EXCEPT ![id] = b],
                  completions |-> [st.completions EXCEPT ![i] = d]]
      BY <1>0, <1>2 DEF Challenge, States
    <2>2. ~c.resolved /\ ~c.disputed
      BY <1>0, <1>2 DEF InOrder, Completions
    <2>3. d \in Completions /\ d.challenged /\ d.challenger = id
          /\ d.resolved = FALSE /\ d.disputed = FALSE
      BY <1>0, <2>2 DEF Completions
    <2>4. AddsUp(a, Pending(st, id), Rejected(st, id))
          /\ Pending(st, id) \in Nat /\ Rejected(st, id) \in Nat
      BY <1>0, CountTypes DEF Sound, Pending, Rejected
    <2> HIDE DEF d
    <2>5. b \in AgentRecord /\ AddsUp(b, Pending(st, id) + 1, Rejected(st, id))
      BY <1>0, <2>4, PostingAddsUp
    <2> HIDE DEF b
    <2>6. /\ next \in States /\ DOMAIN next.completions = DOMAIN st.completions
          /\ next.completions[i] = d /\ OneChanged(st, next, i)
          /\ next.agents[id] = b
          /\ \A other \in AgentIds \ {id} : next.agents[other] = st.agents[other]
      BY <1>0, <2>1, <2>3, <2>5 DEF States, OneChanged
    <2> HIDE DEF next
    <2>7. \A j \in DOMAIN next.completions : InOrder(next.completions[j])
      BY <2>3, <2>6 DEF Sound, InOrder, OneChanged
    <2>8. \A other, fate : ~Matches(c, other, fate)
      BY <1>2 DEF Matches
    <2>10. ASSUME NEW other \in AgentIds PROVE Rejected(next, other) = Rejected(st, other)
      <3>1. /\ ~Matches(next.completions[i], other, "rejected")
            /\ ~Matches(st.completions[i], other, "rejected")
        BY <2>3, <2>6, <2>8 DEF Matches
      <3> QED
        BY <1>0, <2>6, <3>1, CountAfter DEF Rejected
    <2>9. ASSUME NEW other \in AgentIds
          PROVE  /\ Pending(next, other) = Pending(st, other) + (IF other = id THEN 1 ELSE 0)
                 /\ Rejected(next, other) = Rejected(st, other)
      <3>1. Matches(d, other, "pending") <=> other = id
        BY <2>3 DEF Matches
      <3>3. Pending(st, other) \in Nat /\ Rejected(st, other) \in Nat
        BY <1>0, CountTypes DEF Pending, Rejected
      <3> HIDE DEF c
      <3>4. c = st.completions[i] /\ d = next.completions[i]
        BY <2>6 DEF c
      <3>5. CASE other = id
        <4>1. /\ Matches(next.completions[i], other, "pending")
              /\ ~Matches(st.completions[i], other, "pending")
          BY <2>8, <3>1, <3>4, <3>5
        <4>2. Pending(next, other) = Pending(st, other) + 1
          BY <1>0, <2>6, <4>1, CountAfter DEF Pending
        <4> QED
          BY <2>8, <2>10, <3>5, <4>2
      <3>6. CASE other # id
        <4>1. /\ ~Matches(next.completions[i], other, "pending")
              /\ ~Matches(st.completions[i], other, "pending")
          BY <2>8, <3>1, <3>4, <3>6
        <4>2. Pending(next, other) = Pending(st, other)
          BY <1>0, <2>6, <4>1, CountAfter DEF Pending
        <4> QED
          BY <2>10, <3>3, <3>6, <4>2
      <3> QED
        BY <3>5, <3>6
    <2>11. ASSUME NEW other \in AgentIds
           PROVE  AddsUp(next.agents[other], Pending(next, other), Rejected(next, other))
      <3>1. CASE other = id
        BY <2>5, <2>6, <2>9, <3>1
      <3>2. CASE other # id
        <4>1. Pending(next, other) = Pending(st, other) /\ Rejected(next, other) = Rejected(st, other)
          <5>1. Pending(st, other) \in Nat
            BY <1>0, CountTypes DEF Pending
          <5> QED
            BY <2>9, <3>2, <5>1
        <4> QED
          BY <2>6, <3>2, <4>1 DEF Sound
      <3> QED
        BY <3>1, <3>2
    <2> QED
      BY <2>6, <2>7, <2>11 DEF Sound, next
  <1> QED
    BY <1>1, <1>2

\* A settled bond is one pending challenge less, and one rejected more if it is lost.
LEMMA UnlockingAddsUp ==
    ASSUME NEW a \in AgentRecord, NEW p \in Nat \ {0}, NEW r \in Nat, AddsUp(a, p, r),
           NEW upheld \in BOOLEAN
    PROVE  /\ BondSettled(a, upheld) \in AgentRecord
           /\ AddsUp(BondSettled(a, upheld), p - 1, IF upheld THEN r ELSE r + 1)
  <1> DEFINE x == Bond * (p - 1)
             y == Bond * (p + r)
             unlocked == [a EXCEPT !.locked = AtLeastZero(@ - Bond)]
             b == BondSettled(a, upheld)
  <1>1. /\ a.locked \in Int /\ a.capital \in Int /\ a.spent \in Int
        /\ a.fees \in Int /\ a.slashed \in Nat /\ Bond \in Nat
        /\ a.slashed + Bond \in Nat /\ a.spent - Bond \in Int
    BY Numbers DEF AgentRecord
  <1>2. /\ x \in Nat /\ y \in Int
        /\ Bond * p = x + Bond /\ Bond * ((p - 1) + r) = y - Bond
        /\ Bond * ((p - 1) + (r + 1)) = y
    <2>1. p - 1 \in Nat /\ p \in Int /\ p + r \in Int
          /\ (p - 1) + r = (p + r) - 1 /\ (p - 1) + (r + 1) = p + r /\ (p - 1) + 1 = p
      OBVIOUS
    <2>2. Bond * (p - 1) \in Nat
      BY <2>1, Numbers
    <2> QED
      BY <2>1, <2>2, OneBond, Numbers
  <1>3. /\ a.spent = a.fees + a.slashed + (x + Bond)
        /\ a.locked + a.slashed = a.capital + y
        /\ a.locked >= x + Bond
    BY <1>2 DEF AddsUp
  <1> HIDE DEF x, y
  <1>4. AtLeastZero(a.locked - Bond) = a.locked - Bond /\ a.locked - Bond \in Nat
    BY <1>1, <1>2, <1>3 DEF AtLeastZero
  <1>5. /\ unlocked \in AgentRecord /\ unlocked.locked = a.locked - Bond
        /\ unlocked.spent = a.spent /\ unlocked.slashed = a.slashed
        /\ unlocked.fees = a.fees /\ unlocked.capital = a.capital
    BY <1>4 DEF AgentRecord
  <1>6. CASE upheld
    <2> DEFINE d == [unlocked EXCEPT !.spent = @ - Bond]
    <2>1. b = d
      BY <1>6 DEF BondSettled
    <2> HIDE DEF unlocked, b
    <2>2. /\ d \in AgentRecord /\ d.locked = a.locked - Bond
          /\ d.spent = a.spent - Bond /\ d.slashed = a.slashed
          /\ d.fees = a.fees /\ d.capital = a.capital
      BY <1>1, <1>5 DEF AgentRecord
    <2> HIDE DEF d
    <2>3. d.spent = d.fees + d.slashed + x
      BY <1>1, <1>2, <1>3, <2>2
    <2>4. (a.locked - Bond) + a.slashed = a.capital + (y - Bond)
      <3>1. y \in Int /\ a.locked + a.slashed = a.capital + y
        BY <1>2, <1>3
      <3> QED
        BY <1>1, <3>1
    <2>5. d.locked + d.slashed = d.capital + (y - Bond)
      BY <2>2, <2>4
    <2>6. d.locked >= x
      BY <1>1, <1>2, <1>3, <2>2
    <2>7. AddsUp(d, p - 1, r)
      BY <1>2, <2>3, <2>5, <2>6 DEF AddsUp, x
    <2> QED
      BY <1>6, <2>1, <2>2, <2>7 DEF b
  <1>7. CASE ~upheld
    <2> DEFINE d == [unlocked EXCEPT !.slashed = @ + Bond]
    <2>1. b = d
      BY <1>7 DEF BondSettled
    <2> HIDE DEF unlocked, b
    <2>2. /\ d \in AgentRecord /\ d.locked = a.locked - Bond
          /\ d.spent = a.spent /\ d.slashed = a.slashed + Bond
          /\ d.fees = a.fees /\ d.capital = a.capital
      BY <1>1, <1>5 DEF AgentRecord
    <2> HIDE DEF d
    <2>3. a.spent = a.fees + (a.slashed + Bond) + x
      BY <1>1, <1>2, <1>3
    <2>4. (a.locked - Bond) + (a.slashed + Bond) = a.capital + y
      BY <1>1, <1>2, <1>3
    <2>5. d.spent = d.fees + d.slashed + x /\ d.locked + d.slashed = d.capital + y
      BY <2>2, <2>3, <2>4
    <2>6. d.locked >= x
      BY <1>1, <1>2, <1>3, <2>2
    <2>7. AddsUp(d, p - 1, r + 1)
      BY <1>2, <2>5, <2>6 DEF AddsUp, x
    <2> QED
      BY <1>7, <2>1, <2>2, <2>7 DEF b
  <1> QED
    BY <1>6, <1>7

\* Disputes do not touch the accounts.
LEMMA DisputedPays ==
    ASSUME NEW a \in AgentRecord, NEW disputes \in Nat
    PROVE  LET b == [a EXCEPT !.disputes = disputes]
           IN  b \in AgentRecord /\ PaysOnly(a, b)
  BY DEF AgentRecord, PaysOnly

\* A verdict keeps the state sound.
LEMMA ResolveSound ==
    ASSUME NEW st, Sound(st), NEW i \in DOMAIN st.completions, NEW upheld \in BOOLEAN
    PROVE  Sound(Resolve(st, i, upheld))
  <1> DEFINE c == st.completions[i]
             d == [c EXCEPT !.resolved = TRUE, !.disputed = upheld]
             who == c.agent
             id == c.challenger
             n == st.agents[who].disputes + (IF upheld THEN 1 ELSE 0)
             marked == [st.agents EXCEPT ![who] = [st.agents[who] EXCEPT !.disputes = n]]
             a == marked[id]
             b == BondSettled(a, upheld)
             next == Resolve(st, i, upheld)
             p == Pending(st, id)
             r == Rejected(st, id)
  <1>0. /\ st \in States /\ c \in Completions /\ InOrder(c)
        /\ who \in AgentIds /\ id \in AgentIds
    <2>1. st \in States /\ c \in Completions /\ InOrder(c)
      BY DEF Sound, States
    <2> QED
      BY <2>1 DEF Completions
  <1>1. CASE ~c.challenged \/ c.resolved
    <2>1. next = st
      BY <1>1 DEF Resolve
    <2> QED
      BY <2>1
  <1>2. CASE c.challenged /\ ~c.resolved
    <2>1. next = [agents |-> [marked EXCEPT ![id] = b],
                  completions |-> [st.completions EXCEPT ![i] = d]]
      <3>1. st = [agents |-> st.agents, completions |-> st.completions]
        BY <1>0 DEF States
      <3>2. /\ next.agents = [marked EXCEPT ![id] = b]
            /\ next.completions = [st.completions EXCEPT ![i] = d]
        BY <1>2, <3>1 DEF Resolve
      <3>3. next = [agents |-> next.agents, completions |-> next.completions]
        BY <1>2, <3>1 DEF Resolve
      <3> HIDE DEF next, marked, b, d
      <3> QED
        BY <3>2, <3>3
    <2>2. ~c.disputed
      BY <1>0, <1>2 DEF InOrder, Completions
    <2>3. d \in Completions /\ d.challenged /\ d.challenger = id
          /\ d.resolved /\ (d.disputed <=> upheld)
      BY <1>0, <1>2 DEF Completions
    <2>4. i \in ChallengesBy(st, id, "pending")
      BY <1>2, <2>2 DEF ChallengesBy, Matches
    <2>5. p \in Nat \ {0} /\ r \in Nat
      BY <1>0, <2>4, CountTypes, FS_EmptySet DEF Pending, Rejected
    <2>6. /\ marked \in [AgentIds -> AgentRecord]
          /\ \A other \in AgentIds : PaysOnly(st.agents[other], marked[other])
      <3>1. n \in Nat /\ st.agents[who] \in AgentRecord
        <4> HIDE DEF who, n, marked, d, a, b, next, p, r, id
        <4>1. st.agents[who] \in AgentRecord
          BY <1>0 DEF States
        <4>2. st.agents[who].disputes \in Nat
          BY <4>1 DEF AgentRecord
        <4> QED
          BY <4>1, <4>2 DEF n
      <3> HIDE DEF n, who
      <3>2. [st.agents[who] EXCEPT !.disputes = n] \in AgentRecord
            /\ PaysOnly(st.agents[who], [st.agents[who] EXCEPT !.disputes = n])
        BY <3>1, DisputedPays
      <3> QED
        BY <1>0, <3>2, PaysNothing DEF States
    <2> HIDE DEF d, marked
    <2>7. ASSUME NEW other \in AgentIds
          PROVE  AddsUp(marked[other], Pending(st, other), Rejected(st, other))
      <3>1. /\ st.agents[other] \in AgentRecord /\ marked[other] \in AgentRecord
            /\ PaysOnly(st.agents[other], marked[other])
            /\ Pending(st, other) \in Nat /\ Rejected(st, other) \in Nat
            /\ AddsUp(st.agents[other], Pending(st, other), Rejected(st, other))
        BY <1>0, <2>6, CountTypes DEF States, Sound, Pending, Rejected
      <3> QED
        BY <3>1, PayingAddsUp
    <2>8. a \in AgentRecord /\ AddsUp(a, p, r)
      BY <1>0, <2>6, <2>7
    <2> HIDE DEF a, p, r
    <2>9. b \in AgentRecord /\ AddsUp(b, p - 1, IF upheld THEN r ELSE r + 1)
      BY <2>5, <2>8, UnlockingAddsUp
    <2> HIDE DEF b, id
    <2>10. /\ next \in States
           /\ next.completions[i] = d /\ OneChanged(st, next, i)
           /\ next.agents[id] = b
           /\ \A other \in AgentIds \ {id} : next.agents[other] = marked[other]
      BY <1>0, <2>1, <2>3, <2>6, <2>9 DEF States, OneChanged
    <2> HIDE DEF next
    <2>11. \A j \in DOMAIN next.completions : InOrder(next.completions[j])
      BY <2>3, <2>10 DEF Sound, InOrder, OneChanged
    <2>12. AddsUp(next.agents[id], Pending(next, id), Rejected(next, id))
      <3>1. /\ Matches(st.completions[i], id, "pending")
            /\ ~Matches(next.completions[i], id, "pending")
            /\ ~Matches(st.completions[i], id, "rejected")
            /\ Matches(next.completions[i], id, "rejected") <=> ~upheld
        BY <1>2, <2>2, <2>3, <2>10 DEF Matches, id
      <3>2. Pending(next, id) = p - 1
        BY <1>0, <2>10, <3>1, CountAfter DEF Pending, p
      <3>3. CASE upheld
        <4>1. Rejected(next, id) = r
          BY <1>0, <2>10, <3>1, <3>3, CountAfter DEF Rejected, r
        <4> QED
          BY <2>9, <2>10, <3>2, <3>3, <4>1
      <3>4. CASE ~upheld
        <4>1. Rejected(next, id) = r + 1
          BY <1>0, <2>10, <3>1, <3>4, CountAfter DEF Rejected, r
        <4> QED
          BY <2>9, <2>10, <3>2, <3>4, <4>1
      <3> QED
        BY <3>3, <3>4
    <2>13. ASSUME NEW other \in AgentIds, other # id
           PROVE  AddsUp(next.agents[other], Pending(next, other), Rejected(next, other))
      <3>1. ASSUME NEW fate
            PROVE  /\ ~Matches(st.completions[i], other, fate)
                   /\ ~Matches(next.completions[i], other, fate)
        BY <2>3, <2>10, <2>13 DEF Matches, id
      <3>2. Pending(next, other) = Pending(st, other)
        BY <1>0, <2>10, <3>1, CountAfter DEF Pending
      <3>3. Rejected(next, other) = Rejected(st, other)
        BY <1>0, <2>10, <3>1, CountAfter DEF Rejected
      <3> QED
        BY <2>7, <2>10, <2>13, <3>2, <3>3
    <2> QED
      BY <2>10, <2>11, <2>12, <2>13 DEF Sound, next
  <1> QED
    BY <1>1, <1>2

-----------------------------------------------------------------------------
(* Without challenges a bond can be slashed. *)

Unchallenged(st) == \A i \in DOMAIN st.completions : ~st.completions[i].challenged

\* Nobody has challenged anything in a slow burn.
LEMMA NonePending ==
    ASSUME NEW st, Unchallenged(st), NEW id
    PROVE  Pending(st, id) = 0 /\ Rejected(st, id) = 0
  <1>1. ASSUME NEW fate PROVE ChallengesBy(st, id, fate) = {}
    BY DEF Unchallenged, ChallengesBy, Matches
  <1> QED
    BY <1>1, FS_EmptySet DEF Pending, Rejected

\* What is slashed was locked before.
LEMMA SlashedAddsUp ==
    ASSUME NEW a \in AgentRecord, AddsUp(a, 0, 0)
    PROVE  LET b == Slashed(a)
           IN  /\ b \in AgentRecord /\ AddsUp(b, 0, 0)
               /\ b.completions = a.completions /\ b.raters = a.raters
               /\ b.confirmed = a.confirmed
  <1> DEFINE slashed == AtMost(a.locked, Slashable(a))
             b == [a EXCEPT !.locked = @ - slashed, !.slashed = @ + slashed, !.spent = @ + slashed]
  <1>1. b = Slashed(a)
    BY DEF Slashed
  <1>2. /\ a.locked \in Nat /\ a.slashed \in Nat /\ a.spent \in Int
        /\ a.fees \in Nat /\ a.capital \in Nat
    BY DEF AgentRecord
  <1>3. slashed \in Nat /\ slashed <= a.locked
    BY <1>2, Numbers DEF AtMost, Slashable
  <1> HIDE DEF slashed
  <1>4. /\ a.locked - slashed \in Nat /\ a.slashed + slashed \in Nat
        /\ a.spent + slashed \in Int
    BY <1>2, <1>3
  <1>5. b \in AgentRecord
    BY <1>4 DEF AgentRecord
  <1>6. /\ b.locked = a.locked - slashed /\ b.slashed = a.slashed + slashed
        /\ b.spent = a.spent + slashed /\ b.fees = a.fees /\ b.capital = a.capital
        /\ b.completions = a.completions /\ b.raters = a.raters
        /\ b.confirmed = a.confirmed
    BY DEF AgentRecord
  <1> HIDE DEF b
  <1>7. Bond * 0 = 0 /\ Bond * (0 + 0) = 0
    BY Numbers
  <1>8. a.spent = a.fees + a.slashed /\ a.locked + a.slashed = a.capital
    BY <1>2, <1>7 DEF AddsUp
  <1>9. AddsUp(b, 0, 0)
    <2>1. /\ a.spent + slashed = a.fees + (a.slashed + slashed) + 0
          /\ (a.locked - slashed) + (a.slashed + slashed) = a.capital + 0
          /\ a.locked - slashed >= 0
      BY <1>2, <1>3, <1>8
    <2> QED
      BY <1>6, <1>7, <2>1 DEF AddsUp
  <1> QED
    BY <1>1, <1>5, <1>6, <1>9

\* An agent that was exposed: as many disputes as anything that is counted for it.
Exposed(a) ==
    /\ a.disputes = a.completions
    /\ IsFiniteSet(a.raters) /\ Cardinality(a.raters) <= a.completions
    /\ a.confirmed <= a.completions

\* The harvest keeps the state sound, and exposes the attacker.
LEMMA HarvestSound ==
    ASSUME NEW st, Sound(st), Unchallenged(st),
           IsFiniteSet(st.agents[Attacker].raters),
           Cardinality(st.agents[Attacker].raters) <= st.agents[Attacker].completions,
           st.agents[Attacker].confirmed <= st.agents[Attacker].completions
    PROVE  Sound(Harvested(st)) /\ Exposed(Harvested(st).agents[Attacker])
  <1> DEFINE a == st.agents[Attacker]
             s == Slashed(a)
             b == [s EXCEPT !.disputes = s.completions]
             mid == SlashCapability(st, Attacker)
             next == Harvested(st)
  <1>1. st \in States /\ a \in AgentRecord /\ Attacker \in AgentIds
    BY Numbers DEF Sound, States
  <1>2. AddsUp(a, 0, 0)
    BY <1>1, NonePending DEF Sound
  <1>3. /\ s \in AgentRecord /\ AddsUp(s, 0, 0)
        /\ s.completions = a.completions /\ s.raters = a.raters /\ s.confirmed = a.confirmed
    <2> HIDE DEF a
    <2> QED
      BY <1>1, <1>2, SlashedAddsUp
  <1>4. mid = [agents |-> [st.agents EXCEPT ![Attacker] = s], completions |-> st.completions]
    BY <1>1 DEF SlashCapability, States
  <1>5. next = [agents |-> [st.agents EXCEPT ![Attacker] = b], completions |-> st.completions]
    <2>1. next = [mid EXCEPT !.agents[Attacker].disputes = mid.agents[Attacker].completions]
      BY DEF Harvested
    <2>2. /\ mid.agents = [st.agents EXCEPT ![Attacker] = s]
          /\ mid.completions = st.completions /\ mid.agents[Attacker] = s
      BY <1>1, <1>4 DEF States
    <2> HIDE DEF mid, s, next
    <2>3. [mid.agents EXCEPT ![Attacker] = b] = [st.agents EXCEPT ![Attacker] = b]
      BY <1>1, <2>2 DEF States
    <2>4. next = [agents |-> [mid.agents EXCEPT ![Attacker] = b], completions |-> mid.completions]
      BY <1>4, <2>1, <2>2
    <2> QED
      BY <2>2, <2>3, <2>4
  <1> HIDE DEF s
  <1>6. s.completions \in Nat
    BY <1>3 DEF AgentRecord
  <1>7. b \in AgentRecord /\ PaysOnly(s, b)
    BY <1>3, <1>6, DisputedPays
  <1>8. AddsUp(b, 0, 0)
    BY <1>3, <1>7, PayingAddsUp
  <1>9. /\ b.disputes = s.completions /\ b.completions = s.completions
        /\ b.raters = s.raters /\ b.confirmed = s.confirmed
    BY <1>3 DEF AgentRecord
  <1> HIDE DEF b
  <1>10. /\ next \in States /\ next.completions = st.completions
         /\ next.agents[Attacker] = b
         /\ \A other \in AgentIds \ {Attacker} : next.agents[other] = st.agents[other]
    BY <1>1, <1>5, <1>7 DEF States
  <1> HIDE DEF next
  <1>11. Unchallenged(next)
    BY <1>10 DEF Unchallenged
  <1>12. ASSUME NEW id \in AgentIds
         PROVE  AddsUp(next.agents[id], Pending(next, id), Rejected(next, id))
    <2>1. /\ Pending(next, id) = 0 /\ Rejected(next, id) = 0
          /\ Pending(st, id) = 0 /\ Rejected(st, id) = 0
      BY <1>11, NonePending
    <2> QED
      BY <1>8, <1>10, <2>1 DEF Sound
  <1>13. \A i \in DOMAIN next.completions : InOrder(next.completions[i])
    BY <1>10 DEF Sound
  <1>14. Exposed(next.agents[Attacker])
    BY <1>3, <1>9, <1>10 DEF Exposed
  <1> QED
    BY <1>10, <1>12, <1>13, <1>14 DEF Sound, next

\* Whatever an exposed agent's mechanism counts, its disputes outweigh it.
LEMMA ExposedScoresNothing ==
    ASSUME NEW a \in AgentRecord, Exposed(a), mechanism \in MechanismNames,
           mechanism # "naive_count", NEW now \in Nat
    PROVE  ScoreOf(a, now) = 0
  <1>1. /\ a.completions \in Nat /\ a.disputes \in Nat /\ a.confirmed \in Nat
        /\ a.disputes = a.completions /\ a.confirmed <= a.completions
        /\ Cardinality(a.raters) \in Nat /\ Cardinality(a.raters) <= a.completions
        /\ a.locked \in Nat
    BY FS_CardinalityType DEF Exposed, AgentRecord
  <1>2. ASSUME NEW n \in Nat, n <= a.completions PROVE Decayed(a, n, now) = 0
    <2> DEFINE b == [a EXCEPT !.completions = n]
    <2>1. b.completions = n /\ b.disputes = a.disputes
      BY DEF AgentRecord
    <2> HIDE DEF b
    <2>2. AtLeastZero(b.completions - b.disputes) = 0
      BY <1>1, <1>2, <2>1 DEF AtLeastZero
    <2>3. ComputeScore(b, now, Period).score = 0
      BY <2>2 DEF ComputeScore
    <2> QED
      BY <2>3 DEF Decayed, b
  <1>3. CASE mechanism = "taop_bonded_decay"
    BY <1>1, <1>2, <1>3 DEF ScoreOf
  <1>4. CASE mechanism = "completions_minus_disputes"
    BY <1>1, <1>4 DEF ScoreOf, AtLeastZero
  <1>5. CASE mechanism = "peer_ratings"
    BY <1>1, <1>5 DEF ScoreOf, AtLeastZero
  <1>6. CASE mechanism = "stake_gated"
    <2> DEFINE q == a.locked \div StakeUnit
    <2>1. q \in Nat
      BY <1>1, Quotient, Numbers
    <2> HIDE DEF q
    <2>2. AtLeastZero(AtMost(q, a.completions - a.disputes)) = 0
      BY <1>1, <2>1 DEF AtLeastZero, AtMost
    <2> QED
      BY <1>6, <2>2 DEF ScoreOf, q
  <1>7. CASE mechanism = "two_sided_receipts"
    <2> DEFINE n == AtMost(Cardinality(a.raters) * DiversityWeight, a.confirmed)
    <2>1. Cardinality(a.raters) * DiversityWeight \in Nat
      BY <1>1, Numbers
    <2>2. n \in Nat /\ n <= a.completions
      BY <1>1, <2>1 DEF AtMost
    <2> HIDE DEF n
    <2>3. Decayed(a, n, now) = 0
      BY <1>2, <2>2
    <2> QED
      BY <1>7, <2>3 DEF ScoreOf, n
  <1> QED
    BY <1>3, <1>4, <1>5, <1>6, <1>7 DEF MechanismNames

-----------------------------------------------------------------------------
(* The attacker's days. *)

\* The counterparties that are recruited are enough for the score, and no more than it.
LEMMA CounterpartiesSuffice ==
    ASSUME NEW target \in Nat \ {0}
    PROVE  /\ CounterpartiesRequired(target) \in 1 .. target
           /\ mechanism # "peer_ratings" =>
                  CounterpartiesRequired(target) * DiversityWeight >= target
  <1>1. CASE mechanism = "peer_ratings"
    BY <1>1 DEF CounterpartiesRequired
  <1>2. CASE mechanism # "peer_ratings"
    <2> DEFINE W == DiversityWeight
               q == (target + W - 1) \div W
    <2>1. W \in Nat \ {0} /\ target + W - 1 \in Nat
      BY Numbers
    <2>2. q \in Nat /\ W * q <= target + W - 1 /\ target + W - 1 < W * q + W
      BY <2>1, Quotient
    <2>3. CounterpartiesRequired(target) = q
      BY <1>2 DEF CounterpartiesRequired
    <2> HIDE DEF W, q
    <2>4. W * q \in Nat /\ W * q >= target
      BY <2>1, <2>2
    <2>5. W * q = q * W
      BY <2>1, <2>2
    <2>6. q # 0
      BY <2>1, <2>4
    <2>7. q <= target
      <3>1. ASSUME target + 1 <= q PROVE FALSE
        <4>1. W * (target + 1) <= W * q
          <5>1. q - (target + 1) \in Nat
            BY <2>2, <3>1
          <5>2. W * (q - (target + 1)) >= 0
            BY <2>1, <5>1
          <5>3. W * q = W * (target + 1) + W * (q - (target + 1))
            BY <2>1, <2>2
          <5>4. W * (target + 1) \in Int /\ W * (q - (target + 1)) \in Int
            BY <2>1, <2>2
          <5> QED
            BY <5>2, <5>3, <5>4
        <4>2. W * (target + 1) = W * target + W
          BY <2>1
        <4>3. W * target >= target
          <5>1. W * target = target + (W - 1) * target
            BY <2>1
          <5>2. (W - 1) * target >= 0
            BY <2>1
          <5>3. (W - 1) * target \in Int
            BY <2>1
          <5> QED
            BY <5>1, <5>2, <5>3
        <4>4. W * target \in Int
          BY <2>1
        <4> QED
          BY <2>1, <2>2, <2>4, <4>1, <4>2, <4>3, <4>4
      <3> QED
        BY <2>2, <3>1
    <2> QED
      BY <2>2, <2>3, <2>4, <2>5, <2>6, <2>7 DEF W
  <1> QED
    BY <1>1, <1>2

\* How many accomplices confirm the attacker, with a mechanism that has confirmations.
Recruited == IF RequiresReceipts THEN CounterpartiesRequired(TargetScore) ELSE TargetScore

\* The accomplices are as many as were recruited, and none is the attacker.
LEMMA RecruitedTypes ==
    ASSUME UsesPeerRatings
    PROVE  /\ Recruited \in 1 .. TargetScore
           /\ DOMAIN Accomplices = 0 .. Recruited - 1
           /\ Cardinality(DOMAIN Accomplices) = Recruited
           /\ \A i \in 0 .. Recruited - 1 :
                  /\ Accomplices[i] = Accomplice(i)
                  /\ Accomplice(i) \in AgentIds /\ Accomplice(i) # Attacker
  <1>1. Recruited \in 1 .. TargetScore
    BY Numbers, CounterpartiesSuffice DEF Recruited
  <1>2. Accomplices = [i \in 0 .. Recruited - 1 |-> Accomplice(i)]
    BY DEF Accomplices, Recruited
  <1> HIDE DEF Recruited
  <1>3. Cardinality(0 .. Recruited - 1) = Recruited
    BY <1>1, Numbers, FS_Interval
  <1>4. ASSUME NEW i \in 0 .. Recruited - 1
        PROVE  Accomplice(i) \in AgentIds /\ Accomplice(i) # Attacker
    <2>1. i \in 0 .. TargetScore
      BY <1>1, Numbers
    <2> QED
      BY <2>1 DEF AgentIds, Accomplice, Attacker
  <1> QED
    BY <1>1, <1>2, <1>3, <1>4

\* What the remainder of a division is.
LEMMA Remainders ==
    ASSUME NEW a \in Nat, NEW b \in Nat \ {0}
    PROVE  a % b \in 0 .. b - 1
  OBVIOUS

\* The remainder by the quotient.
LEMMA Remainder ==
    ASSUME NEW a \in Int, NEW b \in Nat \ {0}
    PROVE  a % b = a - b * (a \div b)
  BY Z3

\* Nothing else is the remainder.
LEMMA RemainderIs ==
    ASSUME NEW a \in Nat, NEW b \in Nat \ {0}, NEW q \in Nat, NEW r \in 0 .. b - 1,
           a = b * q + r
    PROVE  a % b = r
  <1>1. b * q \in Nat /\ r \in Nat
    OBVIOUS
  <1>2. a \div b = q
    <2>1. b * q <= a /\ a < b * q + b
      BY <1>1
    <2> QED
      BY <2>1, QuotientIs
  <1>3. a % b = a - b * q
    BY <1>2, Remainder
  <1> QED
    BY <1>1, <1>3

\* Who has confirmed the attacker's first n attestations: accomplices take turns.
Confirmers(n) ==
    {Accomplice(j % Recruited) : j \in AttestsPerDay .. AttestsPerDay + n - 1}

\* The attacker after n attestations.
BurnedSo(a, n) ==
    /\ a.completions = n /\ a.disputes = 0
    /\ a.confirmed = IF RequiresReceipts THEN n ELSE 0
    /\ a.raters = IF UsesPeerRatings THEN Confirmers(n) ELSE {}
    /\ IsFiniteSet(a.raters) /\ Cardinality(a.raters) <= n
    /\ a.locked = IF LocksCapital THEN CapitalRequired(TargetScore) ELSE CapabilityBond

\* In as many turns as there are accomplices, everybody has had one.
LEMMA EverybodyConfirms ==
    ASSUME UsesPeerRatings, NEW n \in Nat, n >= Recruited
    PROVE  /\ IsFiniteSet(Confirmers(n)) => Cardinality(Confirmers(n)) >= Recruited
  <1> DEFINE N == Recruited
             A == AttestsPerDay
  <1>1. N \in Nat \ {0} /\ A \in Nat
    BY RecruitedTypes, Numbers
  <1>2. ASSUME NEW i \in 0 .. N - 1
        PROVE  \E j \in A .. A + n - 1 : j % N = i
    <2> DEFINE r == (i - A) % N
    <2>1. r \in 0 .. N - 1
      BY <1>1
    <2>2. (A + r) % N = i
      <3> DEFINE q == (i - A) \div N
      <3>1. q \in Int /\ i - A = N * q + r
        <4>1. i - A \in Int
          BY <1>1
        <4>2. r = (i - A) - N * q
          BY <1>1, <4>1, Remainder
        <4>3. q \in Int /\ N * q \in Int
          BY <1>1, <4>1
        <4> HIDE DEF r, q
        <4> QED
          BY <4>1, <4>2, <4>3
      <3> HIDE DEF r, q
      <3>2. A + r = N * (-q) + i
        <4>1. N * (-q) = -(N * q) /\ N * q \in Int
          BY <1>1, <3>1
        <4> QED
          BY <1>1, <2>1, <3>1, <4>1
      <3> DEFINE p == -q
                 x == A + r
      <3>3. p \in Int /\ x \in Nat /\ x = N * p + i
        BY <1>1, <2>1, <3>1, <3>2
      <3> HIDE DEF p, x
      <3>4. p \in Nat
        <4>1. ASSUME p <= -1 PROVE FALSE
          <5>1. N * p <= -N
            <6>1. -1 - p \in Nat
              BY <3>3, <4>1
            <6>2. N * (-1 - p) >= 0 /\ N * (-1 - p) = -N - N * p /\ N * p \in Int
              BY <1>1, <3>3, <6>1
            <6> QED
              BY <1>1, <6>2
          <5>2. N * p \in Int /\ N * p + i >= 0
            BY <1>1, <3>3
          <5> QED
            BY <1>1, <5>1, <5>2
        <4> QED
          BY <3>3, <4>1
      <3>5. i \in 0 .. N - 1
        OBVIOUS
      <3>8. x % N = i
        BY <1>1, <3>3, <3>4, <3>5, RemainderIs
      <3> QED
        BY <3>8 DEF x
    <2> HIDE DEF r
    <2>3. A + r \in A .. A + n - 1
      BY <1>1, <2>1
    <2> QED
      BY <2>2, <2>3
  <1>3. 100 .. 100 + N - 1 \subseteq Confirmers(n)
    <2>1. ASSUME NEW x \in 100 .. 100 + N - 1 PROVE x \in Confirmers(n)
      <3>1. x - 100 \in 0 .. N - 1 /\ x = Accomplice(x - 100)
        BY <1>1 DEF Accomplice
      <3>2. PICK j \in A .. A + n - 1 : j % N = x - 100
        BY <1>2, <3>1
      <3> QED
        BY <3>1, <3>2 DEF Confirmers
    <2> QED
      BY <2>1
  <1>4. Cardinality(100 .. 100 + N - 1) = N
    BY <1>1, FS_Interval
  <1> HIDE DEF N
  <1>5. ASSUME IsFiniteSet(Confirmers(n)) PROVE Cardinality(Confirmers(n)) >= N
    BY <1>1, <1>3, <1>4, <1>5, FS_Subset, FS_CardinalityType
  <1> QED
    BY <1>5 DEF N

\* Enough attestations are enough for every mechanism.
LEMMA TargetReached ==
    ASSUME NEW a \in AgentRecord, NEW n \in Nat, BurnedSo(a, n), n >= TargetScore,
           mechanism \in MechanismNames, NEW now \in Nat, a.last_activity = now
    PROVE  ScoreOf(a, now) \in Int /\ ScoreOf(a, now) >= TargetScore
  <1>1. /\ a.completions = n /\ a.disputes = 0 /\ TargetScore \in Nat \ {0}
        /\ Cardinality(a.raters) \in Nat
    BY Numbers, FS_CardinalityType DEF BurnedSo
  <1>2. ASSUME NEW m \in Nat, m >= TargetScore
        PROVE  Decayed(a, m, now) \in Nat /\ Decayed(a, m, now) >= TargetScore
    <2> DEFINE b == [a EXCEPT !.completions = m]
    <2>1. b.completions = m /\ b.disputes = 0 /\ b.last_activity = now
      BY <1>1 DEF AgentRecord
    <2> HIDE DEF b
    <2>2. /\ AtLeastZero(b.completions - b.disputes) = m
          /\ AtLeastZero(now - b.last_activity) = 0
      BY <2>1 DEF AtLeastZero
    <2>3. ~(0 > Period)
      BY Numbers
    <2>4. ComputeScore(b, now, Period).score = m
      BY <2>2, <2>3 DEF ComputeScore
    <2> QED
      BY <1>2, <2>4 DEF Decayed, b
  <1>3. CASE mechanism = "taop_bonded_decay"
    BY <1>1, <1>2, <1>3 DEF ScoreOf
  <1>4. CASE mechanism = "naive_count"
    BY <1>1, <1>4 DEF ScoreOf
  <1>5. CASE mechanism = "completions_minus_disputes"
    BY <1>1, <1>5 DEF ScoreOf, AtLeastZero
  <1>6. CASE mechanism = "peer_ratings"
    <2>1. UsesPeerRatings /\ ~RequiresReceipts /\ Recruited = TargetScore
      BY <1>6 DEF UsesPeerRatings, RequiresReceipts, Recruited
    <2>2. Cardinality(a.raters) >= TargetScore
      BY <2>1, EverybodyConfirms DEF BurnedSo
    <2> QED
      BY <1>1, <1>6, <2>2 DEF ScoreOf, AtLeastZero
  <1>7. CASE mechanism = "stake_gated"
    <2>1. a.locked = TargetScore * StakeUnit
      BY <1>7 DEF BurnedSo, LocksCapital, CapitalRequired
    <2>2. a.locked \div StakeUnit = TargetScore
      <3>1. /\ StakeUnit * TargetScore = TargetScore * StakeUnit
            /\ TargetScore * StakeUnit \in Nat /\ StakeUnit \in Nat \ {0}
        BY Numbers
      <3> QED
        BY <1>1, <2>1, <3>1, QuotientIs
    <2>3. AtLeastZero(AtMost(TargetScore, n - 0)) = TargetScore
      BY <1>1 DEF AtLeastZero, AtMost
    <2> QED
      BY <1>1, <1>7, <2>2, <2>3 DEF ScoreOf
  <1>8. CASE mechanism = "two_sided_receipts"
    <2> DEFINE m == AtMost(Cardinality(a.raters) * DiversityWeight, a.confirmed)
    <2>1. /\ UsesPeerRatings /\ RequiresReceipts
          /\ Recruited = CounterpartiesRequired(TargetScore)
      BY <1>8 DEF UsesPeerRatings, RequiresReceipts, Recruited
    <2>2. Recruited \in 1 .. TargetScore /\ Recruited * DiversityWeight >= TargetScore
      BY <1>1, <1>8, <2>1, CounterpartiesSuffice
    <2>3. Cardinality(a.raters) >= Recruited
      BY <1>1, <2>1, <2>2, EverybodyConfirms DEF BurnedSo
    <2>4. /\ Cardinality(a.raters) * DiversityWeight \in Nat
          /\ Cardinality(a.raters) * DiversityWeight >= TargetScore
      <3> DEFINE c == Cardinality(a.raters)
                 W == DiversityWeight
      <3>1. c \in Nat /\ W \in Nat /\ c >= Recruited /\ Recruited \in Nat
            /\ Recruited * W >= TargetScore
        BY <1>1, <2>2, <2>3, Numbers
      <3> HIDE DEF c, W
      <3> DEFINE e == c - Recruited
      <3>5. e \in Nat /\ c = Recruited + e
        BY <3>1
      <3> HIDE DEF e
      <3>2. c * W = Recruited * W + e * W
        BY <3>1, <3>5
      <3>3. c * W \in Nat /\ Recruited * W \in Nat /\ e * W \in Nat
        BY <3>1, <3>5
      <3>4. c * W >= TargetScore
        BY <1>1, <3>1, <3>2, <3>3
      <3> QED
        BY <3>3, <3>4 DEF c, W
    <2>5. a.confirmed = n
      BY <2>1 DEF BurnedSo
    <2>6. m \in Nat /\ m >= TargetScore
      BY <1>1, <2>4, <2>5 DEF AtMost
    <2> HIDE DEF m
    <2>7. Decayed(a, m, now) \in Nat /\ Decayed(a, m, now) >= TargetScore
      BY <1>2, <2>6
    <2> QED
      BY <1>8, <2>7 DEF ScoreOf, m
  <1> QED
    BY <1>3, <1>4, <1>5, <1>6, <1>7, <1>8 DEF MechanismNames

\* In the course of a day, after i of its attestations.
OnDay(st, i) ==
    /\ Sound(st) /\ Unchallenged(st)
    /\ BurnedSo(st.agents[Attacker], (day - 1) * AttestsPerDay + i)
    /\ i > 0 => st.agents[Attacker].last_activity = day

\* Each attestation of the burn is confirmed by the next accomplice.
LEMMA ConfirmersGrow ==
    ASSUME NEW n \in Nat
    PROVE  Confirmers(n + 1) = Confirmers(n) \cup {Accomplice((AttestsPerDay + n) % Recruited)}
  <1>1. AttestsPerDay .. AttestsPerDay + (n + 1) - 1
            = (AttestsPerDay .. AttestsPerDay + n - 1) \cup {AttestsPerDay + n}
    BY Numbers
  <1> QED
    BY <1>1 DEF Confirmers

\* One attestation more of a day.
LEMMA AttestOnceBurns ==
    ASSUME NEW st, NEW i \in Nat, OnDay(st, i), day \in Nat \ {0}
    PROVE  OnDay(AttestOnce(st, i), i + 1)
  <1> DEFINE n == (day - 1) * AttestsPerDay + i
             mid == Attest(st, Attacker, day)
             a == st.agents[Attacker]
             b == mid.agents[Attacker]
             next == AttestOnce(st, i)
  <1>1. /\ n \in Nat /\ n + 1 = (day - 1) * AttestsPerDay + (i + 1)
        /\ day * AttestsPerDay + i = AttestsPerDay + n /\ day * AttestsPerDay + i \in Nat
    <2>1. /\ (day - 1) * AttestsPerDay \in Nat
          /\ day * AttestsPerDay = AttestsPerDay + (day - 1) * AttestsPerDay
          /\ AttestsPerDay \in Nat
      BY Numbers
    <2> QED
      BY <2>1
  <1>2. /\ Sound(st) /\ Unchallenged(st) /\ BurnedSo(a, n)
        /\ Attacker \in AgentIds /\ st \in States
    BY Numbers DEF OnDay, Sound
  <1>3. Sound(mid)
    BY <1>2, AttestSound
  <1>4. /\ mid \in States
        /\ b.completions = a.completions + 1 /\ b.last_activity = day
        /\ b.disputes = a.disputes /\ b.raters = a.raters
        /\ b.confirmed = a.confirmed /\ b.locked = a.locked
        /\ Len(mid.completions) = Len(st.completions) + 1
        /\ \A j \in 1 .. Len(st.completions) : mid.completions[j] = st.completions[j]
        /\ ~mid.completions[Len(st.completions) + 1].challenged
    BY <1>2, AttestIs
  <1> HIDE DEF mid
  <1>5. Unchallenged(mid)
    <2> DEFINE len == Len(st.completions)
    <2>1. /\ len \in Nat /\ DOMAIN st.completions = 1 .. len
          /\ DOMAIN mid.completions = 1 .. len + 1
      BY <1>2, <1>4 DEF States
    <2>2. ASSUME NEW j \in 1 .. len + 1 PROVE ~mid.completions[j].challenged
      <3>1. j = len + 1 \/ (j \in 1 .. len /\ mid.completions[j] = st.completions[j])
        BY <1>4, <2>1, <2>2
      <3> QED
        BY <1>2, <1>4, <2>1, <3>1 DEF Unchallenged
    <2> QED
      BY <2>1, <2>2 DEF Unchallenged
  <1> HIDE DEF n
  <1>6. /\ b.completions = n + 1 /\ b.disputes = 0
        /\ b.confirmed = (IF RequiresReceipts THEN n ELSE 0)
        /\ b.raters = (IF UsesPeerRatings THEN Confirmers(n) ELSE {})
        /\ IsFiniteSet(b.raters) /\ Cardinality(b.raters) <= n
        /\ Cardinality(b.raters) \in Nat
        /\ b.locked = (IF LocksCapital THEN CapitalRequired(TargetScore) ELSE CapabilityBond)
    BY <1>2, <1>4, FS_CardinalityType DEF BurnedSo
  <1>7. CASE ~UsesPeerRatings
    <2>1. next = mid /\ ~RequiresReceipts
      BY <1>7 DEF AttestOnce, UsesPeerRatings, RequiresReceipts, mid
    <2>2. BurnedSo(b, n + 1)
      BY <1>1, <1>6, <1>7, <2>1 DEF BurnedSo
    <2>3. i + 1 > 0
      OBVIOUS
    <2> QED
      BY <1>1, <1>3, <1>4, <1>5, <2>1, <2>2, <2>3 DEF OnDay
  <1>8. CASE UsesPeerRatings
    <2> DEFINE t == (AttestsPerDay + n) % Recruited
               who == Accomplice(t)
               c == next.agents[Attacker]
    <2>1. t \in 0 .. Recruited - 1
      <3>1. AttestsPerDay + n \in Nat /\ Recruited \in Nat \ {0}
        BY <1>1, <1>8, RecruitedTypes, Numbers
      <3> QED
        BY <3>1, Remainders
    <2>2. Accomplices[t] = who /\ who \in AgentIds /\ who # Attacker
      <3> HIDE DEF t
      <3> QED
        BY <1>8, <2>1, RecruitedTypes
    <2>3. next = Rate(mid, who, Attacker)
      BY <1>1, <1>8, <2>2, RecruitedTypes DEF AttestOnce, mid
    <2> HIDE DEF who
    <2>4. Sound(next)
      BY <1>2, <1>3, <2>2, <2>3, RateSound
    <2>5. next.completions = mid.completions /\ Received(b, c, who, Attacker)
      BY <1>2, <1>4, <2>2, <2>3, RateIs
    <2>6. Unchallenged(next)
      BY <1>5, <2>5 DEF Unchallenged
    <2> HIDE DEF next
    <2>7. Counts(b, who, Attacker)
      BY <1>1, <1>6, <2>2 DEF Counts
    <2>8. /\ c.completions = n + 1 /\ c.disputes = 0 /\ c.last_activity = day
          /\ c.raters = Confirmers(n) \cup {who} /\ c.locked = b.locked
          /\ c.confirmed = (IF RequiresReceipts THEN n + 1 ELSE 0)
          /\ b.raters = Confirmers(n)
      BY <1>4, <1>6, <1>8, <2>5, <2>7 DEF Received
    <2>9. c.raters = Confirmers(n + 1)
      BY <1>1, <2>8, ConfirmersGrow DEF who
    <2>10. IsFiniteSet(c.raters) /\ Cardinality(c.raters) <= n + 1
      <3>1. /\ IsFiniteSet(Confirmers(n)) /\ Cardinality(Confirmers(n)) \in Nat
            /\ Cardinality(Confirmers(n)) <= n
        BY <1>6, <2>8
      <3> DEFINE S == Confirmers(n)
      <3>2. IsFiniteSet(S \cup {who}) /\ Cardinality(S \cup {who}) <= Cardinality(S) + 1
        <4> HIDE DEF S
        <4>1. IsFiniteSet(S) /\ Cardinality(S) \in Nat
          BY <3>1 DEF S
        <4> QED
          BY <4>1, FS_AddElement
      <3>3. Cardinality(S \cup {who}) \in Nat
        BY <3>2, FS_CardinalityType
      <3> HIDE DEF S
      <3>4. Cardinality(S) \in Nat /\ Cardinality(S) <= n /\ n \in Nat
        BY <1>1, <3>1 DEF S
      <3> QED
        BY <2>8, <3>2, <3>3, <3>4 DEF S
    <2>11. BurnedSo(c, n + 1)
      BY <1>6, <1>8, <2>8, <2>9, <2>10 DEF BurnedSo
    <2>12. i + 1 > 0
      OBVIOUS
    <2> QED
      BY <1>1, <2>4, <2>6, <2>8, <2>11, <2>12 DEF OnDay, next
  <1> QED
    BY <1>7, <1>8

\* The days as the code goes through them: Burnt is what its recursion says.
LEMMA BurntEquation ==
    ASSUME state \in States, day \in Nat \ {0}
    PROVE  Burnt = [i \in Nat |-> IF i = 0 THEN state ELSE AttestOnce(Burnt[i - 1], i - 1)]
  <1> DEFINE step == [i \in Nat |-> [st \in States |-> AttestOnce(st, i)]]
  <1>1. ASSUME NEW i \in Nat, NEW st \in States PROVE AttestOnce(st, i) \in States
    <2> DEFINE mid == Attest(st, Attacker, day)
    <2>1. mid \in States /\ Attacker \in AgentIds
      BY Numbers, AttestIs
    <2> HIDE DEF mid
    <2>2. CASE ~UsesPeerRatings
      BY <2>1, <2>2 DEF AttestOnce, mid
    <2>3. CASE UsesPeerRatings
      <3> DEFINE t == (day * AttestsPerDay + i) % Recruited
      <3>1. t \in 0 .. Recruited - 1
        <4>1. day * AttestsPerDay \in Nat
          BY Numbers
        <4>2. day * AttestsPerDay + i \in Nat /\ Recruited \in Nat \ {0}
          BY <2>3, <4>1, RecruitedTypes, Numbers
        <4> QED
          BY <4>2, Remainders
      <3>2. AttestOnce(st, i) = Rate(mid, Accomplices[t], Attacker)
        <4>1. Cardinality(DOMAIN Accomplices) = Recruited
          BY <2>3, RecruitedTypes
        <4> QED
          BY <2>3, <4>1 DEF AttestOnce, mid
      <3> HIDE DEF t
      <3>3. Accomplices[t] \in AgentIds
        BY <2>3, <3>1, RecruitedTypes
      <3> QED
        BY <2>1, <3>2, <3>3, RateIs
    <2> QED
      BY <2>2, <2>3
  <1>2. step \in [Nat -> [States -> States]]
    BY <1>1
  <1> HIDE DEF step
  <1>3. PICK g \in [Nat -> States] : Iterates(g, state, step)
    BY <1>2, Recursion
  <1>4. g[0] = state /\ \A i \in Nat : g[i + 1] = AttestOnce(g[i], i)
    BY <1>3 DEF Iterates, step
  <1>5. ASSUME NEW i \in Nat PROVE g[i] = IF i = 0 THEN state ELSE AttestOnce(g[i - 1], i - 1)
    <2>1. CASE i # 0
      <3>1. i - 1 \in Nat /\ (i - 1) + 1 = i
        BY <2>1
      <3> QED
        BY <1>4, <2>1, <3>1
    <2> QED
      BY <1>4, <2>1
  <1>6. g = [i \in Nat |-> IF i = 0 THEN state ELSE AttestOnce(g[i - 1], i - 1)]
    BY <1>3, <1>5
  <1> QED
    BY <1>6 DEF Burnt

\* All the attestations of a day.
LEMMA DayBurns ==
    ASSUME OnDay(state, 0), day \in Nat \ {0}
    PROVE  OnDay(Burnt[AttestsPerDay], AttestsPerDay)
  <1>1. state \in States
    BY DEF OnDay, Sound
  <1>2. Burnt[0] = state /\ \A i \in Nat : Burnt[i + 1] = AttestOnce(Burnt[i], i)
    <2>1. \A i \in Nat : Burnt[i] = IF i = 0 THEN state ELSE AttestOnce(Burnt[i - 1], i - 1)
      BY <1>1, BurntEquation
    <2>2. ASSUME NEW i \in Nat PROVE Burnt[i + 1] = AttestOnce(Burnt[i], i)
      <3>1. i + 1 \in Nat /\ i + 1 # 0 /\ (i + 1) - 1 = i
        OBVIOUS
      <3> QED
        BY <2>1, <3>1
    <2> QED
      BY <2>1, <2>2
  <1> DEFINE good == {i \in Nat : OnDay(Burnt[i], i)}
  <1>3. 0 \in good
    BY <1>2
  <1>4. ASSUME NEW i \in Nat, i \in good PROVE i + 1 \in good
    <2>1. OnDay(AttestOnce(Burnt[i], i), i + 1)
      BY <1>4, AttestOnceBurns
    <2> QED
      BY <1>2, <2>1
  <1>5. Nat \subseteq good
    <2> HIDE DEF good
    <2> QED
      BY <1>3, <1>4, SetInduction
  <1> QED
    BY <1>5, Numbers

-----------------------------------------------------------------------------
BenchmarkInv ==
    /\ mechanism \in MechanismNames \cup {"none"}
    /\ scenario \in {"none", "sybil", "slowBurn"}
    /\ outcome \in {"burning", "harvested", "unreachable"}
    /\ day \in Nat \ {0} /\ horizon \in Nat
    /\ mechanism = "none" => scenario = "none"
    /\ scenario = "none" => state = NewState
    /\ scenario # "slowBurn" => outcome = "burning" /\ day = 1
    /\ Sound(state)
    /\ Burning => OnDay(state, 0) /\ (day - 1) * AttestsPerDay < TargetScore
    /\ outcome = "harvested" => Exposed(state.agents[Attacker])

\* The capital an agent locks before it attests keeps the state sound.
LEMMA LockedForSound ==
    ASSUME NEW st, Sound(st), NEW id \in AgentIds
    PROVE  Sound(LockedFor(st, id)) /\ LockedFor(st, id).completions = st.completions
  <1>1. CapitalRequired(AttestsPerSybil) \in Nat
    BY Numbers DEF CapitalRequired
  <1>2. st \in States
    BY DEF Sound
  <1>3. CASE LocksCapital
    <2>1. LockedFor(st, id) = Lock(st, id, CapitalRequired(AttestsPerSybil))
      BY <1>3 DEF LockedFor
    <2> QED
      BY <1>1, <1>2, <2>1, LockSound, LockIs
  <1>4. CASE ~LocksCapital
    <2>1. LockedFor(st, id) = st
      BY <1>4 DEF LockedFor
    <2> QED
      BY <2>1
  <1> QED
    BY <1>3, <1>4

\* There is somebody to confirm, and at most one for each attestation.
LEMMA DistinctTypes == Distinct \in 1 .. AttestsPerSybil
  BY Numbers, CounterpartiesSuffice DEF Distinct

\* What a sybil scenario does keeps the invariant when it keeps the accounts right.
LEMMA SybilKeepsBenchmark ==
    ASSUME BenchmarkInv, scenario' = "sybil", Sound(state'), mechanism # "none",
           scenario # "slowBurn", UNCHANGED <<mechanism, horizon, day, outcome>>
    PROVE  BenchmarkInv'
  <1>1. ~Burning' /\ outcome' = "burning"
    BY DEF BenchmarkInv, Burning
  <1> QED
    BY <1>1 DEF BenchmarkInv

\* The honest agent's attestations.
LEMMA FarmHonestlyKeepsBenchmark ==
    ASSUME BenchmarkInv, FarmHonestly
    PROVE  BenchmarkInv'
  <1> DEFINE mid == Attest(state, Honest, 0)
             from == -2 - (Farmed % Distinct)
  <1>1. Sound(state) /\ state \in States /\ Farmed \in Nat /\ Honest \in AgentIds
    BY Numbers DEF BenchmarkInv, Sound, States, Farmed
  <1>2. Sound(mid)
    BY <1>1, AttestSound
  <1>3. from \in AgentIds
    <2>1. Farmed % Distinct \in 0 .. AttestsPerSybil - 1
      BY <1>1, DistinctTypes, Remainders, Numbers
    <2>2. from \in -1 - AttestsPerSybil .. Sybils
      BY <2>1, Numbers
    <2> QED
      BY <2>2 DEF AgentIds
  <1> HIDE DEF mid, from
  <1>4. Sound(Rate(mid, from, Honest))
    BY <1>1, <1>2, <1>3, RateSound
  <1>5. state' = (IF UsesPeerRatings THEN Rate(mid, from, Honest) ELSE mid)
    BY DEF FarmHonestly, mid, from
  <1>6. Sound(state')
    BY <1>2, <1>4, <1>5
  <1>7. scenario = "sybil" /\ scenario' = scenario /\ UNCHANGED <<mechanism, horizon, day, outcome>>
    BY DEF FarmHonestly, FarmingHonest
  <1>8. mechanism # "none"
    BY <1>7 DEF BenchmarkInv
  <1> QED
    BY <1>6, <1>7, <1>8, SybilKeepsBenchmark

\* A sybil's attestation, with its confirmation, challenge and verdict.
LEMMA FarmKeepsBenchmark ==
    ASSUME BenchmarkInv, Farm
    PROVE  BenchmarkInv'
  <1> DEFINE A == AttestsPerSybil
             F == Farmed
             q == F \div A
             sybil == q - 1
             turn == F % A
             last == F + 1
             peer == (sybil + 1 + (turn % Distinct)) % Sybils
             funded == IF turn = 0 THEN LockedFor(state, sybil) ELSE state
             attested == Attest(funded, sybil, 0)
             confirmed == IF UsesPeerRatings THEN Rate(attested, peer, sybil) ELSE attested
             challenged == Challenge(confirmed, last, Challenger(last))
  <1>1. Sound(state) /\ state \in States /\ F = Len(state.completions) /\ F \in Nat
    BY DEF BenchmarkInv, Sound, States, Farmed
  <1>2. A \in Nat \ {0} /\ Sybils \in Nat \ {0} /\ F >= A /\ F < A * (Sybils + 1)
    BY Numbers DEF Farm, FarmingSybils
  <1>3. q \in 1 .. Sybils
    <2>1. q \in Nat /\ A * q <= F /\ F < A * q + A
      BY <1>1, <1>2, Quotient
    <2> HIDE DEF q
    <2>2. q # 0
      BY <1>1, <1>2, <2>1
    <2>3. q <= Sybils
      <3>1. ASSUME Sybils + 1 <= q PROVE FALSE
        <4> DEFINE e == q - (Sybils + 1)
        <4>1. e \in Nat /\ q = (Sybils + 1) + e
          BY <1>2, <2>1, <3>1
        <4> HIDE DEF e
        <4>2. A * q = A * (Sybils + 1) + A * e
          BY <1>2, <4>1
        <4>3. A * q \in Int /\ A * (Sybils + 1) \in Int /\ A * e \in Nat
          BY <1>2, <2>1, <4>1
        <4> QED
          BY <1>1, <1>2, <2>1, <4>2, <4>3
      <3> QED
        BY <1>2, <2>1, <3>1
    <2> QED
      BY <2>1, <2>2, <2>3
  <1>4. sybil \in AgentIds
    <2>1. sybil \in -1 - A .. Sybils
      BY <1>2, <1>3
    <2> QED
      BY <2>1 DEF AgentIds
  <1>5. peer \in AgentIds
    <2>1. turn % Distinct \in Nat
      <3>1. turn \in Nat
        <4> HIDE DEF F, A
        <4>1. turn \in 0 .. A - 1 /\ A \in Nat
          BY <1>1, <1>2, Remainders
        <4> HIDE DEF turn
        <4> QED
          BY <4>1
      <3> HIDE DEF turn
      <3> QED
        BY <3>1, DistinctTypes, Remainders
    <2> DEFINE x == sybil + 1 + (turn % Distinct)
    <2>2. x \in Nat
      BY <1>3, <2>1
    <2> HIDE DEF x
    <2>3. x % Sybils \in 0 .. Sybils - 1
      BY <1>2, <2>2, Remainders
    <2>4. peer \in -1 - A .. Sybils
      BY <1>2, <2>3 DEF x
    <2> QED
      BY <2>4 DEF AgentIds
  <1>6. Challenger(last) \in AgentIds
    <2>1. A * (Sybils + 1) = Sybils * A + A /\ Sybils * A \in Int
      BY <1>2
    <2>2. last \in 1 .. Sybils * A + A
      BY <1>1, <1>2, <2>1
    <2> QED
      BY <2>2 DEF AgentIds
  <1>7. /\ state' = confirmed
           \/ \E upheld \in BOOLEAN : state' = Resolve(challenged, last, upheld)
        /\ scenario = "sybil" /\ UNCHANGED <<mechanism, scenario, horizon, day, outcome>>
    BY DEF Farm, FarmingSybils
  <1> HIDE DEF F, sybil, peer
  <1>8. Sound(funded) /\ funded.completions = state.completions
    BY <1>1, <1>4, LockedForSound
  <1> HIDE DEF funded, turn
  <1>9. Sound(attested) /\ Len(attested.completions) = F + 1
    <2>1. funded \in States
      BY <1>8 DEF Sound
    <2>2. 0 \in Nat
      OBVIOUS
    <2> DEFINE next == Attest(funded, sybil, 0)
    <2>3. Sound(next)
      BY <1>4, <1>8, <2>2, AttestSound
    <2>4. Len(next.completions) = Len(funded.completions) + 1
      BY <1>4, <2>1, <2>2, AttestIs
    <2> HIDE DEF next
    <2> QED
      BY <1>1, <1>8, <2>3, <2>4 DEF next
  <1> HIDE DEF attested
  <1>10. Sound(confirmed) /\ confirmed.completions = attested.completions
    <2>1. attested \in States
      BY <1>9 DEF Sound
    <2>2. Sound(Rate(attested, peer, sybil))
      BY <1>4, <1>5, <1>9, RateSound
    <2>3. Rate(attested, peer, sybil).completions = attested.completions
      BY <1>4, <1>5, <2>1, RateIs
    <2> QED
      BY <1>9, <2>2, <2>3
  <1> HIDE DEF confirmed
  <1>11. last \in DOMAIN confirmed.completions
    <2>1. confirmed.completions \in Seq(Completions)
      BY <1>10 DEF Sound, States
    <2> QED
      BY <1>1, <1>9, <1>10, <2>1
  <1> HIDE DEF last
  <1>12. Sound(challenged) /\ last \in DOMAIN challenged.completions
    BY <1>6, <1>10, <1>11, ChallengeSound
  <1> HIDE DEF challenged
  <1>13. Sound(state')
    BY <1>7, <1>10, <1>12, ResolveSound
  <1>14. mechanism # "none"
    BY <1>7 DEF BenchmarkInv
  <1> QED
    BY <1>7, <1>13, <1>14, SybilKeepsBenchmark

\* The attacker locks its capital.
LEMMA BeginSlowBurnKeepsBenchmark ==
    ASSUME BenchmarkInv, BeginSlowBurn
    PROVE  BenchmarkInv'
  <1> DEFINE bond == IF LocksCapital THEN CapitalRequired(TargetScore) ELSE CapabilityBond
             next == Lock(NewState, Attacker, bond)
             a == next.agents[Attacker]
  <1>1. /\ bond \in Nat /\ NewState \in States /\ Sound(NewState) /\ Attacker \in AgentIds
        /\ NewState.agents[Attacker] = NewAgent /\ NewState.completions = <<>>
    <2>1. bond \in Nat
      BY Numbers DEF CapitalRequired
    <2>2. Sound(NewState) /\ NewState \in States
      BY NewStateSound DEF Sound
    <2> QED
      BY <2>1, <2>2, Numbers DEF NewState
  <1> HIDE DEF bond
  <1>2. Sound(next)
    BY <1>1, LockSound
  <1>3. /\ next.completions = <<>>
        /\ a.completions = 0 /\ a.disputes = 0 /\ a.raters = {} /\ a.confirmed = 0
        /\ a.locked = bond
    <2>1. /\ next.completions = NewState.completions
          /\ a.completions = NewAgent.completions /\ a.disputes = NewAgent.disputes
          /\ a.raters = NewAgent.raters /\ a.confirmed = NewAgent.confirmed
          /\ a.locked = NewAgent.locked + bond
      <3> HIDE DEF next
      <3> QED
        BY <1>1, LockIs DEF next
    <2> QED
      BY <1>1, <2>1 DEF NewAgent
  <1> HIDE DEF next
  <1>4. /\ mechanism' = mechanism /\ mechanism # "none" /\ day' = 1 /\ day = 1
        /\ outcome' = "burning" /\ state' = next /\ scenario' = "slowBurn"
        /\ horizon' \in Nat
    BY Numbers DEF BenchmarkInv, BeginSlowBurn, next, bond
  <1>5. Confirmers(0) = {}
    BY Numbers DEF Confirmers
  <1>6. (1 - 1) * AttestsPerDay = 0 /\ (1 - 1) * AttestsPerDay + 0 = 0 /\ 0 < TargetScore
    BY Numbers
  <1>7. BurnedSo(a, 0)
    BY <1>3, <1>5, FS_EmptySet DEF BurnedSo, bond
  <1>8. Unchallenged(next)
    BY <1>3 DEF Unchallenged
  <1>9. OnDay(state, 0)'
    <2>1. /\ Sound(state)' /\ Unchallenged(state)'
          /\ BurnedSo(state.agents[Attacker], (day - 1) * AttestsPerDay + 0)'
      BY <1>2, <1>4, <1>6, <1>7, <1>8
         DEF BurnedSo, RequiresReceipts, UsesPeerRatings, LocksCapital, Confirmers, Recruited,
             CounterpartiesRequired
    <2> QED
      BY <2>1 DEF OnDay
  <1> QED
    BY <1>2, <1>4, <1>6, <1>9 DEF BenchmarkInv, Burning

\* A day of the slow burn, and the harvest when the score is reached.
LEMMA BurnDayKeepsBenchmark ==
    ASSUME BenchmarkInv, BurnDay
    PROVE  BenchmarkInv'
  <1> DEFINE A == AttestsPerDay
             burnt == Burnt[A]
             a == burnt.agents[Attacker]
             n == (day - 1) * A + A
  <1>1. /\ Burning /\ scenario = "slowBurn" /\ mechanism \in MechanismNames
        /\ day \in Nat \ {0} /\ OnDay(state, 0) /\ A \in Nat \ {0} /\ TargetScore \in Nat
        /\ Attacker \in AgentIds
    BY Numbers DEF BurnDay, Burning, BenchmarkInv
  <1>2. OnDay(burnt, A)
    BY <1>1, DayBurns
  <1>3. /\ n \in Nat /\ n = ((day + 1) - 1) * A /\ n = ((day + 1) - 1) * A + 0
    <2>1. (day + 1) - 1 = day /\ day * A = (day - 1) * A + A /\ (day - 1) * A \in Nat
      BY <1>1
    <2> QED
      BY <1>1, <2>1
  <1>4. \/ /\ ScoreOf(a, day) >= TargetScore
           /\ state' = Harvested(burnt) /\ outcome' = "harvested" /\ day' = day
        \/ /\ ~(ScoreOf(a, day) >= TargetScore)
           /\ state' = burnt /\ day' = day + 1 /\ outcome' = outcome
    BY DEF BurnDay
  <1>5. UNCHANGED <<mechanism, scenario, horizon>>
    BY DEF BurnDay
  <1> HIDE DEF burnt
  <1>6. /\ Sound(burnt) /\ Unchallenged(burnt) /\ BurnedSo(a, n)
        /\ a.last_activity = day /\ a \in AgentRecord
    BY <1>1, <1>2 DEF OnDay, Sound, States
  <1>7. CASE outcome' = "harvested"
    <2>1. state' = Harvested(burnt) /\ day' = day
      BY <1>1, <1>4, <1>7 DEF Burning
    <2>2. a.completions = n /\ IsFiniteSet(a.raters) /\ Cardinality(a.raters) <= n
          /\ a.confirmed <= n
      BY <1>3, <1>6 DEF BurnedSo
    <2>3. Sound(Harvested(burnt)) /\ Exposed(Harvested(burnt).agents[Attacker])
      BY <1>6, <2>2, HarvestSound
    <2>4. ~Burning'
      BY <1>7 DEF Burning
    <2> QED
      BY <1>1, <1>5, <1>7, <2>1, <2>3, <2>4 DEF BenchmarkInv
  <1>8. CASE outcome' # "harvested"
    <2>1. /\ ~(ScoreOf(a, day) >= TargetScore)
          /\ state' = burnt /\ day' = day + 1 /\ outcome' = outcome
      BY <1>4, <1>8
    <2>2. n < TargetScore
      <3> HIDE DEF n
      <3>1. ASSUME n >= TargetScore PROVE FALSE
        <4>1. ScoreOf(a, day) >= TargetScore
          BY <1>1, <1>3, <1>6, <3>1, TargetReached
        <4> QED
          BY <2>1, <4>1
      <3> QED
        BY <1>1, <1>3, <3>1
    <2>3. BurnedSo(state.agents[Attacker], (day - 1) * AttestsPerDay + 0)'
      <3>1. BurnedSo(state'.agents[Attacker], (day' - 1) * AttestsPerDay + 0)
        BY <1>3, <1>6, <2>1
      <3> QED
        BY <1>5, <3>1
           DEF BurnedSo, RequiresReceipts, UsesPeerRatings, LocksCapital, Confirmers, Recruited,
               CounterpartiesRequired
    <2>4. OnDay(state, 0)'
      BY <1>6, <2>1, <2>3 DEF OnDay
    <2> QED
      BY <1>1, <1>3, <1>5, <1>6, <2>1, <2>2, <2>4 DEF BenchmarkInv, Burning
  <1> QED
    BY <1>7, <1>8

\* BenchmarkInv holds of every reachable state.
LEMMA BenchmarkInvariance == BenchmarkSpec => []BenchmarkInv
  <1>1. BenchmarkInit => BenchmarkInv
    BY NewStateSound DEF BenchmarkInit, BenchmarkInv, Burning
  <1>2. BenchmarkInv /\ [BenchmarkNext]_benchmarkVars => BenchmarkInv'
    <2> SUFFICES ASSUME BenchmarkInv, [BenchmarkNext]_benchmarkVars
                 PROVE  BenchmarkInv'
      OBVIOUS
    <2>1. CASE ChooseMechanism
      <3>1. scenario = "none" /\ scenario' = "none"
        BY <2>1 DEF ChooseMechanism, BenchmarkInv
      <3> QED
        BY <2>1, <3>1 DEF ChooseMechanism, BenchmarkInv, Burning
    <2>2. CASE BeginSybil
      <3>1. Sound(state')
        BY <2>2, LockedForSound, Numbers DEF BeginSybil, BenchmarkInv
      <3> QED
        BY <2>2, <3>1, SybilKeepsBenchmark DEF BeginSybil, BenchmarkInv
    <2>3. CASE FarmHonestly
      BY <2>3, FarmHonestlyKeepsBenchmark
    <2>4. CASE Farm
      BY <2>4, FarmKeepsBenchmark
    <2>5. CASE BeginSlowBurn
      BY <2>5, BeginSlowBurnKeepsBenchmark
    <2>6. CASE BurnDay
      BY <2>6, BurnDayKeepsBenchmark
    <2>7. CASE GiveUp
      BY <2>7 DEF GiveUp, BenchmarkInv, Burning
    <2>8. CASE UNCHANGED benchmarkVars
      <3>1. (Burning => OnDay(state, 0))' 
        BY <2>8 DEF benchmarkVars, BenchmarkInv, Burning, OnDay, BurnedSo, RequiresReceipts,
                    UsesPeerRatings, LocksCapital, Confirmers, Recruited, CounterpartiesRequired
      <3> QED
        BY <2>8, <3>1 DEF benchmarkVars, BenchmarkInv, Burning
    <2> QED
      BY <2>1, <2>2, <2>3, <2>4, <2>5, <2>6, <2>7, <2>8 DEF BenchmarkNext
  <1> QED
    BY <1>1, <1>2, PTL DEF BenchmarkSpec

\* Whatever is attested, confirmed, locked, challenged, upheld, rejected or slashed, the
\* lamports by which the benchmark compares the mechanisms add up for every agent.
THEOREM LedgerAddsUp == BenchmarkSpec => []LedgerBalanced
  <1>1. BenchmarkInv => LedgerBalanced
    <2> SUFFICES ASSUME BenchmarkInv, NEW id \in AgentIds
                 PROVE  LET agent == state.agents[id]
                            pending == Challenged(id, FALSE, FALSE)
                            rejected == Challenged(id, TRUE, FALSE)
                        IN  /\ agent.spent = agent.fees + agent.slashed + Bond * pending
                            /\ agent.locked + agent.slashed
                                   = agent.capital + Bond * (pending + rejected)
      BY DEF LedgerBalanced
    <2>1. /\ state \in States
          /\ AddsUp(state.agents[id], Pending(state, id), Rejected(state, id))
      BY DEF BenchmarkInv, Sound
    <2>2. \A i \in DOMAIN state.completions : state.completions[i] \in Completions
      BY <2>1 DEF States
    <2>3. Challenged(id, FALSE, FALSE) = Pending(state, id)
      BY <2>2 DEF Challenged, Pending, ChallengesBy, Matches, Completions
    <2>4. Challenged(id, TRUE, FALSE) = Rejected(state, id)
      BY <2>2 DEF Challenged, Rejected, ChallengesBy, Matches, Completions
    <2> QED
      BY <2>1, <2>3, <2>4 DEF AddsUp
  <1> QED
    BY <1>1, BenchmarkInvariance, PTL

\* No mechanism keeps a patient attacker from its target once it has attested that often,
\* and every one that looks at disputes has nothing left for it after the harvest.
THEOREM TargetIsReachedThenLost == BenchmarkSpec => []TargetReachedThenLost
  <1>1. BenchmarkInv => TargetReachedThenLost
    <2> SUFFICES ASSUME BenchmarkInv
                 PROVE  TargetReachedThenLost
      OBVIOUS
    <2>1. ASSUME outcome = "harvested", mechanism # "naive_count"
          PROVE  ScoreOf(state.agents[Attacker], horizon) = 0
      <3>1. /\ state.agents[Attacker] \in AgentRecord /\ Exposed(state.agents[Attacker])
            /\ mechanism \in MechanismNames /\ horizon \in Nat
        BY <2>1, Numbers DEF BenchmarkInv, Sound, States
      <3> QED
        BY <2>1, <3>1, ExposedScoresNothing
    <2> QED
      BY <2>1 DEF BenchmarkInv, TargetReachedThenLost
  <1> QED
    BY <1>1, BenchmarkInvariance, PTL

-----------------------------------------------------------------------------
(***************************************************************************)
(* The collusion detectors.                                                *)
(***************************************************************************)


\* The n-core: the union of all that holds together with n neighbours each.
CoreSet(n) == UNION {set \in SUBSET Nodes : HoldsTogether(set, n)}

\* The constants of the collusion scenario.
LEMMA RingNumbers ==
    /\ RingSize \in Nat /\ RingSize >= 2 /\ HonestAgents \in Nat /\ HonestRatings \in Nat
    /\ ReciprocityPercent \in 0 .. 100 /\ CoreThreshold \in Nat \ {0}
  BY CollusionAssumption DEF CollusionAssumption

\* There are finitely many nodes...
LEMMA NodesFinite == IsFiniteSet(Nodes)
  <1>1. IsFiniteSet(0 .. RingSize - 1) /\ IsFiniteSet(1000 .. 1000 + HonestAgents)
    BY RingNumbers, FS_Interval
  <1>2. HonestOnes \in SUBSET (1000 .. 1000 + HonestAgents)
    <2>1. ASSUME NEW i \in 0 .. HonestAgents - 1
          PROVE  HonestAgent(i) \in 1000 .. 1000 + HonestAgents
      BY RingNumbers DEF HonestAgent
    <2> QED
      BY <2>1 DEF HonestOnes
  <1>3. IsFiniteSet(HonestOnes)
    <2> DEFINE S == 1000 .. 1000 + HonestAgents
    <2>1. IsFiniteSet(S) /\ HonestOnes \in SUBSET S
      BY <1>1, <1>2
    <2> HIDE DEF S
    <2> QED
      BY <2>1, FS_Subset
  <1> QED
    <2>1. IsFiniteSet(Ring)
      BY <1>1 DEF Ring
    <2> QED
      BY <1>3, <2>1, FS_Union DEF Nodes

\* ... so any of them can be counted.
LEMMA NodesCount ==
    ASSUME NEW set \in SUBSET Nodes
    PROVE  IsFiniteSet(set) /\ Cardinality(set) \in Nat
  BY NodesFinite, FS_Subset, FS_CardinalityType

\* Neighbours are nodes.
LEMMA NeighboursAreNodes ==
    ASSUME NEW node
    PROVE  Undirected(node) \in SUBSET Nodes
  BY DEF Undirected

\* Being neighbours is mutual.
LEMMA NeighboursMutual ==
    ASSUME NEW a \in Nodes, NEW b \in Nodes
    PROVE  a \in Undirected(b) <=> b \in Undirected(a)
  BY DEF Undirected

\* A pass visits every node, and nothing else.
LEMMA OrderCoversNodes ==
    /\ \A j \in 1 .. RingSize + HonestAgents : NodeOrder[j] \in Nodes
    /\ \A node \in Nodes : \E j \in 1 .. RingSize + HonestAgents : NodeOrder[j] = node
  <1>1. ASSUME NEW j \in 1 .. RingSize + HonestAgents PROVE NodeOrder[j] \in Nodes
    <2>1. CASE j <= RingSize
      <3>1. NodeOrder[j] = j - 1 /\ j - 1 \in 0 .. RingSize - 1
        BY <2>1, RingNumbers DEF NodeOrder
      <3> QED
        BY <3>1 DEF Nodes, Ring
    <2>2. CASE ~(j <= RingSize)
      <3>1. /\ NodeOrder[j] = HonestAgent(j - RingSize - 1)
            /\ j - RingSize - 1 \in 0 .. HonestAgents - 1
        BY <2>2, RingNumbers DEF NodeOrder
      <3> QED
        BY <3>1 DEF Nodes, HonestOnes
    <2> QED
      BY <2>1, <2>2
  <1>2. ASSUME NEW node \in Nodes
        PROVE  \E j \in 1 .. RingSize + HonestAgents : NodeOrder[j] = node
    <2>1. CASE node \in Ring
      <3>1. node + 1 \in 1 .. RingSize + HonestAgents /\ node + 1 <= RingSize
            /\ (node + 1) - 1 = node
        BY <2>1, RingNumbers DEF Ring
      <3> QED
        BY <3>1 DEF NodeOrder
    <2>2. CASE node \in HonestOnes
      <3>1. PICK i \in 0 .. HonestAgents - 1 : node = HonestAgent(i)
        BY <2>2 DEF HonestOnes
      <3> DEFINE j == RingSize + i + 1
      <3>2. /\ j \in 1 .. RingSize + HonestAgents /\ ~(j <= RingSize)
            /\ j - RingSize - 1 = i
        BY RingNumbers
      <3> HIDE DEF j
      <3>3. NodeOrder[j] = HonestAgent(i)
        BY <3>2 DEF NodeOrder
      <3> QED
        BY <3>1, <3>2, <3>3
    <2> QED
      BY <2>1, <2>2 DEF Nodes
  <1> QED
    BY <1>1, <1>2

-----------------------------------------------------------------------------
(* A round of the peeling: what is removed is in no n-core, and the degree of what is
   left counts the neighbours that are left. *)

PeelStates == [degree : [Nodes -> Int], removed : SUBSET Nodes]

PeeledRight(peeled, n) ==
    /\ peeled \in PeelStates
    /\ \A node \in Nodes \ peeled.removed :
           peeled.degree[node] = Cardinality(Undirected(node) \ peeled.removed)
    /\ \A set \in SUBSET Nodes : HoldsTogether(set, n) => set \cap peeled.removed = {}

\* A visit leaves degrees and removed nodes behind.
LEMMA VisitTypes ==
    ASSUME NEW peeled \in PeelStates, NEW node \in Nodes
    PROVE  Visit(peeled, node) \in PeelStates
  <1> DEFINE gone == peeled.removed \cup {node}
             left == [other \in Nodes |->
                  peeled.degree[other]
                      - (IF other \in Undirected(node) \ gone THEN 1 ELSE 0)]
  <1>1. gone \in SUBSET Nodes
    BY DEF PeelStates
  <1>2. left \in [Nodes -> Int]
    BY DEF PeelStates
  <1>3. [removed |-> gone, degree |-> left] \in PeelStates
    BY <1>1, <1>2 DEF PeelStates
  <1>4. Visit(peeled, node) = peeled \/ Visit(peeled, node) = [removed |-> gone, degree |-> left]
    BY DEF Visit
  <1> QED
    BY <1>3, <1>4

\* A visit keeps the peeling right, and removes nothing only when there is nothing to
\* remove.
LEMMA VisitPeelsRight ==
    ASSUME NEW peeled, PeeledRight(peeled, k), NEW node \in Nodes, k \in Nat
    PROVE  LET next == Visit(peeled, node)
           IN  /\ PeeledRight(next, k) /\ peeled.removed \subseteq next.removed
               /\ next.removed = peeled.removed =>
                      next = peeled /\ (node \in peeled.removed \/ peeled.degree[node] >= k)
  <1> DEFINE next == Visit(peeled, node)
             gone == peeled.removed \cup {node}
  <1>0. peeled \in PeelStates
    BY DEF PeeledRight
  <1>1. CASE node \in peeled.removed \/ peeled.degree[node] >= k
    <2>1. next = peeled
      BY <1>1 DEF Visit
    <2> QED
      BY <1>1, <2>1
  <1>2. CASE ~(node \in peeled.removed \/ peeled.degree[node] >= k)
    <2>1. /\ next.removed = gone
          /\ \A other \in Nodes : next.degree[other] =
                peeled.degree[other] - (IF other \in Undirected(node) \ gone THEN 1 ELSE 0)
      BY <1>2 DEF Visit
    <2>2. next \in PeelStates
      BY <1>0, VisitTypes
    <2> HIDE DEF next
    <2>3. ASSUME NEW other \in Nodes \ gone
          PROVE  next.degree[other] = Cardinality(Undirected(other) \ gone)
      <3> DEFINE A == Undirected(other) \ peeled.removed
                 B == Undirected(other) \ gone
      <3>1. IsFiniteSet(A) /\ Cardinality(A) \in Nat
        <4>1. A \in SUBSET Nodes
          BY NeighboursAreNodes
        <4> QED
          BY <4>1, NodesCount
      <3>2. peeled.degree[other] = Cardinality(A)
        BY DEF PeeledRight
      <3>3. B = A \ {node}
        OBVIOUS
      <3>4. node \in A <=> other \in Undirected(node) \ gone
        BY <1>2, NeighboursMutual
      <3> HIDE DEF A, B
      <3>5. Cardinality(B) = (IF node \in A THEN Cardinality(A) - 1 ELSE Cardinality(A))
        BY <3>1, <3>3, FS_RemoveElement
      <3>6. next.degree[other] =
                Cardinality(A) - (IF other \in Undirected(node) \ gone THEN 1 ELSE 0)
        BY <2>1, <3>2
      <3>7. CASE node \in A
        BY <3>1, <3>4, <3>5, <3>6, <3>7 DEF B
      <3>8. CASE node \notin A
        BY <3>1, <3>4, <3>5, <3>6, <3>8 DEF B
      <3> QED
        BY <3>7, <3>8
    <2>4. ASSUME NEW set \in SUBSET Nodes, HoldsTogether(set, k) PROVE set \cap gone = {}
      <3>1. set \cap peeled.removed = {}
        BY <2>4 DEF PeeledRight
      <3>2. ASSUME node \in set PROVE FALSE
        <4> DEFINE A == Undirected(node) \ peeled.removed
                   B == Undirected(node) \cap set
        <4>1. IsFiniteSet(A) /\ Cardinality(A) \in Nat /\ A \in SUBSET Nodes
          <5>1. A \in SUBSET Nodes
            BY NeighboursAreNodes
          <5> QED
            BY <5>1, NodesCount
        <4>2. B \in SUBSET A
          BY <3>1
        <4>3. peeled.degree[node] = Cardinality(A)
          BY <1>2 DEF PeeledRight
        <4>4. Cardinality(B) >= k
          BY <2>4, <3>2 DEF HoldsTogether
        <4> HIDE DEF A, B
        <4>5. Cardinality(B) \in Nat /\ Cardinality(B) <= Cardinality(A)
          BY <4>1, <4>2, FS_Subset, FS_CardinalityType
        <4>6. ~(Cardinality(A) >= k)
          BY <1>2, <4>3
        <4> QED
          BY <4>1, <4>4, <4>5, <4>6
      <3> QED
        BY <3>1, <3>2
    <2>5. PeeledRight(next, k)
      BY <2>1, <2>2, <2>3, <2>4 DEF PeeledRight
    <2> QED
      BY <1>2, <2>1, <2>5 DEF next
  <1> QED
    BY <1>1, <1>2

Start == [degree |-> degree, removed |-> removed]
Length == RingSize + HonestAgents

\* Peeled satisfies its own definition.
LEMMA PeeledEquation ==
    ASSUME Start \in PeelStates
    PROVE  /\ Peeled[0] = Start
           /\ \A i \in 0 .. Length - 1 : Peeled[i + 1] = Visit(Peeled[i], NodeOrder[i + 1])
  <1> DEFINE step == [i \in Nat |-> [p \in PeelStates |->
                        IF i \in 0 .. Length - 1 THEN Visit(p, NodeOrder[i + 1]) ELSE p]]
  <1>1. Length \in Nat
    BY RingNumbers DEF Length
  <1>2. step \in [Nat -> [PeelStates -> PeelStates]]
    <2>1. ASSUME NEW i \in Nat, NEW p \in PeelStates, i \in 0 .. Length - 1
          PROVE  Visit(p, NodeOrder[i + 1]) \in PeelStates
      <3>1. i + 1 \in 1 .. RingSize + HonestAgents
        BY <1>1, <2>1 DEF Length
      <3>2. NodeOrder[i + 1] \in Nodes
        BY <3>1, OrderCoversNodes
      <3> QED
        BY <3>2, VisitTypes
    <2>2. ASSUME NEW i \in Nat, NEW p \in PeelStates
          PROVE  (IF i \in 0 .. Length - 1 THEN Visit(p, NodeOrder[i + 1]) ELSE p) \in PeelStates
      BY <2>1
    <2> QED
      BY <2>2
  <1> HIDE DEF step
  <1>3. PICK g \in [Nat -> PeelStates] : Iterates(g, Start, step)
    BY <1>2, Recursion
  <1> DEFINE f == [i \in 0 .. Length |-> g[i]]
  <1>4. g[0] = Start /\ \A i \in 0 .. Length - 1 : g[i + 1] = Visit(g[i], NodeOrder[i + 1])
    <2>1. g[0] = Start /\ \A i \in Nat : g[i + 1] = step[i][g[i]]
      BY <1>3 DEF Iterates
    <2>2. ASSUME NEW i \in 0 .. Length - 1
          PROVE  i \in Nat /\ g[i] \in PeelStates /\ step[i][g[i]] = Visit(g[i], NodeOrder[i + 1])
      <3>1. i \in Nat /\ g[i] \in PeelStates
        BY <1>1, <1>3
      <3> QED
        BY <3>1 DEF step
    <2> QED
      BY <2>1, <2>2
  <1>5. f[0] = Start /\ \A i \in 0 .. Length - 1 : f[i + 1] = Visit(f[i], NodeOrder[i + 1])
    BY <1>1, <1>4
  <1>6. ASSUME NEW i \in 0 .. Length
        PROVE  f[i] = IF i = 0 THEN Start ELSE Visit(f[i - 1], NodeOrder[i])
    <2> HIDE DEF f
    <2>1. CASE i # 0
      <3>1. i - 1 \in 0 .. Length - 1 /\ (i - 1) + 1 = i
        BY <1>1, <2>1
      <3> QED
        BY <1>5, <2>1, <3>1
    <2> QED
      BY <1>5, <2>1
  <1>7. f = [i \in 0 .. Length |-> IF i = 0 THEN Start ELSE Visit(f[i - 1], NodeOrder[i])]
    <2>1. f = [i \in 0 .. Length |-> f[i]]
      OBVIOUS
    <2> HIDE DEF f
    <2> QED
      BY <1>6, <2>1
  <1> HIDE DEF f
  <1>8. Peeled = [i \in 0 .. Length |-> IF i = 0 THEN Start ELSE Visit(Peeled[i - 1], NodeOrder[i])]
    BY <1>7 DEF Peeled, Length, Start
  <1>9. ASSUME NEW i \in 0 .. Length - 1
        PROVE  Peeled[i + 1] = Visit(Peeled[i], NodeOrder[i + 1])
    <2>1. i + 1 \in 0 .. Length /\ i + 1 # 0 /\ (i + 1) - 1 = i
      BY <1>1
    <2> QED
      BY <1>8, <2>1
  <1>10. Peeled[0] = Start
    <2>1. 0 \in 0 .. Length
      BY <1>1
    <2> QED
      BY <1>8, <2>1
  <1> QED
    BY <1>9, <1>10

\* A pass peels right, and one that removes nothing shows that there is nothing left to.
LEMMA PassPeelsRight ==
    ASSUME PeeledRight(Start, k), k \in Nat
    PROVE  /\ PeeledRight(Pass, k)
           /\ Pass.removed = removed => \A node \in Nodes \ removed : degree[node] >= k
  <1> DEFINE Fine(i) ==
               /\ PeeledRight(Peeled[i], k) /\ removed \subseteq Peeled[i].removed
               /\ Peeled[i].removed = removed =>
                      /\ Peeled[i] = Start
                      /\ \A j \in 1 .. i : NodeOrder[j] \in removed \/ degree[NodeOrder[j]] >= k
             good == {i \in Nat : i <= Length => Fine(i)}
  <1>1. Length \in Nat /\ Start \in PeelStates /\ Start.removed = removed /\ Start.degree = degree
    BY RingNumbers DEF PeeledRight, Length, Start
  <1>2. 0 \in good
    BY <1>1, PeeledEquation
  <1>3. ASSUME NEW i \in Nat, i \in good PROVE i + 1 \in good
    <2> SUFFICES ASSUME i + 1 <= Length PROVE Fine(i + 1)
      OBVIOUS
    <2> DEFINE p == Peeled[i]
               node == NodeOrder[i + 1]
               next == Peeled[i + 1]
    <2>1. i \in 0 .. Length - 1 /\ i + 1 \in 1 .. RingSize + HonestAgents /\ Fine(i)
      BY <1>1, <1>3 DEF Length
    <2>2. next = Visit(p, node) /\ node \in Nodes
      BY <1>1, <2>1, PeeledEquation, OrderCoversNodes
    <2>3. /\ PeeledRight(p, k) /\ removed \subseteq p.removed
          /\ p.removed = removed =>
                 /\ p = Start
                 /\ \A j \in 1 .. i : NodeOrder[j] \in removed \/ degree[NodeOrder[j]] >= k
      BY <2>1
    <2> HIDE DEF p, node, next
    <2>4. /\ PeeledRight(next, k) /\ p.removed \subseteq next.removed
          /\ next.removed = p.removed =>
                 next = p /\ (node \in p.removed \/ p.degree[node] >= k)
      BY <2>2, <2>3, VisitPeelsRight
    <2>5. ASSUME next.removed = removed
          PROVE  /\ next = Start
                 /\ \A j \in 1 .. i + 1 : NodeOrder[j] \in removed \/ degree[NodeOrder[j]] >= k
      <3>1. p.removed = removed
        BY <2>3, <2>4, <2>5
      <3>2. next = Start /\ (node \in removed \/ degree[node] >= k)
        BY <1>1, <2>3, <2>4, <2>5, <3>1
      <3>3. ASSUME NEW j \in 1 .. i + 1 PROVE NodeOrder[j] \in removed \/ degree[NodeOrder[j]] >= k
        <4>1. CASE j = i + 1
          BY <3>2, <4>1 DEF node
        <4>2. CASE j # i + 1
          <5>1. j \in 1 .. i
            BY <4>2
          <5> QED
            BY <2>3, <3>1, <5>1
        <4> QED
          BY <4>1, <4>2
      <3> QED
        BY <3>2, <3>3
    <2> QED
      BY <2>3, <2>4, <2>5 DEF next
  <1>4. Fine(Length)
    <2>1. Nat \subseteq good
      <3> HIDE DEF good
      <3> QED
        BY <1>2, <1>3, SetInduction
    <2> QED
      BY <1>1, <2>1
  <1>5. Pass = Peeled[Length]
    BY DEF Pass, Length
  <1>6. ASSUME Pass.removed = removed, NEW node \in Nodes \ removed PROVE degree[node] >= k
    <2>1. PICK j \in 1 .. Length : NodeOrder[j] = node
      BY OrderCoversNodes DEF Length
    <2> QED
      BY <1>4, <1>5, <1>6, <2>1
  <1> QED
    BY <1>4, <1>5, <1>6

\* A core for a higher degree is part of that for a lower one.
LEMMA CoresShrink ==
    ASSUME NEW m \in Int, NEW n \in Int, m <= n
    PROVE  CoreSet(n) \subseteq CoreSet(m)
  <1>1. ASSUME NEW set \in SUBSET Nodes, HoldsTogether(set, n) PROVE HoldsTogether(set, m)
    <2>1. ASSUME NEW node \in set PROVE Cardinality(Undirected(node) \cap set) >= m
      <3>1. Cardinality(Undirected(node) \cap set) \in Nat
        <4>1. Undirected(node) \cap set \in SUBSET Nodes
          BY NeighboursAreNodes
        <4> QED
          BY <4>1, NodesCount
      <3>2. Cardinality(Undirected(node) \cap set) >= n
        BY <1>1 DEF HoldsTogether
      <3> QED
        BY <3>1, <3>2
    <2> QED
      BY <2>1 DEF HoldsTogether
  <1> QED
    BY <1>1 DEF CoreSet

\* When nothing is left to peel, what is left is the core.
LEMMA SurvivorsAreCore ==
    ASSUME NEW peeled, NEW n, PeeledRight(peeled, n),
           \A node \in Nodes \ peeled.removed : peeled.degree[node] >= n
    PROVE  CoreSet(n) = Nodes \ peeled.removed
  <1> DEFINE left == Nodes \ peeled.removed
  <1>1. HoldsTogether(left, n)
    <2>1. ASSUME NEW node \in left PROVE Cardinality(Undirected(node) \cap left) >= n
      <3>1. Undirected(node) \cap left = Undirected(node) \ peeled.removed
        BY NeighboursAreNodes
      <3> QED
        BY <3>1 DEF PeeledRight
    <2> QED
      BY <2>1 DEF HoldsTogether
  <1>2. ASSUME NEW set \in SUBSET Nodes, HoldsTogether(set, n) PROVE set \subseteq left
    BY <1>2 DEF PeeledRight
  <1>3. left \in SUBSET Nodes
    OBVIOUS
  <1> HIDE DEF left
  <1>4. CoreSet(n) = left
    BY <1>1, <1>2, <1>3 DEF CoreSet
  <1> QED
    BY <1>4 DEF left

\* There is a largest degree.
LEMMA MaxDegreeTypes ==
    ASSUME Nodes # {}
    PROVE  MaxDegree \in Nat
  <1> DEFINE D == {Degree(node) : node \in Nodes}
             b == Cardinality(Nodes)
             S == {n \in Nat : \E d \in D : n = b - d}
  <1>1. IsFiniteSet(Nodes) /\ b \in Nat
    BY NodesCount
  <1>2. \A d \in D : d \in Nat /\ d <= b
    <2>1. ASSUME NEW node \in Nodes PROVE Degree(node) \in Nat /\ Degree(node) <= b
      BY <1>1, NeighboursAreNodes, NodesCount, FS_Subset DEF Degree
    <2> QED
      BY <2>1
  <1>3. D # {}
    OBVIOUS
  <1> HIDE DEF D, b
  <1>4. S # {} /\ S \in SUBSET Nat
    <2>1. PICK d \in D : TRUE
      BY <1>3
    <2>2. b - d \in Nat
      BY <1>1, <1>2
    <2> QED
      BY <2>1, <2>2
  <1>5. PICK n \in S : \A m \in S : n <= m
    <2> HIDE DEF S
    <2> QED
      BY <1>4, LeastNumber
  <1>6. PICK d \in D : n = b - d
    OBVIOUS
  <1>7. ASSUME NEW e \in D PROVE d >= e
    <2>1. b - e \in S
      BY <1>1, <1>2
    <2>2. n <= b - e
      BY <1>5, <2>1
    <2> QED
      BY <1>1, <1>2, <1>6, <2>2
  <1>8. Max(D) \in D
    BY <1>7 DEF Max
  <1> QED
    BY <1>2, <1>8 DEF MaxDegree, D

-----------------------------------------------------------------------------
CollusionInv ==
    /\ rated \in Nat /\ k \in Nat
    /\ degree \in [Nodes -> Int] /\ removed \in SUBSET Nodes /\ core \in [Nodes -> Nat]
    /\ edges # {} => Nodes # {}
    /\ k > 0 => GraphBuilt /\ PeeledRight(Start, k)
    /\ \A node \in Nodes : core[node] = 0 \/ core[node] <= k - 1
    /\ \A n \in 1 .. k - 1 : {node \in Nodes : core[node] >= n} = CoreSet(n)

\* A round starts with nothing removed.
LEMMA NoneRemoved ==
    ASSUME NEW n
    PROVE  PeeledRight([degree |-> [node \in Nodes |-> Degree(node)], removed |-> {}], n)
  <1>1. ASSUME NEW node \in Nodes PROVE Degree(node) \in Int /\ Undirected(node) \ {} = Undirected(node)
    BY NeighboursAreNodes, NodesCount DEF Degree
  <1> QED
    BY <1>1 DEF PeeledRight, PeelStates, Degree

\* What is said of the graph changes only with its edges.
LEMMA SameGraph ==
    ASSUME UNCHANGED edges
    PROVE  /\ \A node : Undirected(node)' = Undirected(node)
           /\ \A set, n : HoldsTogether(set, n)' <=> HoldsTogether(set, n)
           /\ \A n : CoreSet(n)' = CoreSet(n)
  <1>1. \A node : Undirected(node)' = Undirected(node)
    BY DEF Undirected
  <1>2. \A set, n : HoldsTogether(set, n)' <=> HoldsTogether(set, n)
    BY <1>1 DEF HoldsTogether
  <1>3. ASSUME NEW n PROVE CoreSet(n)' = CoreSet(n)
    BY <1>2 DEF CoreSet
  <1> QED
    BY <1>1, <1>2, <1>3

\* The first round begins.
LEMMA BeginKeepsCollusion ==
    ASSUME CollusionInv, BeginPeeling
    PROVE  CollusionInv'
  <1>1. /\ GraphBuilt /\ k = 0 /\ k' = 1 /\ removed' = {}
        /\ degree' = [node \in Nodes |-> Degree(node)]
        /\ UNCHANGED <<edges, rated, core>>
    BY DEF BeginPeeling, Round
  <1>2. \A node \in Nodes : Degree(node) \in Int
    BY NeighboursAreNodes, NodesCount DEF Degree
  <1>3. PeeledRight([degree |-> degree', removed |-> removed'], 1)
    BY <1>1, NoneRemoved
  <1>4. PeeledRight(Start, k)'
    BY <1>1, <1>3 DEF PeeledRight, Start, HoldsTogether, Undirected
  <1>5. GraphBuilt'
    BY <1>1 DEF GraphBuilt
  <1> QED
    <2>1. \A n \in 1 .. k' - 1 : FALSE
      BY <1>1
    <2>2. degree' \in [Nodes -> Int] /\ removed' \in SUBSET Nodes
      BY <1>1, <1>2
    <2>3. \A node \in Nodes : core'[node] <= k' - 1
      BY <1>1 DEF CollusionInv
    <2> QED
      BY <1>1, <1>4, <1>5, <2>1, <2>2, <2>3 DEF CollusionInv

\* A pass that removes something.
LEMMA PeelKeepsCollusion ==
    ASSUME CollusionInv, PeelOnce
    PROVE  CollusionInv'
  <1>1. /\ degree' = Pass.degree /\ removed' = Pass.removed
        /\ k \in Nat /\ k > 0 /\ UNCHANGED <<edges, rated, k, core>>
    BY DEF PeelOnce, Peeling, CollusionInv
  <1>2. PeeledRight(Start, k)
    BY <1>1 DEF CollusionInv
  <1>3. PeeledRight(Pass, k)
    BY <1>1, <1>2, PassPeelsRight
  <1>4. /\ Pass \in PeelStates /\ degree' \in [Nodes -> Int] /\ removed' \in SUBSET Nodes
    BY <1>1, <1>3 DEF PeeledRight, PeelStates
  <1>5. Pass = [degree |-> degree', removed |-> removed']
    BY <1>1, <1>4 DEF PeelStates
  <1>6. PeeledRight([degree |-> degree', removed |-> removed'], k)
    BY <1>3, <1>5
  <1>7. PeeledRight(Start, k)'
    BY <1>1, <1>6, SameGraph DEF PeeledRight, PeelStates, Start
  <1>8. GraphBuilt'
    <2>1. GraphBuilt
      BY <1>1 DEF CollusionInv
    <2> QED
      BY <1>1, <2>1 DEF GraphBuilt
  <1>9. \A n : CoreSet(n)' = CoreSet(n)
    BY <1>1, SameGraph
  <1> QED
    BY <1>1, <1>4, <1>7, <1>8, <1>9 DEF CollusionInv

\* A pass that removes nothing: the nodes that are left have survived the round.
LEMMA EndKeepsCollusion ==
    ASSUME CollusionInv, EndRound
    PROVE  CollusionInv'
  <1>1. /\ Pass.removed = removed /\ k \in Nat /\ k > 0
        /\ core' = [node \in Nodes |-> IF node \in removed THEN core[node] ELSE k]
        /\ k' = k + 1 /\ removed' = {}
        /\ degree' = [node \in Nodes |-> Degree(node)]
        /\ UNCHANGED <<edges, rated>>
    BY DEF EndRound, Round, Peeling, CollusionInv
  <1>2. PeeledRight(Start, k) /\ GraphBuilt
    BY <1>1 DEF CollusionInv
  <1>3. CoreSet(k) = Nodes \ removed
    <2>1. \A node \in Nodes \ removed : degree[node] >= k
      BY <1>1, <1>2, PassPeelsRight
    <2>2. Start.removed = removed /\ Start.degree = degree
      BY DEF Start
    <2> HIDE DEF Start
    <2> QED
      BY <1>2, <2>1, <2>2, SurvivorsAreCore
  <1>4. \A node \in Nodes : Degree(node) \in Int
    BY NeighboursAreNodes, NodesCount DEF Degree
  <1>5. PeeledRight([degree |-> degree', removed |-> removed'], k')
    BY <1>1, NoneRemoved
  <1>6. PeeledRight(Start, k)'
    BY <1>1, <1>5 DEF PeeledRight, Start, HoldsTogether, Undirected
  <1>7. GraphBuilt'
    BY <1>1, <1>2 DEF GraphBuilt
  <1>8. \A n : CoreSet(n)' = CoreSet(n)
    BY <1>1, SameGraph
  <1>9. core \in [Nodes -> Nat] /\ \A node \in Nodes : core[node] = 0 \/ core[node] <= k - 1
    BY <1>1 DEF CollusionInv
  <1>10. core' \in [Nodes -> Nat] /\ \A node \in Nodes : core'[node] = 0 \/ core'[node] <= k' - 1
    BY <1>1, <1>9
  <1>11. ASSUME NEW n \in 1 .. k' - 1
         PROVE  {node \in Nodes : core'[node] >= n} = CoreSet(n)
    <2>1. n \in Int /\ n <= k /\ n \in 1 .. k
      BY <1>1
    <2>2. CASE n = k
      <3>1. ASSUME NEW node \in Nodes PROVE core'[node] >= n <=> node \notin removed
        BY <1>1, <1>9, <2>1, <2>2
      <3> QED
        BY <1>3, <2>2, <3>1
    <2>3. CASE n # k
      <3>1. n \in 1 .. k - 1
        BY <1>1, <2>1, <2>3
      <3>2. {node \in Nodes : core[node] >= n} = CoreSet(n)
        BY <3>1 DEF CollusionInv
      <3>3. Nodes \ removed \subseteq CoreSet(n)
        BY <1>1, <1>3, <2>1, CoresShrink
      <3>4. ASSUME NEW node \in Nodes PROVE core'[node] >= n <=> node \in CoreSet(n)
        <4>1. core[node] >= n <=> node \in CoreSet(n)
          BY <3>2
        <4> QED
          BY <1>1, <2>1, <3>3, <4>1
      <3>5. CoreSet(n) \subseteq Nodes
        BY DEF CoreSet
      <3> QED
        BY <3>4, <3>5
    <2> QED
      BY <2>2, <2>3
  <1>12. degree' \in [Nodes -> Int]
    BY <1>1, <1>4
  <1>13. (\A n \in 1 .. k - 1 : {node \in Nodes : core[node] >= n} = CoreSet(n))'
    BY <1>8, <1>11
  <1>14. /\ rated' \in Nat /\ k' \in Nat /\ removed' \in SUBSET Nodes
         /\ edges' # {} => Nodes # {}
    BY <1>1 DEF CollusionInv
  <1> QED
    BY <1>6, <1>7, <1>10, <1>12, <1>13, <1>14 DEF CollusionInv

\* CollusionInv holds of every reachable state.
LEMMA CollusionInvariance == CollusionSpec => []CollusionInv
  <1>1. CollusionInit => CollusionInv
    BY DEF CollusionInit, CollusionInv
  <1>2. CollusionInv /\ [CollusionNext]_collusionVars => CollusionInv'
    <2> SUFFICES ASSUME CollusionInv, [CollusionNext]_collusionVars
                 PROVE  CollusionInv'
      OBVIOUS
    <2>1. CASE RateInRing
      <3>1. k = 0 /\ k' = 0
        <4>1. edges = {} /\ k' = k
          BY <2>1 DEF RateInRing
        <4> QED
          BY <4>1 DEF CollusionInv, GraphBuilt
      <3>2. edges' # {} => Nodes # {}
        BY <2>1 DEF RateInRing, Nodes
      <3> QED
        BY <2>1, <3>1, <3>2 DEF RateInRing, CollusionInv
    <2>2. CASE RateHonestly
      <3>1. k = 0 /\ k' = 0 /\ Nodes # {} /\ rated' \in Nat
        <4>1. edges # {} /\ rated < HonestAgents * HonestRatings /\ k' = k /\ rated' = rated + 1
          BY <2>2 DEF RateHonestly
        <4>2. rated # HonestAgents * HonestRatings
          BY <4>1, RingNumbers DEF CollusionInv
        <4> QED
          BY <4>1, <4>2 DEF CollusionInv, GraphBuilt
      <3> QED
        BY <2>2, <3>1 DEF RateHonestly, CollusionInv
    <2>3. CASE BeginPeeling
      BY <2>3, BeginKeepsCollusion
    <2>4. CASE PeelOnce
      BY <2>4, PeelKeepsCollusion
    <2>5. CASE EndRound
      BY <2>5, EndKeepsCollusion
    <2>6. CASE UNCHANGED collusionVars
      <3>1. UNCHANGED <<edges, rated, k, degree, removed, core>>
        BY <2>6 DEF collusionVars
      <3>2. PeeledRight(Start, k) => PeeledRight(Start, k)'
        BY <3>1, SameGraph DEF PeeledRight, Start
      <3>3. GraphBuilt => GraphBuilt'
        BY <3>1 DEF GraphBuilt
      <3>4. \A n : CoreSet(n)' = CoreSet(n)
        BY <3>1, SameGraph
      <3> QED
        BY <3>1, <3>2, <3>3, <3>4 DEF CollusionInv
    <2> QED
      BY <2>1, <2>2, <2>3, <2>4, <2>5, <2>6 DEF CollusionNext
  <1> QED
    BY <1>1, <1>2, PTL DEF CollusionSpec

\* When the detector is done, its core numbers are those of the textbook.
LEMMA CoresAreExact ==
    ASSUME CollusionInv, Detected, Nodes # {}
    PROVE  /\ MaxDegree \in Nat /\ GraphBuilt
           /\ \A n \in 1 .. MaxDegree : {node \in Nodes : core[node] >= n} = CoreSet(n)
           /\ core \in [Nodes -> Nat]
           /\ \A node \in Nodes : core[node] = 0 \/ core[node] <= MaxDegree
  <1>1. MaxDegree \in Nat /\ k = MaxDegree + 1
    BY MaxDegreeTypes DEF Detected
  <1>2. k > 0 /\ k - 1 = MaxDegree
    BY <1>1
  <1> QED
    BY <1>1, <1>2 DEF CollusionInv

\* The detector's peeling, with the degrees it counts down, ends with the core numbers of
\* the textbook, whatever the graph and the order in which its nodes are visited.
THEOREM PeelingIsExact == CollusionSpec => []KCoreExact
  <1>1. CollusionInv => KCoreExact
    <2> SUFFICES ASSUME CollusionInv, Detected
                 PROVE  \A n \in 1 .. MaxDegree : {node \in Nodes : core[node] >= n} = CoreSet(n)
      BY DEF KCoreExact, CoreSet
    <2>1. CASE Nodes = {}
      BY <2>1 DEF CoreSet
    <2>2. CASE Nodes # {}
      BY <2>2, CoresAreExact
    <2> QED
      BY <2>1, <2>2
  <1> QED
    BY <1>1, CollusionInvariance, PTL

-----------------------------------------------------------------------------
\* Nobody rates across the border of the ring, and within it everybody rates everybody.
RingApart ==
    \A a, b : a \in Ring \/ b \in Ring =>
        (<<a, b>> \in edges <=> edges # {} /\ a \in Ring /\ b \in Ring /\ a # b)

\* No honest agent has the number of a ring member.
LEMMA HonestAgentsApart ==
    ASSUME RingSize <= 1000, NEW i \in Nat
    PROVE  HonestAgent(i) \notin Ring
  BY RingNumbers DEF HonestAgent, Ring

\* RingApart holds of every reachable state.
LEMMA RingStaysApart ==
    ASSUME RingSize <= 1000
    PROVE  CollusionSpec => []RingApart
  <1>1. CollusionInit => RingApart
    BY DEF CollusionInit, RingApart
  <1>2. CollusionInv /\ RingApart /\ [CollusionNext]_collusionVars => RingApart'
    <2> SUFFICES ASSUME CollusionInv, RingApart, [CollusionNext]_collusionVars
                 PROVE  RingApart'
      OBVIOUS
    <2>1. CASE RateInRing
      <3>1. edges' = {pair \in Ring \X Ring : pair[1] # pair[2]}
        BY <2>1 DEF RateInRing
      <3>2. \A a, b : <<a, b>> \in edges' <=> a \in Ring /\ b \in Ring /\ a # b
        BY <3>1
      <3> QED
        BY <3>2 DEF RingApart
    <2>2. CASE RateHonestly
      <3> DEFINE q == rated \div HonestRatings
                 from == HonestAgent(q)
      <3>1. PICK to \in HonestOnes \ {from} : edges' = edges \cup {<<from, to>>}
        BY <2>2 DEF RateHonestly
      <3>2. edges # {} /\ rated \in Nat /\ rated < HonestAgents * HonestRatings
        BY <2>2 DEF RateHonestly, CollusionInv
      <3>3. HonestRatings \in Nat \ {0}
        <4>1. ASSUME HonestRatings = 0 PROVE FALSE
          <5>1. HonestAgents * HonestRatings = 0
            BY <4>1, RingNumbers
          <5> QED
            BY <3>2, <5>1
        <4> QED
          BY <4>1, RingNumbers
      <3>4. q \in Nat
        BY <3>2, <3>3, Quotient
      <3> HIDE DEF q
      <3>5. from \notin Ring
        BY <3>4, HonestAgentsApart
      <3>6. to \notin Ring
        <4>1. PICK i \in 0 .. HonestAgents - 1 : to = HonestAgent(i)
          BY DEF HonestOnes
        <4>2. i \in Nat
          BY RingNumbers
        <4> QED
          BY <4>1, <4>2, HonestAgentsApart
      <3> HIDE DEF from
      <3>7. ASSUME NEW a, NEW b, a \in Ring \/ b \in Ring
            PROVE  <<a, b>> \in edges' <=> <<a, b>> \in edges
        BY <3>1, <3>5, <3>6, <3>7
      <3>8. edges' # {}
        BY <3>1
      <3> QED
        BY <3>2, <3>7, <3>8 DEF RingApart
    <2>3. CASE UNCHANGED edges
      BY <2>3 DEF RingApart
    <2>4. UNCHANGED edges \/ RateInRing \/ RateHonestly
      BY DEF CollusionNext, BeginPeeling, PeelOnce, EndRound, collusionVars
    <2> QED
      BY <2>1, <2>2, <2>3, <2>4
  <1> QED
    BY <1>1, <1>2, CollusionInvariance, PTL DEF CollusionSpec

\* Whom a node rates can be counted.
LEMMA RatedSets ==
    ASSUME NEW node
    PROVE  /\ IsFiniteSet(Outgoing(node)) /\ Cardinality(Outgoing(node)) \in Nat
           /\ IsFiniteSet(ReciprocalPartners(node))
           /\ Cardinality(ReciprocalPartners(node)) \in Nat
  <1>1. Outgoing(node) \in SUBSET Nodes /\ ReciprocalPartners(node) \in SUBSET Nodes
    BY DEF Outgoing, ReciprocalPartners
  <1> QED
    BY <1>1, NodesCount

\* Everybody in the ring is rated by whom it rates.
LEMMA RingFlagged ==
    ASSUME RingApart, edges # {}
    PROVE  Ring \subseteq Ensemble
  <1>1. ASSUME NEW node \in Ring PROVE node \in DetectByReciprocity
    <2>1. node \in Nodes /\ Ring \subseteq Nodes
      BY DEF Nodes
    <2>2. Outgoing(node) = Ring \ {node} /\ ReciprocalPartners(node) = Ring \ {node}
      BY <2>1 DEF RingApart, Outgoing, ReciprocalPartners
    <2>3. Ring \ {node} # {}
      <3>1. 0 \in Ring /\ 1 \in Ring
        BY RingNumbers DEF Ring
      <3> QED
        BY <3>1
    <2> DEFINE c == Cardinality(Ring \ {node})
    <2>4. c \in Nat
      BY <2>2, RatedSets
    <2> HIDE DEF c
    <2>5. 100 * c >= ReciprocityPercent * c
      <3>1. 100 - ReciprocityPercent \in Nat /\ ReciprocityPercent \in Int
        BY RingNumbers
      <3>2. (100 - ReciprocityPercent) * c >= 0
        BY <2>4, <3>1
      <3>3. (100 - ReciprocityPercent) * c = 100 * c - ReciprocityPercent * c
        BY <2>4, <3>1
      <3>4. ReciprocityPercent * c \in Int
        BY <2>4, <3>1
      <3> QED
        BY <2>4, <3>2, <3>3, <3>4
    <2> QED
      BY <2>1, <2>2, <2>3, <2>5 DEF DetectByReciprocity, c
  <1> QED
    BY <1>1 DEF Ensemble

\* Who is outside of the ring is only flagged for what honest agents do.
LEMMA FlaggedForCause ==
    ASSUME CollusionInv, Detected, RingApart, ReciprocityPercent > 0,
           NEW node \in Ensemble \ Ring
    PROVE  \/ ReciprocalPartners(node) # {}
           \/ \E set \in SUBSET HonestOnes :
                  node \in set /\ HoldsTogether(set, CoreThreshold)
  <1>1. Cardinality(Outgoing(node)) \in Nat /\ Cardinality(ReciprocalPartners(node)) \in Nat
    BY RatedSets
  <1>2. ReciprocalPartners(node) = {} => Cardinality(ReciprocalPartners(node)) = 0
    BY FS_EmptySet
  <1>3. CASE node \in DetectByReciprocity
    <2> DEFINE out == Cardinality(Outgoing(node))
               back == Cardinality(ReciprocalPartners(node))
    <2>1. out # 0
      BY <1>3, RatedSets, FS_EmptySet DEF DetectByReciprocity
    <2>2. 100 * back >= ReciprocityPercent * out
      BY <1>3 DEF DetectByReciprocity
    <2>3. out \in Nat \ {0} /\ back \in Nat /\ ReciprocityPercent \in Nat \ {0}
      BY <1>1, <2>1, RingNumbers
    <2> HIDE DEF out, back
    <2>4. ReciprocityPercent * out > 0
      BY <2>3
    <2>5. back # 0
      <3>1. ReciprocityPercent * out \in Int
        BY <2>3
      <3> QED
        BY <2>2, <2>3, <2>4, <3>1
    <2> QED
      BY <1>2, <2>5 DEF back
  <1>4. CASE node \in DetectByMutualDegree
    <2> DEFINE m == (RingSize - 1) \div 2
               big == {3, m}
    <2>1. m \in Int
      BY RingNumbers
    <2> HIDE DEF m
    <2>2. \E x \in big : \A y \in big : x >= y
      BY <2>1
    <2> HIDE DEF big
    <2>3. Max(big) \in big /\ \A y \in big : Max(big) >= y
      BY <2>2 DEF Max
    <2>4. Max(big) \in Int /\ Max(big) >= 3
      BY <2>1, <2>3 DEF big
    <2>5. Cardinality(ReciprocalPartners(node)) >= Max(big)
      BY <1>4 DEF DetectByMutualDegree, big, m
    <2> QED
      BY <1>1, <1>2, <2>4, <2>5
  <1>5. CASE node \in DetectByKCore
    <2>1. node \in Nodes /\ core[node] >= CoreThreshold /\ Nodes # {}
      BY <1>5 DEF DetectByKCore
    <2>2. /\ MaxDegree \in Nat /\ core[node] \in Nat
          /\ core[node] = 0 \/ core[node] <= MaxDegree
          /\ \A n \in 1 .. MaxDegree : {other \in Nodes : core[other] >= n} = CoreSet(n)
      BY <2>1, CoresAreExact
    <2>3. CoreThreshold \in 1 .. MaxDegree
      BY <2>1, <2>2, RingNumbers
    <2>4. node \in CoreSet(CoreThreshold)
      BY <2>1, <2>2, <2>3
    <2>5. PICK set \in SUBSET Nodes : node \in set /\ HoldsTogether(set, CoreThreshold)
      BY <2>4 DEF CoreSet
    <2> DEFINE outside == set \ Ring
    <2>6. outside \in SUBSET HonestOnes /\ node \in outside
      BY <2>5 DEF Nodes
    <2>7. ASSUME NEW other \in outside
          PROVE  Cardinality(Undirected(other) \cap outside) >= CoreThreshold
      <3>1. Undirected(other) \cap outside = Undirected(other) \cap set
        BY DEF RingApart, Undirected
      <3> QED
        BY <2>5, <3>1 DEF HoldsTogether
    <2>8. HoldsTogether(outside, CoreThreshold)
      BY <2>7 DEF HoldsTogether
    <2> HIDE DEF outside
    <2> QED
      BY <2>6, <2>8
  <1> QED
    BY <1>3, <1>4, <1>5 DEF Ensemble

\* The ensemble flags the whole ring, and an honest agent only for mutual ratings or for a
\* dense core of honest ones: for a threshold that asks for something, and for as long as
\* the code's numbers tell the ring from the honest agents.
THEOREM RingIsCaught ==
    ASSUME RingSize <= 1000, ReciprocityPercent > 0
    PROVE  CollusionSpec => []RingCaught
  <1>1. CollusionInv /\ RingApart => RingCaught
    <2> SUFFICES ASSUME CollusionInv, RingApart, Detected
                 PROVE  /\ Ring \subseteq Ensemble
                        /\ \A node \in Ensemble \ Ring :
                               \/ ReciprocalPartners(node) # {}
                               \/ \E set \in SUBSET HonestOnes :
                                      node \in set /\ HoldsTogether(set, CoreThreshold)
      BY DEF RingCaught
    <2>1. Ring \subseteq Ensemble
      <3>1. Nodes # {}
        <4>1. 0 \in Ring
          BY RingNumbers DEF Ring
        <4> QED
          BY <4>1 DEF Nodes
      <3>2. edges # {}
        BY <3>1, CoresAreExact DEF GraphBuilt
      <3> QED
        BY <3>2, RingFlagged
    <2> QED
      BY <2>1, FlaggedForCause
  <1> QED
    BY <1>1, CollusionInvariance, RingStaysApart, PTL
=============================================================================
