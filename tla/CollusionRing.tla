---------------------------- MODULE CollusionRing ----------------------------
(***************************************************************************)
(* benchmark/src/scenarios/collusion.ts: a ring of accounts that rate each *)
(* other, in a graph with honest agents who rate whom they like among       *)
(* themselves, and the three detectors that are run over the graph.  Whom   *)
(* an honest agent rates is drawn at random in the code, a choice here.     *)
(***************************************************************************)
EXTENDS Integers, FiniteSets, FiniteSetsExt

CONSTANTS
    RingSize, HonestAgents, HonestRatings,
    ReciprocityPercent,     \* reciprocityThreshold
    CoreThreshold

ASSUME CollusionAssumption ==
    /\ RingSize \in Nat \ {0, 1}    \* a ring of one has nobody to rate
    /\ HonestAgents \in Nat /\ HonestRatings \in Nat
    /\ HonestRatings > 0 => HonestAgents >= 2
    /\ ReciprocityPercent \in 0 .. 100 /\ CoreThreshold \in Nat \ {0}

VARIABLES
    edges,      \* <<from, to>>: a set, as every view of the graph keeps distinct edges
    rated,      \* how many ratings the honest agents have given
    k,          \* k-core: 0 before it starts, then the round
    degree,     \* k-core: the degrees that are left in this round
    removed,    \* k-core: the nodes removed in this round
    core        \* k-core: the largest round each node has survived

collusionVars == <<edges, rated, k, degree, removed, core>>

Ring == 0 .. RingSize - 1
HonestAgent(i) == 1000 + i
HonestOnes == {HonestAgent(i) : i \in 0 .. HonestAgents - 1}
Nodes == Ring \cup HonestOnes

\* The order in which the code visits the nodes.
NodeOrder == [i \in 1 .. RingSize + HonestAgents |->
                 IF i <= RingSize THEN i - 1 ELSE HonestAgent(i - RingSize - 1)]

-----------------------------------------------------------------------------
(* buildGraph *)

Outgoing(node) == {to \in Nodes : <<node, to>> \in edges}
ReciprocalPartners(node) == {to \in Outgoing(node) : <<to, node>> \in edges}
Undirected(node) == {other \in Nodes : <<node, other>> \in edges \/ <<other, node>> \in edges}
Degree(node) == Cardinality(Undirected(node))

-----------------------------------------------------------------------------
(* The detectors *)

DetectByReciprocity ==
    {node \in Nodes :
        /\ Outgoing(node) # {}
        /\ 100 * Cardinality(ReciprocalPartners(node))
               >= ReciprocityPercent * Cardinality(Outgoing(node))}

DetectByMutualDegree ==
    {node \in Nodes :
        Cardinality(ReciprocalPartners(node)) >= Max({3, (RingSize - 1) \div 2})}

DetectByKCore == {node \in Nodes : core[node] >= CoreThreshold}

Unanimous ==    \* mutant: what all three flag
    DetectByReciprocity \cap DetectByMutualDegree \cap DetectByKCore
Ensemble == DetectByReciprocity \cup DetectByMutualDegree \cup DetectByKCore

-----------------------------------------------------------------------------
(* runCollusiveRing *)

CollusionInit ==
    /\ edges = {}
    /\ rated = 0
    /\ k = 0
    /\ degree = [node \in Nodes |-> 0]
    /\ removed = {}
    /\ core = [node \in Nodes |-> 0]

RateInRing ==
    /\ edges = {}
    /\ edges' = {pair \in Ring \X Ring : pair[1] # pair[2]}
    /\ UNCHANGED <<rated, k, degree, removed, core>>

RateHonestly ==
    /\ edges # {} /\ rated < HonestAgents * HonestRatings
    /\ LET from == HonestAgent(rated \div HonestRatings)
       IN  \E to \in HonestOnes \ {from} : edges' = edges \cup {<<from, to>>}
    /\ rated' = rated + 1
    /\ UNCHANGED <<k, degree, removed, core>>

GraphBuilt == edges # {} /\ rated = HonestAgents * HonestRatings
MaxDegree == Max({Degree(node) : node \in Nodes})

Round(next) ==
    /\ k' = next
    /\ degree' = [node \in Nodes |-> Degree(node)]
    /\ removed' = {}

Peeling == k \in 1 .. MaxDegree
Detected == k = MaxDegree + 1

BeginPeeling ==
    /\ GraphBuilt /\ k = 0
    /\ Round(1)
    /\ UNCHANGED <<edges, rated, core>>

\* One node of a pass: what is removed takes a degree from the neighbours that are left.
VisitDegreesKept(peeled, node) ==       \* mutant: degrees are those of the whole graph
    IF node \in peeled.removed \/ peeled.degree[node] >= k THEN peeled
    ELSE [peeled EXCEPT !.removed = @ \cup {node}]
Visit(peeled, node) ==
    IF node \in peeled.removed \/ peeled.degree[node] >= k THEN peeled
    ELSE LET gone == peeled.removed \cup {node}
         IN  [removed |-> gone,
              degree |-> [other \in Nodes |->
                  peeled.degree[other]
                      - (IF other \in Undirected(node) \ gone THEN 1 ELSE 0)]]

Peeled[i \in 0 .. RingSize + HonestAgents] ==
    IF i = 0 THEN [degree |-> degree, removed |-> removed]
    ELSE Visit(Peeled[i - 1], NodeOrder[i])
Pass == Peeled[RingSize + HonestAgents]

PeelOnce ==
    /\ Peeling /\ Pass.removed # removed
    /\ degree' = Pass.degree
    /\ removed' = Pass.removed
    /\ UNCHANGED <<edges, rated, k, core>>

EndRound ==
    /\ Peeling /\ Pass.removed = removed
    /\ core' = [node \in Nodes |-> IF node \in removed THEN core[node] ELSE k]
    /\ Round(k + 1)
    /\ UNCHANGED <<edges, rated>>

CollusionNext ==
    \/ RateInRing \/ RateHonestly \/ BeginPeeling \/ PeelOnce \/ EndRound

CollusionSpec == CollusionInit /\ [][CollusionNext]_collusionVars

-----------------------------------------------------------------------------
(* Properties *)

\* A set of nodes that holds together when all with fewer than n neighbours in it go.
HoldsTogether(set, n) ==
    \A node \in set : Cardinality(Undirected(node) \cap set) >= n

\* The peeling with its incremental degrees ends with the core numbers of the textbook:
\* the n-core is the union of all sets of nodes in which each has n neighbours.
KCoreExact ==
    Detected =>
        \A n \in 1 .. MaxDegree :
            {node \in Nodes : core[node] >= n} =
                UNION {set \in SUBSET Nodes : HoldsTogether(set, n)}

\* Whatever the honest agents rate, the ensemble flags the whole ring, and honest
\* agents only for mutual ratings or a dense core of their own: the ring never gives
\* an honest agent away, nor hides behind one.
RingCaught ==
    Detected =>
        /\ Ring \subseteq Ensemble
        /\ \A node \in Ensemble \ Ring :
               \/ ReciprocalPartners(node) # {}
               \/ \E set \in SUBSET HonestOnes :
                      node \in set /\ HoldsTogether(set, CoreThreshold)
=============================================================================
