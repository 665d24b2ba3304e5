---------------------------- MODULE MCAlgorithms ----------------------------
(* The parts of the code that work by themselves, each on a small instance, checked
   in one run: a behaviour is one of one part, and the others stay as they began. *)
EXTENDS ScoreReads, MCEventDecoder, Mechanisms, CollusionRing

VARIABLE part

Parts == {"score", "decoder", "benchmark", "ring"}

Init ==
    /\ part \in Parts
    /\ ScoreInit /\ DecoderInit /\ BenchmarkInit /\ CollusionInit
    /\ part # "score" => period = CHOOSE p \in DecayPeriods : TRUE

Next ==
    \/ /\ part = "score" /\ ScoreNext
       /\ UNCHANGED <<part, decoderVars, benchmarkVars, collusionVars>>
    \/ /\ part = "decoder" /\ DecoderNext
       /\ UNCHANGED <<part, scoreVars, benchmarkVars, collusionVars>>
    \/ /\ part = "benchmark" /\ BenchmarkNext
       /\ UNCHANGED <<part, scoreVars, decoderVars, collusionVars>>
    \/ /\ part = "ring" /\ CollusionNext
       /\ UNCHANGED <<part, scoreVars, decoderVars, benchmarkVars>>

Spec == Init /\ [][Next]_<<part, scoreVars, decoderVars, benchmarkVars, collusionVars>>
=============================================================================
