------------------------------ MODULE MCExtended ------------------------------
(***************************************************************************)
(* The plugin matrix on two precisions of two cases, each with two         *)
(* retained repetitions.  The views take in every drift of each stack, a   *)
(* failure of the baseline's gate in the second repetition after one of    *)
(* the candidate's, and every stability.                                   *)
(***************************************************************************)
EXTENDS ExtendedDomains

MCPrecisions == <<"fp32", "fp16">>
MCCases == <<"c1", "c2">>

Agreeing == [r \in 1..Repetitions |-> {}]
Clean == [baselineSchema |-> "same", candidateSchema |-> "same",
          baselineStability |-> "bitwise", candidateStability |-> "bitwise",
          failedGates |-> Agreeing]

MCViews ==
    {Clean}
    \cup {[Clean EXCEPT !.baselineSchema = drift] : drift \in {"renamed", "varying"}}
    \cup {[Clean EXCEPT !.candidateSchema = drift] : drift \in Drifts}
    \cup {[Clean EXCEPT !.failedGates[1] = {"candidate_to_reference"},
                        !.failedGates[2] = last] : last \in {{}, {BaselineGate}}}
    \cup {[Clean EXCEPT !.baselineStability = stability] : stability \in Stability}
    \cup {[Clean EXCEPT !.candidateStability = stability] : stability \in Stability}
===============================================================================
