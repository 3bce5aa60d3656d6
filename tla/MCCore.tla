------------------------------- MODULE MCCore -------------------------------
(***************************************************************************)
(* Core qualification of two precisions and one shape, and the paired      *)
(* measurement of that shape with every order of good and bad blocks.      *)
(***************************************************************************)
EXTENDS CoreQualification

OneShape == <<"b1_s8">>
TwoShapes == <<"b1_s8", "b4_s128">>
OnePrecision == <<"fp32">>
TwoPrecisions == <<"fp32", "explicit_fp16">>

\* Every failed gate and every stability, with the schemas varied one at a time.
MCFacts == {f \in CaseFacts :
    \/ f.baselineSchema = "same" /\ f.candidateSchema = "same"
    \/ /\ f.failedGates = {} /\ f.baselineStability = "bitwise"
       /\ f.candidateStability = "bitwise"}
=============================================================================
