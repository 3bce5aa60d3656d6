-------------------------- MODULE MCPublicFailure --------------------------
(***************************************************************************)
(* Two shapes, a replay GPU that fits and one that does not, and a bundle  *)
(* with as many payload files as can be verified again.                    *)
(***************************************************************************)
EXTENDS PublicFailure

MCShapes == <<"b1_s8", "b4_s128">>
OneShape == <<"b1_s8">>
MCRequirements == [q \in Properties |-> 1]
MCTargets == {MCRequirements, [MCRequirements EXCEPT !["driver"] = 0]}

\* The outputs have the reference's schema and the baseline passes its own gate;
\* everything else varies: the runner records no decision from the other cases.
AnyBaseline == {f \in CaseFacts :
    f.baselineSchema = "same" /\ BaselineGate \notin f.failedGates}
============================================================================
