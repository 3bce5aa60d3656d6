------------------------------ MODULE MCSeeded ------------------------------
(* Three prefix lengths below the whole of the pairs, of which the budget    *)
(* reaches two, and a replay GPU that fits and one that does not.            *)
EXTENDS SeededReductions

MCRequirements == [q \in Properties |-> 1]
MCTargets == {MCRequirements, [MCRequirements EXCEPT !["driver"] = 0]}
=============================================================================
