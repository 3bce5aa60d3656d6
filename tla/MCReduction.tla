---------------------------- MODULE MCReduction ----------------------------
(* Two stages around one reducer and the environment history; the log of a   *)
(* whole session fits the budget, with refused trials or without.            *)
EXTENDS ReductionStateMachine

ThreeStages == <<"outputs", "inputs", "environment_history">>
=============================================================================
