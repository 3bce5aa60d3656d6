------------------------------ MODULE MCResume ------------------------------
(* The runner on the small graph *)
EXTENDS ResumeEngine, MCGraph
=============================================================================
