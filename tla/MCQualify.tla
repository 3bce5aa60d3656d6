------------------------------ MODULE MCQualify ------------------------------
(***************************************************************************)
(* The command and its runner with the gates, the dependencies and the     *)
(* script of the repository.  TLC keeps the value of a definition, but not *)
(* of one a constant stands for, hence the second names.                   *)
(***************************************************************************)
EXTENDS QualifyCommand, QualificationGates

MCGates == FullGates
MCGateOrder == FullGateOrder
MCMoveOrder == FullMoveOrder
MCDeps == FullDeps
MCUnder == FullUnder
MCDomainSteps == FullDomainSteps
MCAlwaysSteps == FullAlwaysSteps
MCMasking == FullMasking
MCAudited == FullAudited
MCKeeping == FullKeeping
MCRefusing == FullRefusing
MCScript == FullScript
=============================================================================
