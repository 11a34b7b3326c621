---------------------------- MODULE MCHumanSteps ----------------------------
(* A step that asks three members and an agent.                            *)
EXTENDS HumanSteps
=============================================================================
