---------------------------- MODULE MCDeployScript ----------------------------
(* DeployScript with two schemas. *)
EXTENDS DeployScript, TLC

CONSTANTS feedback, delegate

MCOrder == <<feedback, delegate>>
=============================================================================
