--------------------------- MODULE MCAgentSandbox ---------------------------
(* Two nodes that use one container in turn, each tried twice.             *)
EXTENDS AgentSandbox
=============================================================================
