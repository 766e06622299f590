-------------------------- MODULE MCAgentHandshake --------------------------
(* Bounds are in the configuration.                                        *)
EXTENDS AgentHandshake
=============================================================================
