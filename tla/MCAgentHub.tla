----------------------------- MODULE MCAgentHub ----------------------------
(* AgentHub for TLC. *)
EXTENDS AgentHub
============================================================================
