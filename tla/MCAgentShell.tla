---------------------------- MODULE MCAgentShell ----------------------------
(***************************************************************************)
(* Instances of AgentShell for TLC.                                        *)
(***************************************************************************)
EXTENDS AgentShell

=============================================================================
