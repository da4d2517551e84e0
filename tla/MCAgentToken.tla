---------------------------- MODULE MCAgentToken ----------------------------
(* One machine, its agent and the requests of one operator or of two.        *)
EXTENDS AgentToken
====
