---------------------------- MODULE MCAgentHost ----------------------------
(* Two clients, three applies; as many inodes as processes: a process   *)
(* that creates the file finds at most one other in use.                      *)
EXTENDS AgentHost

MCClients == {"a", "b"}
MCInodes == 1..2
=============================================================================
