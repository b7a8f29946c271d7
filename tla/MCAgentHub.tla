----------------------------- MODULE MCAgentHub -----------------------------
(***************************************************************************)
(* Instances of AgentHub for TLC.                                          *)
(***************************************************************************)
EXTENDS AgentHub

CONSTANTS a1, c1, c2

\* One agent and two channels: the registered one and the one that replaces
\* it. Agents share no state but the sweeper, which treats each row alike;
\* more channels and agents are the business of AgentHubProofs.
MCAgentOf == [c \in Conns |-> a1]
=============================================================================
