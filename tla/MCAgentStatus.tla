---------------------------- MODULE MCAgentStatus ----------------------------
(***************************************************************************)
(* AgentHub with a history of who has turned a connected agent offline.    *)
(*                                                                         *)
(* Two texts are checked in one behaviour: that the sweep is for inactive  *)
(* agents, SweepSpares, and that the callback reports the agent's status,  *)
(* RetireSpares. Each should hold of every step. What the run asks for is  *)
(* much less, that at least one of them does, so a behaviour against it    *)
(* is a behaviour against either text.                                     *)
(***************************************************************************)
EXTENDS MCAgentHub

VARIABLE mistaken   \* who has turned offline an agent whose channel works

Reporters == {"sweeper", "callback"}

Spares(reporter) == IF reporter = "sweeper" THEN SweepSpares ELSE RetireSpares

HistorySpec ==
  /\ Init /\ mistaken = {}
  /\ [][/\ Next
        /\ mistaken' = mistaken \cup {r \in Reporters : ~Spares(r)}]_<<vars, mistaken>>

\* Of the two that write an agent's status, the sweeper and the callback of a
\* channel that ends, one at least never turns a connected agent offline
\* ("balayage agents inactifs", main.go:136; "statut des agents
\* (online/offline)", hub.go:1-2).
OneReporterRight == mistaken # Reporters
=============================================================================
