------------------------------ MODULE AgentHub ------------------------------
(***************************************************************************)
(* The agent side of the signalling hub: how an agent's mTLS channel is    *)
(* checked, registered in Hub.agents, announced in the agents table,       *)
(* superseded by a newer channel, cut by a revocation and retired.         *)
(*                                                                         *)
(* Every accepted channel is served by its own goroutine (net/http), so    *)
(* handleAgentChannel and Hub.RegisterAgent are modelled one database call *)
(* or one critical section of Hub.mu per step: other goroutines, the       *)
(* revocation handler, the sweeper and a server crash run in between.      *)
(*                                                                         *)
(* Left out: the audit rows written around RegisterAgent (append-only and  *)
(* read by no step modelled here), and the relaying of messages by the     *)
(* read loop, which leaves all of this state alone.                        *)
(***************************************************************************)
EXTENDS Integers, FiniteSets

CONSTANTS
  Agents,        \* enrolled agents (rows of the agents table)
  Conns,         \* slots for agent channels: one goroutine and its WebSocket
  NoConn,        \* "no entry in Hub.agents"
  AgentOf,       \* the agent whose certificate is presented on a slot
  StaleMinutes   \* MarkStaleOffline's staleAfter, in sweeper periods

ASSUME AgentHubAssumption ==
  /\ AgentOf \in [Conns -> Agents]
  /\ NoConn \notin Conns
  /\ StaleMinutes \in Nat

VARIABLES
  pc,        \* where the goroutine of a channel stands
  open,      \* the server's end of the channel's WebSocket can still be read
  agents,    \* Hub.agents: agent -> registered channel, or NoConn
  status,    \* agents.status
  age,       \* sweeper periods since agents.last_seen_at, capped
  revoked,   \* agents.revoked_at IS NOT NULL
  crl,       \* agent_cert_revocations, by agent: a serial has one agent
  revoker,   \* where handleRevokeAgent stands for an agent; "failed": it has
             \* returned an error, and the transaction has committed
  target,    \* the channel DisconnectAgent found and is about to close
  escaped    \* history: channels past their checks, but not yet registered,
             \* when a DisconnectAgent of their agent looked into the hub

hubVars == <<pc, open, agents>>
rowVars == <<status, age, revoked, crl>>
revVars == <<revoker, target>>
vars    == <<pc, open, agents, status, age, revoked, crl, revoker, target, escaped>>

(***************************************************************************)
(* "idle": free slot.  "crl", "row": before handleAgentChannel's two       *)
(* look-ups.  "upgrade", "register": both passed, not yet in the hub.      *)
(* "announce": in the hub, onAgentStatus(true) still to run.  "reading":   *)
(* in the read loop.  "unregister", "retire": the deferred function.       *)
(***************************************************************************)
Stages == {"idle", "crl", "row", "upgrade", "register",
           "announce", "reading", "unregister", "retire"}

Pending    == {"upgrade", "register"}
Registered == {"announce", "reading"}
MaxAge     == StaleMinutes + 1

TypeOK ==
  /\ pc \in [Conns -> Stages]
  /\ open \in [Conns -> BOOLEAN]
  /\ agents \in [Agents -> Conns \cup {NoConn}]
  /\ status \in [Agents -> {"online", "offline"}]
  /\ age \in [Agents -> 0..MaxAge]
  /\ revoked \in [Agents -> BOOLEAN]
  /\ crl \in SUBSET Agents
  /\ revoker \in [Agents -> {"idle", "lookup", "close", "failed"}]
  /\ target \in [Agents -> Conns \cup {NoConn}]
  /\ escaped \in SUBSET Conns

\* Freshly enrolled agents: status defaults to offline, last_seen_at is NULL.
Init ==
  /\ pc = [c \in Conns |-> "idle"]
  /\ open = [c \in Conns |-> FALSE]
  /\ agents = [a \in Agents |-> NoConn]
  /\ status = [a \in Agents |-> "offline"]
  /\ age = [a \in Agents |-> MaxAge]
  /\ revoked = [a \in Agents |-> FALSE]
  /\ crl = {}
  /\ revoker = [a \in Agents |-> "idle"]
  /\ target = [a \in Agents |-> NoConn]
  /\ escaped = {}

Goto(c, from, to) ==
  /\ pc[c] = from
  /\ pc' = [pc EXCEPT ![c] = to]

\* The goroutine's stack and its *agentConn are gone: the slot can be reused.
Release(c, from) ==
  /\ Goto(c, from, "idle")
  /\ open' = [open EXCEPT ![c] = FALSE]
  /\ escaped' = escaped \ {c}

(***************************************************************************)
(* The agents table                                                        *)
(***************************************************************************)

\* AgentRepo.SetStatus, called by the hub's callback. The callback only logs
\* an error, so a failed update (ok = FALSE) leaves the row as it was.
SetStatus(a, s, ok) ==
  /\ status' = IF ok THEN [status EXCEPT ![a] = s] ELSE status
  /\ age' = IF ok THEN [age EXCEPT ![a] = 0] ELSE age
  /\ UNCHANGED <<revoked, crl>>

IsCertRevoked(a) == a \in crl

(***************************************************************************)
(* handleAgentChannel and Hub.RegisterAgent, for one channel               *)
(***************************************************************************)

\* An agent opens a channel; net/http starts the handler. A slot is not
\* reused while DisconnectAgent still holds a pointer to its old channel.
Dial(c) ==
  /\ \A a \in Agents : target[a] # c
  /\ Goto(c, "idle", "crl")
  /\ UNCHANGED <<open, agents, rowVars, revVars, escaped>>

\* A revoked certificate, or a database error, is answered with 403.
CheckCRL(c) ==
  /\ \/ /\ ~IsCertRevoked(AgentOf[c])
        /\ Goto(c, "crl", "row")
        /\ UNCHANGED <<open, escaped>>
     \/ Release(c, "crl")
  /\ UNCHANGED <<agents, rowVars, revVars>>

\* GetByCertSerial, then the RevokedAt test on the row it returned.
CheckRow(c) ==
  /\ \/ /\ ~revoked[AgentOf[c]]
        /\ Goto(c, "row", "upgrade")
        /\ UNCHANGED <<open, escaped>>
     \/ Release(c, "row")
  /\ UNCHANGED <<agents, rowVars, revVars>>

\* The WebSocket handshake succeeds, or fails and ends the handler.
Upgrade(c) ==
  /\ \/ /\ Goto(c, "upgrade", "register")
        /\ open' = [open EXCEPT ![c] = TRUE]
        /\ UNCHANGED escaped
     \/ Release(c, "upgrade")
  /\ UNCHANGED <<agents, rowVars, revVars>>

\* Mutant: takes the entry over and leaves the previous channel open.
RegisterBeside(c) ==
  /\ Goto(c, "register", "announce")
  /\ agents' = [agents EXCEPT ![AgentOf[c]] = c]
  /\ UNCHANGED <<open, rowVars, revVars, escaped>>

\* First critical section of RegisterAgent: close the agent's previous
\* channel, if any, and take its place.
Register(c) ==
  LET a == AgentOf[c] IN
  /\ Goto(c, "register", "announce")
  /\ open' = [d \in Conns |-> IF d = agents[a] THEN FALSE ELSE open[d]]
  /\ agents' = [agents EXCEPT ![a] = c]
  /\ UNCHANGED <<rowVars, revVars, escaped>>

\* onAgentStatus(agentID, true), outside Hub.mu.
Announce(c) ==
  /\ Goto(c, "announce", "reading")
  /\ \E ok \in BOOLEAN : SetStatus(AgentOf[c], "online", ok)
  /\ UNCHANGED <<open, agents, revVars, escaped>>

\* ReadJSON fails: the channel was closed at either end ...
ReadClosed(c) ==
  /\ ~open[c]
  /\ Goto(c, "reading", "unregister")
  /\ UNCHANGED <<open, agents, rowVars, revVars, escaped>>

\* ... or the agent sent something that is not JSON, on a healthy channel.
ReadGarbage(c) ==
  /\ open[c]
  /\ Goto(c, "reading", "unregister")
  /\ UNCHANGED <<open, agents, rowVars, revVars, escaped>>

\* Mutant: deletes the agent's entry, whoever's it is.
UnregisterAny(c) ==
  /\ Goto(c, "unregister", "retire")
  /\ agents' = [agents EXCEPT ![AgentOf[c]] = NoConn]
  /\ UNCHANGED <<open, rowVars, revVars, escaped>>

\* Mutant: leaves the removal to whoever closed the channel.
UnregisterIfOpen(c) ==
  LET a == AgentOf[c] IN
  /\ Goto(c, "unregister", "retire")
  /\ agents' = IF agents[a] = c /\ open[c]
                 THEN [agents EXCEPT ![a] = NoConn] ELSE agents
  /\ UNCHANGED <<open, rowVars, revVars, escaped>>

\* Second critical section, in the deferred function: only the goroutine
\* whose own channel is registered removes the entry.
Unregister(c) ==
  LET a == AgentOf[c] IN
  /\ Goto(c, "unregister", "retire")
  /\ agents' = IF agents[a] = c THEN [agents EXCEPT ![a] = NoConn] ELSE agents
  /\ UNCHANGED <<open, rowVars, revVars, escaped>>

\* onAgentStatus(agentID, false), whoever is registered by now; conn.Close()
\* and the end of the handler follow and touch nothing shared.
Retire(c) ==
  /\ Release(c, "retire")
  /\ \E ok \in BOOLEAN : SetStatus(AgentOf[c], "offline", ok)
  /\ UNCHANGED <<agents, revVars>>

\* The agent stops, restarts, or loses its network, and the server learns it.
PeerGone(c) ==
  /\ open[c]
  /\ open' = [open EXCEPT ![c] = FALSE]
  /\ UNCHANGED <<pc, agents, rowVars, revVars, escaped>>

(***************************************************************************)
(* handleRevokeAgent                                                       *)
(***************************************************************************)

\* Mutant: shows the revocation as a status of its own.
RevokeTxOwnStatus(a) ==
  /\ revoker[a] \in {"idle", "failed"}
  /\ revoker' = [revoker EXCEPT ![a] = "lookup"]
  /\ revoked' = [revoked EXCEPT ![a] = TRUE]
  /\ crl' = crl \cup {a}
  /\ status' = [status EXCEPT ![a] = "revoked"]
  /\ UNCHANGED <<hubVars, age, target, escaped>>

\* AgentRepo.Revoke commits: the row and the CRL change in one transaction.
\* If that fails it rolls back, and the handler stops there; it stops there as
\* well when the COMMIT has succeeded and its answer is lost.
RevokeTx(a) ==
  /\ revoker[a] \in {"idle", "failed"}
  /\ \E to \in {"lookup", "failed"} : revoker' = [revoker EXCEPT ![a] = to]
  /\ revoked' = [revoked EXCEPT ![a] = TRUE]
  /\ crl' = crl \cup {a}
  /\ status' = [status EXCEPT ![a] = "offline"]
  /\ UNCHANGED <<hubVars, age, target, escaped>>

\* DisconnectAgent under Hub.mu.RLock.
DisconnectLookup(a) ==
  /\ revoker[a] = "lookup"
  /\ revoker' = [revoker EXCEPT ![a] = "close"]
  /\ target' = [target EXCEPT ![a] = agents[a]]
  /\ escaped' = escaped \cup {c \in Conns : AgentOf[c] = a /\ pc[c] \in Pending}
  /\ UNCHANGED <<hubVars, rowVars>>

\* DisconnectAgent after RUnlock: close what was found. Only the socket is
\* closed: the entry and the status are left to the channel's goroutine.
DisconnectClose(a) ==
  /\ revoker[a] = "close"
  /\ revoker' = [revoker EXCEPT ![a] = "idle"]
  /\ target' = [target EXCEPT ![a] = NoConn]
  /\ open' = [c \in Conns |-> IF c = target[a] THEN FALSE ELSE open[c]]
  /\ UNCHANGED <<pc, agents, rowVars, escaped>>

(***************************************************************************)
(* Time, and the server process                                            *)
(***************************************************************************)

\* Mutant: only looks at agents the hub knows.
MinuteRegisteredOnly(ok) ==
  LET older == [a \in Agents |-> IF age[a] < MaxAge THEN age[a] + 1 ELSE MaxAge]
      stale(a) == status[a] = "online" /\ older[a] > StaleMinutes
  IN
  /\ age' = older
  /\ status' = [a \in Agents |-> IF ok /\ stale(a) /\ agents[a] # NoConn
                                   THEN "offline" ELSE status[a]]
  /\ UNCHANGED <<hubVars, revoked, crl, revVars, escaped>>

\* Mutant: leaves revoked agents alone (AND revoked_at IS NULL).
MinuteUnrevokedOnly(ok) ==
  LET older == [a \in Agents |-> IF age[a] < MaxAge THEN age[a] + 1 ELSE MaxAge]
      stale(a) == status[a] = "online" /\ older[a] > StaleMinutes
  IN
  /\ age' = older
  /\ status' = [a \in Agents |-> IF ok /\ stale(a) /\ ~revoked[a]
                                   THEN "offline" ELSE status[a]]
  /\ UNCHANGED <<hubVars, revoked, crl, revVars, escaped>>

\* A period of staleAgentSweeper: a minute passes and MarkStaleOffline runs.
\* A failed UPDATE (ok = FALSE) is logged and tried again at the next tick.
Minute(ok) ==
  LET older == [a \in Agents |-> IF age[a] < MaxAge THEN age[a] + 1 ELSE MaxAge]
      stale(a) == status[a] = "online" /\ older[a] > StaleMinutes
  IN
  /\ age' = older
  /\ status' = [a \in Agents |-> IF ok /\ stale(a) THEN "offline" ELSE status[a]]
  /\ UNCHANGED <<hubVars, revoked, crl, revVars, escaped>>

\* The process stops and is restarted: the hub, the goroutines and their
\* sockets are gone, the tables are not, and no start-up code resets them.
Restart ==
  /\ pc' = [c \in Conns |-> "idle"]
  /\ open' = [c \in Conns |-> FALSE]
  /\ agents' = [a \in Agents |-> NoConn]
  /\ revoker' = [a \in Agents |-> "idle"]
  /\ target' = [a \in Agents |-> NoConn]
  /\ escaped' = {}
  /\ UNCHANGED rowVars

\* What the goroutine of a channel does without waiting for the agent.
Serve(c) ==
  \/ CheckCRL(c)
  \/ CheckRow(c)
  \/ Upgrade(c)
  \/ Register(c)
  \/ Announce(c)
  \/ ReadClosed(c)
  \/ Unregister(c)
  \/ Retire(c)

Revoking(a) == DisconnectLookup(a) \/ DisconnectClose(a)

Next ==
  \/ \E c \in Conns : Dial(c) \/ Serve(c) \/ ReadGarbage(c) \/ PeerGone(c)
  \/ \E a \in Agents : RevokeTx(a) \/ Revoking(a)
  \/ \E ok \in BOOLEAN : Minute(ok)
  \/ Restart

(***************************************************************************)
(* Fairness: the Go scheduler runs every goroutine that is not blocked on  *)
(* the network, and the sweeper's ticker keeps ticking with, now and then, *)
(* a database that answers. Agents, administrators, peers' failures and    *)
(* restarts are under no obligation.                                       *)
(***************************************************************************)
Fairness ==
  /\ \A c \in Conns : WF_vars(Serve(c))
  /\ \A a \in Agents : WF_vars(Revoking(a))
  /\ WF_vars(Minute(TRUE))

Spec     == Init /\ [][Next]_vars
FairSpec == Spec /\ Fairness

-----------------------------------------------------------------------------
(***************************************************************************)
(* Properties                                                              *)
(***************************************************************************)

\* Hub.agents holds no dangling channel: whatever is registered for an agent
\* is a channel of that agent whose goroutine will still run the deferred
\* removal (else IsAgentConnected would be true for ever).
HubEntryServed ==
  \A a \in Agents : agents[a] # NoConn =>
    /\ AgentOf[agents[a]] = a
    /\ pc[agents[a]] \in Registered \cup {"unregister"}

\* "une seule connexion active par agent" (hub.go:58), and the agent never
\* loses it to an older one's clean-up: a healthy channel in its read loop
\* is the one messages for its agent are routed to.
HealthyIsRouted ==
  \A c \in Conns : pc[c] \in Registered /\ open[c] => agents[AgentOf[c]] = c

\* What DisconnectAgent does guarantee: once handleRevokeAgent has returned
\* without an error, a channel of the revoked agent that still works is one that
\* had passed handleAgentChannel's checks and was about to register.
OnlyEscapedSurvive ==
  \A c \in Conns :
    /\ revoked[AgentOf[c]]
    /\ revoker[AgentOf[c]] = "idle"
    /\ pc[c] \in Registered
    /\ open[c]
    => c \in escaped

\* A closed channel does not stay the agent's route: its goroutine notices,
\* and the entry is removed or replaced.
ClosedIsUnrouted ==
  \A a \in Agents : \A c \in Conns :
    (agents[a] = c /\ ~open[c]) ~> (agents[a] # c \/ open[c])

\* An agent that stays away is finally shown offline: by its goroutine's
\* callback, or, when that update failed or the server was restarted before
\* it ran, by the sweeper.
AwayShownOffline ==
  \A a \in Agents :
    <>[](\A c \in Conns : AgentOf[c] = a => pc[c] = "idle")
      => <>[](status[a] = "offline")

\* A revoked agent ends up shown offline, as its revocation wrote
\* (agents.go:106), though channels that were past the checks may announce it
\* online afterwards, and stay, and the callbacks that would take that back may
\* fail: there are finally no such channels, and the sweeper corrects the row.
RevokedShownOffline == \A a \in Agents : revoked[a] ~> [](status[a] = "offline")

-----------------------------------------------------------------------------
(***************************************************************************)
(* What the documentation says, and the code does not do                   *)
(***************************************************************************)

\* "sa session active est coupee" (handlers_agents.go:33): after the
\* revocation handler has succeeded, the agent's channel is finally down.
RevokedIsCut ==
  \A a \in Agents :
    (revoked[a] /\ revoker[a] = "idle") ~> (agents[a] = NoConn \/ ~revoked[a])

\* The sweeper is for inactive agents ("balayage agents inactifs",
\* main.go:136): a period never turns offline an agent whose channel works.
SweepSpares ==
  \A ok \in BOOLEAN, a \in Agents :
    Minute(ok) /\ agents[a] # NoConn /\ open[agents[a]]
    => status'[a] = status[a]

\* The callback reports the agent's status ("statut des agents
\* (online/offline)", hub.go:1-2): a channel that ends does not turn offline
\* an agent that has another, working channel.
RetireSpares ==
  \A c \in Conns :
    /\ Retire(c)
    /\ agents[AgentOf[c]] # NoConn
    /\ pc[agents[AgentOf[c]]] = "reading"
    /\ status[AgentOf[c]] = "online"
    => status'[AgentOf[c]] = "online"
=============================================================================
