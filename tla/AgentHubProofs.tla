--------------------------- MODULE AgentHubProofs ---------------------------
(***************************************************************************)
(* The safety of the agent channels, for every number of agents and        *)
(* channels and every staleness limit.                                     *)
(***************************************************************************)
EXTENDS AgentHub, TLAPS

\* The row's constants are naturals, for the arithmetic of the ages.
LEMMA MaxAgeNat == MaxAge \in Nat /\ 0 \in 0..MaxAge
  BY AgentHubAssumption DEF MaxAge

\* A step of any goroutine, of the sweeper or of the server keeps the types.
LEMMA TypeStep == TypeOK /\ [Next]_vars => TypeOK'
<1> SUFFICES ASSUME TypeOK, [Next]_vars PROVE TypeOK'
  OBVIOUS
<1> USE AgentHubAssumption, MaxAgeNat DEF TypeOK, Stages, hubVars, rowVars, revVars
<1>1. ASSUME NEW c \in Conns, Dial(c) PROVE TypeOK'
  BY <1>1 DEF Dial, Goto
<1>2. ASSUME NEW c \in Conns, CheckCRL(c) PROVE TypeOK'
  BY <1>2 DEF CheckCRL, Goto, Release
<1>3. ASSUME NEW c \in Conns, CheckRow(c) PROVE TypeOK'
  BY <1>3 DEF CheckRow, Goto, Release
<1>4. ASSUME NEW c \in Conns, Upgrade(c) PROVE TypeOK'
  BY <1>4 DEF Upgrade, Goto, Release
<1>5. ASSUME NEW c \in Conns, Register(c) PROVE TypeOK'
  BY <1>5 DEF Register, Goto
<1>6. ASSUME NEW c \in Conns, Announce(c) PROVE TypeOK'
  BY <1>6 DEF Announce, Goto, SetStatus
<1>7. ASSUME NEW c \in Conns, ReadClosed(c) PROVE TypeOK'
  BY <1>7 DEF ReadClosed, Goto
<1>8. ASSUME NEW c \in Conns, ReadGarbage(c) PROVE TypeOK'
  BY <1>8 DEF ReadGarbage, Goto
<1>9. ASSUME NEW c \in Conns, Unregister(c) PROVE TypeOK'
  BY <1>9 DEF Unregister, Goto
<1>10. ASSUME NEW c \in Conns, Retire(c) PROVE TypeOK'
  BY <1>10 DEF Retire, Release, Goto, SetStatus
<1>11. ASSUME NEW c \in Conns, PeerGone(c) PROVE TypeOK'
  BY <1>11 DEF PeerGone
<1>12. ASSUME NEW a \in Agents, RevokeTx(a) PROVE TypeOK'
  BY <1>12 DEF RevokeTx
<1>13. ASSUME NEW a \in Agents, DisconnectLookup(a) PROVE TypeOK'
  BY <1>13 DEF DisconnectLookup
<1>14. ASSUME NEW a \in Agents, DisconnectClose(a) PROVE TypeOK'
  BY <1>14 DEF DisconnectClose
<1>15. ASSUME NEW ok \in BOOLEAN, Minute(ok) PROVE TypeOK'
  <2>1. \A a \in Agents : IF age[a] < MaxAge THEN age[a] + 1 \in 0..MaxAge
                                           ELSE MaxAge \in 0..MaxAge
    OBVIOUS
  <2> QED
    BY <1>15, <2>1 DEF Minute
<1>16. CASE Restart
  BY <1>16 DEF Restart
<1>17. CASE UNCHANGED vars
  BY <1>17 DEF vars
<1> QED
  BY <1>1, <1>2, <1>3, <1>4, <1>5, <1>6, <1>7, <1>8, <1>9, <1>10, <1>11,
     <1>12, <1>13, <1>14, <1>15, <1>16, <1>17 DEF Next, Serve, Revoking

\* AgentHub's variables keep their types: the hub only ever maps an agent to
\* one of the channels or to nothing, a row is online or offline.
THEOREM TypeCorrect == Spec => []TypeOK
<1>1. Init => TypeOK
  BY AgentHubAssumption, MaxAgeNat DEF Init, TypeOK, Stages
<1>2. TypeOK /\ [Next]_vars => TypeOK'
  BY TypeStep
<1> QED
  BY <1>1, <1>2, PTL DEF Spec

-----------------------------------------------------------------------------
(***************************************************************************)
(* The inductive invariant.                                                *)
(*                                                                         *)
(* HealthyIsRouted and HubEntryServed need each other: a channel that is   *)
(* replaced is closed because it is the entry, and the entry stays the     *)
(* entry until its own goroutine removes it. The revocation part follows a *)
(* channel from the look-up in the hub on: whoever is beyond the checks of *)
(* handleAgentChannel by then is closed, about to be closed, or escaped.   *)
(***************************************************************************)

\* Sockets exist from Upgrade to the end of the handler.
OpenIsUpgraded ==
  \A c \in Conns : open[c] => pc[c] \notin {"idle", "crl", "row", "upgrade"}

\* Once DisconnectAgent has looked into the hub, and not before that, nor when
\* handleRevokeAgent has failed without calling it.
Accounted(c) ==
  \/ c \in escaped
  \/ pc[c] \in Registered /\ ~open[c]
  \/ revoker[AgentOf[c]] = "close" /\ target[AgentOf[c]] = c

RevocationAccounted ==
  \A c \in Conns :
    /\ revoked[AgentOf[c]]
    /\ revoker[AgentOf[c]] \in {"idle", "close"}
    /\ pc[c] \in Pending \cup Registered
    => Accounted(c)

\* DisconnectAgent only ever closes what was registered for its agent.
TargetRegistered ==
  \A a \in Agents :
    /\ revoker[a] # "close" => target[a] = NoConn
    /\ revoker[a] = "close" /\ target[a] # NoConn =>
         /\ AgentOf[target[a]] = a
         /\ pc[target[a]] \notin {"crl", "row", "upgrade", "register"}

CRLMatchesRow == \A a \in Agents : a \in crl <=> revoked[a]

IInv ==
  /\ TypeOK
  /\ HubEntryServed
  /\ HealthyIsRouted
  /\ OpenIsUpgraded
  /\ TargetRegistered
  /\ CRLMatchesRow
  /\ RevocationAccounted

\* The channel that is replaced is the only other one that could be open.
LEMMA RegisterStep ==
  ASSUME IInv, NEW c \in Conns, Register(c), TypeOK'
  PROVE  IInv'
<1> DEFINE a == AgentOf[c]
<1>1. /\ a \in Agents
      /\ pc[c] = "register" /\ pc'[c] = "announce"
      /\ \A d \in Conns : d # c => pc'[d] = pc[d]
      /\ agents'[a] = c
      /\ \A b \in Agents : b # a => agents'[b] = agents[b]
      /\ \A d \in Conns : open'[d] = IF d = agents[a] THEN FALSE ELSE open[d]
  BY AgentHubAssumption DEF IInv, TypeOK, Register, Goto
<1>2. UNCHANGED <<status, age, revoked, crl, revoker, target, escaped>>
  BY DEF Register, rowVars, revVars
<1>3. HubEntryServed'
  <2> SUFFICES ASSUME NEW b \in Agents, b # a, agents[b] # NoConn
               PROVE  /\ AgentOf[agents[b]] = b
                      /\ pc'[agents[b]] \in Registered \cup {"unregister"}
    BY <1>1 DEF HubEntryServed, Registered
  <2>1. agents[b] \in Conns /\ AgentOf[agents[b]] = b
    BY DEF IInv, TypeOK, HubEntryServed
  <2> QED
    BY <1>1, <2>1 DEF IInv, HubEntryServed
<1>4. HealthyIsRouted'
  <2> SUFFICES ASSUME NEW d \in Conns, pc'[d] \in Registered, open'[d], d # c
               PROVE  agents'[AgentOf[d]] = d
    BY <1>1 DEF HealthyIsRouted
  <2>1. agents[AgentOf[d]] = d /\ d # agents[a]
    BY <1>1 DEF IInv, HealthyIsRouted
  <2> QED
    BY <1>1, <2>1, AgentHubAssumption
<1>5. OpenIsUpgraded'
  BY <1>1 DEF IInv, OpenIsUpgraded
<1>6. TargetRegistered'
  <2> SUFFICES ASSUME NEW b \in Agents, revoker[b] = "close", target[b] # NoConn
               PROVE  AgentOf[target[b]] = b /\ pc'[target[b]] \notin {"crl", "row", "upgrade", "register"}
    BY <1>2 DEF IInv, TargetRegistered
  <2> QED
    BY <1>1 DEF IInv, TypeOK, TargetRegistered
<1>7. CRLMatchesRow'
  BY <1>2 DEF IInv, CRLMatchesRow
<1>8. RevocationAccounted'
  <2> SUFFICES ASSUME NEW d \in Conns, revoked[AgentOf[d]], revoker[AgentOf[d]] \in {"idle", "close"},
                      pc'[d] \in Pending \cup Registered
               PROVE  Accounted(d)'
    BY <1>2 DEF RevocationAccounted
  <2>1. pc[d] \in Pending \cup Registered
    BY <1>1 DEF Pending
  <2>2. Accounted(d)
    BY <2>1 DEF IInv, RevocationAccounted
  <2>3. CASE d # c
    BY <1>1, <1>2, <2>2, <2>3 DEF Accounted
  <2>4. CASE d = c
    BY <1>1, <1>2, <2>2, <2>4 DEF Accounted, Registered
  <2> QED
    BY <2>3, <2>4
<1> QED
  BY <1>3, <1>4, <1>5, <1>6, <1>7, <1>8 DEF IInv

\* What was about to be closed is closed, and it was not a pending channel.
LEMMA DisconnectCloseStep ==
  ASSUME IInv, NEW a \in Agents, DisconnectClose(a), TypeOK'
  PROVE  IInv'
<1>1. /\ revoker[a] = "close" /\ revoker'[a] = "idle" /\ target'[a] = NoConn
      /\ \A b \in Agents : b # a => revoker'[b] = revoker[b] /\ target'[b] = target[b]
      /\ \A d \in Conns : open'[d] = IF d = target[a] THEN FALSE ELSE open[d]
  BY DEF IInv, TypeOK, DisconnectClose
<1>2. UNCHANGED <<pc, agents, status, age, revoked, crl, escaped>>
  BY DEF DisconnectClose, rowVars
<1>3. HubEntryServed' /\ CRLMatchesRow'
  BY <1>2 DEF IInv, HubEntryServed, CRLMatchesRow
<1>4. HealthyIsRouted' /\ OpenIsUpgraded'
  BY <1>1, <1>2 DEF IInv, HealthyIsRouted, OpenIsUpgraded
<1>5. TargetRegistered'
  BY <1>1, <1>2 DEF IInv, TargetRegistered
<1>6. RevocationAccounted'
  <2> SUFFICES ASSUME NEW d \in Conns, revoked[AgentOf[d]], revoker'[AgentOf[d]] \in {"idle", "close"},
                      pc[d] \in Pending \cup Registered
               PROVE  Accounted(d)'
    BY <1>2 DEF RevocationAccounted
  <2>1. AgentOf[d] \in Agents
    BY AgentHubAssumption
  <2>2. Accounted(d)
    BY <1>1, <2>1 DEF IInv, RevocationAccounted
  <2>3. CASE AgentOf[d] = a /\ target[a] = d
    <3>1. pc[d] \in Registered
      BY <1>1, <2>3, AgentHubAssumption DEF IInv, TargetRegistered, Pending, Registered
    <3> QED
      BY <1>1, <1>2, <2>3, <3>1 DEF Accounted
  <2>4. CASE ~(AgentOf[d] = a /\ target[a] = d)
    BY <1>1, <1>2, <2>1, <2>2, <2>4 DEF Accounted
  <2> QED
    BY <2>3, <2>4
<1> QED
  BY <1>3, <1>4, <1>5, <1>6 DEF IInv

LEMMA InvariantStep == IInv /\ [Next]_vars => IInv'
<1> SUFFICES ASSUME IInv, [Next]_vars PROVE IInv'
  OBVIOUS
<1> USE AgentHubAssumption, TypeStep
    DEF IInv, TypeOK, Stages, HubEntryServed, HealthyIsRouted, OpenIsUpgraded, TargetRegistered,
        CRLMatchesRow, RevocationAccounted, Accounted, Pending, Registered, hubVars, rowVars, revVars
<1>0. TypeOK'
  BY TypeStep DEF IInv
<1>1. ASSUME NEW c \in Conns, Dial(c) PROVE IInv'
  BY <1>0, <1>1 DEF Dial, Goto
<1>2. ASSUME NEW c \in Conns, CheckCRL(c) PROVE IInv'
  BY <1>0, <1>2 DEF CheckCRL, Goto, Release, IsCertRevoked
<1>3. ASSUME NEW c \in Conns, CheckRow(c) PROVE IInv'
  BY <1>0, <1>3 DEF CheckRow, Goto, Release
<1>4. ASSUME NEW c \in Conns, Upgrade(c) PROVE IInv'
  BY <1>0, <1>4 DEF Upgrade, Goto, Release
<1>5. ASSUME NEW c \in Conns, Register(c) PROVE IInv'
  BY <1>0, <1>5, RegisterStep
<1>6. ASSUME NEW c \in Conns, Announce(c) PROVE IInv'
  BY <1>0, <1>6 DEF Announce, Goto, SetStatus
<1>7. ASSUME NEW c \in Conns, ReadClosed(c) PROVE IInv'
  BY <1>0, <1>7 DEF ReadClosed, Goto
<1>8. ASSUME NEW c \in Conns, ReadGarbage(c) PROVE IInv'
  BY <1>0, <1>8 DEF ReadGarbage, Goto
<1>9. ASSUME NEW c \in Conns, Unregister(c) PROVE IInv'
  BY <1>0, <1>9 DEF Unregister, Goto
<1>10. ASSUME NEW c \in Conns, Retire(c) PROVE IInv'
  BY <1>0, <1>10 DEF Retire, Goto, Release, SetStatus
<1>11. ASSUME NEW c \in Conns, PeerGone(c) PROVE IInv'
  BY <1>0, <1>11 DEF PeerGone
<1>12. ASSUME NEW a \in Agents, RevokeTx(a) PROVE IInv'
  BY <1>0, <1>12 DEF RevokeTx
<1>13. ASSUME NEW a \in Agents, DisconnectLookup(a) PROVE IInv'
  BY <1>0, <1>13 DEF DisconnectLookup
<1>14. ASSUME NEW a \in Agents, DisconnectClose(a) PROVE IInv'
  BY <1>0, <1>14, DisconnectCloseStep
<1>15. ASSUME NEW ok \in BOOLEAN, Minute(ok) PROVE IInv'
  BY <1>0, <1>15 DEF Minute
<1>16. CASE Restart
  BY <1>0, <1>16 DEF Restart
<1>17. CASE UNCHANGED vars
  BY <1>0, <1>17 DEF vars
<1> QED
  BY ONLY [Next]_vars, <1>1, <1>2, <1>3, <1>4, <1>5, <1>6, <1>7, <1>8, <1>9, <1>10,
          <1>11, <1>12, <1>13, <1>14, <1>15, <1>16, <1>17
     DEF Next, Serve, Revoking

\* The strengthening holds of every reachable state.
THEOREM Invariance == Spec => []IInv
<1>1. Init => IInv
  <2> SUFFICES ASSUME Init PROVE IInv
    OBVIOUS
  <2>1. TypeOK
    BY AgentHubAssumption, MaxAgeNat DEF Init, TypeOK, Stages
  <2> QED
    BY <2>1, AgentHubAssumption
       DEF Init, IInv, HubEntryServed, HealthyIsRouted, OpenIsUpgraded, TargetRegistered,
           CRLMatchesRow, RevocationAccounted, Pending, Registered
<1> QED
  BY <1>1, InvariantStep, PTL DEF Spec

\* No dangling entry in Hub.agents, ever: an entry's goroutine will remove it.
THEOREM HubEntriesServed == Spec => []HubEntryServed
<1>1. IInv => HubEntryServed
  BY DEF IInv
<1> QED
  BY <1>1, Invariance, PTL

\* At most one working channel per agent, and it is the routed one.
THEOREM HealthyRouted == Spec => []HealthyIsRouted
<1>1. IInv => HealthyIsRouted
  BY DEF IInv
<1> QED
  BY <1>1, Invariance, PTL

\* Only a channel inside the window between handleAgentChannel's last check
\* and RegisterAgent survives the revocation of its agent.
THEOREM RevocationWindow == Spec => []OnlyEscapedSurvive
<1>1. IInv => OnlyEscapedSurvive
  <2> SUFFICES ASSUME IInv, NEW c \in Conns, revoked[AgentOf[c]], revoker[AgentOf[c]] = "idle",
                      pc[c] \in Registered, open[c]
               PROVE  c \in escaped
    BY DEF OnlyEscapedSurvive
  <2>1. Accounted(c)
    BY DEF IInv, RevocationAccounted
  <2> QED
    BY <2>1 DEF Accounted
<1> QED
  BY <1>1, Invariance, PTL
=============================================================================
