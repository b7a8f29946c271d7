--------------------------- MODULE SignalingProofs --------------------------
(***************************************************************************)
(* The safety of signalling and of the agent's WebRTC session, for every   *)
(* number of control sessions and pages and every length of the wire.      *)
(***************************************************************************)
EXTENDS Signaling, SequenceTheorems, TLAPS

\* A page is mounted when it leaves "idle", and is read before it offers
\* anything or anybody takes its place.
Served == {"reading", "unregister", "gone"}
Mounted ==
  \A v \in Pages :
    /\ pc[v] = "idle" <=> sess[v] = NoSession
    /\ offered[v] \/ v \in superseded => pc[v] \in Served

\* The hub's entry of a session is a page of that session, not gone; and a
\* page that is not gone has the entry until another takes it.
EntryOfSession ==
  \A s \in Sessions : viewers[s] # NoPage =>
    sess[viewers[s]] = s /\ pc[viewers[s]] \in Served \ {"gone"}
KeepsEntry ==
  \A v \in Pages : pc[v] \in Served \ {"gone"} /\ v \notin superseded => viewers[sess[v]] = v

\* A page that came too late stays outside.
LateRefused ==
  \A v \in late : row[sess[v]] = "ended" /\ pc[v] \in {"row", "gone"} /\ ~offered[v]

\* What the agent knows of pages, and what is on the wire, comes from offers;
\* a message bears the session of the page it was made for.
Offering == {v \in Pages : offered[v]}
Sent     == {m \in Messages : m.rtc \in Offering /\ m.session = sess[m.rtc]}
FromOffers ==
  /\ toAgent \in Seq(Offering) /\ fromAgent \in Seq(Sent)
  /\ {busy, current} \subseteq Offering \cup {NoPage}
  /\ live \subseteq Offering /\ gathering \subseteq Offering

\* While an offer is negotiated there is no current session.
OneAtATime == OneWebRTCSession /\ (busy # NoPage => current = NoPage)

\* The inductive invariant: types, pages, the wire, the agent, the answers.
PageInv == Mounted /\ EntryOfSession /\ KeepsEntry /\ LateRefused
IInv    == TypeOK /\ PageInv /\ FromOffers /\ OneAtATime /\ ControlIsShown /\ AnsweredForItself

-----------------------------------------------------------------------------
\* What can be done with a queue keeps its elements among those it had, those
\* it is given, and those that count as well by now.
LEMMA Queues ==
  ASSUME NEW S, NEW T, S \subseteq T, NEW q \in Seq(S)
  PROVE  /\ q \in Seq(T) /\ Len(q) \in Nat
         /\ \A e \in T : Append(q, e) \in Seq(T)
         /\ q # <<>> => Head(q) \in S /\ Tail(q) \in Seq(T)
         /\ \A n \in 0..Len(q) : SubSeq(q, 1, n) \in Seq(T)
         /\ <<>> \in Seq(T)
<1>1. q \in Seq(T) /\ Len(q) \in Nat
  BY SeqMonotonic, LenProperties
<1>2. ASSUME NEW e \in T PROVE Append(q, e) \in Seq(T)
  BY <1>1, AppendProperties
<1>3. ASSUME q # <<>> PROVE Head(q) \in S /\ Tail(q) \in Seq(T)
  BY <1>1, <1>3, HeadTailProperties
<1>4. ASSUME NEW n \in 0..Len(q) PROVE SubSeq(q, 1, n) \in Seq(T)
  <2>1. \A i \in 1..n : q[i] \in T
    BY <1>1, ElementOfSeq
  <2> QED
    BY <1>1, <2>1, SubSeqProperties
<1> QED
  BY <1>1, <1>2, <1>3, <1>4, EmptySeq

\* Steps of the server and of the pages that send nothing, ...
PageStep ==
  \/ \E s \in Sessions : StartCheck(s) \/ StartInsert(s) \/ EndSession(s)
  \/ \E v \in Pages : (\E s \in Sessions : Mount(v, s)) \/ Serve(v) \/ Leave(v)

\* ... and steps of the agent and its channel.
AgentStep ==
  \/ \E v \in Pages : CandidateFound(v) \/ Offer(v)
  \/ Answer \/ OfferFails \/ ChannelClosed \/ Connect \/ Disconnect \/ AgentRestart

\* The steps of each side, and what they leave to the other.
LEMMA Steps ==
  ASSUME [Next]_vars
  PROVE  \/ PageStep
         \/ \E v \in Pages : RouteToAgent(v)
         \/ RouteFromAgent
         \/ AgentStep
         \/ UNCHANGED vars
BY DEF Next, Signal, PageStep, AgentStep

LEMMA PageFrame ==
  PageStep => UNCHANGED <<wireVars, agentVars, offered, peerVars>>
BY DEF PageStep, Serve, StartCheck, StartInsert, EndSession, Mount, Admit, Upgrade, RegisterViewer,
       Leave, ReadFails, UnregisterViewer, pageVars, peerVars

LEMMA AgentFrame == AgentStep => UNCHANGED <<row, pageVars, hubVars>>
BY DEF AgentStep, CandidateFound, Offer, Answer, OfferFails, ChannelClosed, Connect, Disconnect,
       AgentRestart

-----------------------------------------------------------------------------
(***************************************************************************)
(* Pages and the hub's table                                               *)
(***************************************************************************)

\* What a step of a page's goroutine does to the pages, and to the entry of
\* its session.
LEMMA ServeEffect ==
  ASSUME TypeOK, NEW v \in Pages, Serve(v)
  PROVE  /\ UNCHANGED <<row, sess, offered, late>>
         /\ pc' = [pc EXCEPT ![v] = pc'[v]]
         /\ \/ /\ pc[v] = "row" /\ pc'[v] \in {"upgrade", "gone"}
               /\ pc'[v] = "upgrade" => row[sess[v]] = "active"
               /\ UNCHANGED hubVars
            \/ /\ pc[v] = "upgrade" /\ pc'[v] \in {"register", "gone"}
               /\ UNCHANGED hubVars
            \/ RegisterViewer(v)
            \/ pc[v] = "reading" /\ pc'[v] = "unregister" /\ UNCHANGED hubVars
            \/ UnregisterViewer(v)
<1> USE DEF Goto, TypeOK, Stages
<1>1. CASE Admit(v)
  BY <1>1 DEF Admit
<1>2. CASE Upgrade(v)
  BY <1>2 DEF Upgrade
<1>3. CASE RegisterViewer(v)
  BY <1>3 DEF RegisterViewer
<1>4. CASE ReadFails(v)
  BY <1>4 DEF ReadFails
<1>5. CASE UnregisterViewer(v)
  BY <1>5 DEF UnregisterViewer
<1> QED
  BY <1>1, <1>2, <1>3, <1>4, <1>5 DEF Serve

\* A page that has been mounted stays mounted for its session; what is gone,
\* replaced or offered remains so; an ended session too.
LEMMA Lasting ==
  ASSUME TypeOK, Mounted, [Next]_vars
  PROVE  /\ \A v \in Pages :
              /\ pc[v] # "idle" => sess'[v] = sess[v]
              /\ pc[v] = "gone" => pc'[v] = "gone"
              /\ offered[v] => offered'[v]
         /\ superseded \subseteq superseded'
         /\ \A s \in Sessions : row[s] = "ended" => row'[s] = "ended"
<1> USE DEF TypeOK
<1>1. ASSUME NEW s \in Sessions, StartCheck(s) \/ StartInsert(s) \/ EndSession(s)
      PROVE  /\ UNCHANGED <<sess, pc, offered, superseded>>
             /\ \A o \in Sessions : row[o] = "ended" => row'[o] = "ended"
  BY <1>1 DEF StartCheck, StartInsert, EndSession, pageVars, hubVars
<1>2. ASSUME NEW v \in Pages, NEW s \in Sessions, Mount(v, s)
      PROVE  /\ pc[v] = "idle" /\ pc' = [pc EXCEPT ![v] = "row"] /\ sess' = [sess EXCEPT ![v] = s]
             /\ UNCHANGED <<row, offered, superseded>>
  BY <1>2 DEF Mount, Goto, hubVars
<1>3. ASSUME NEW v \in Pages, Serve(v)
      PROVE  /\ UNCHANGED <<row, sess, offered>> /\ superseded \subseteq superseded'
             /\ pc[v] # "gone" /\ pc' = [pc EXCEPT ![v] = pc'[v]]
  BY <1>3, ServeEffect DEF RegisterViewer, UnregisterViewer, Goto, hubVars
<1>4. ASSUME NEW v \in Pages, Leave(v) \/ RouteToAgent(v)
      PROVE  UNCHANGED <<row, sess, pc, superseded>> /\ \A u \in Pages : offered[u] => offered'[u]
  BY <1>4 DEF Leave, RouteToAgent, hubVars
<1>5. ASSUME RouteFromAgent \/ AgentStep \/ UNCHANGED vars
      PROVE  UNCHANGED <<row, sess, pc, offered, superseded>>
  BY <1>5, AgentFrame DEF RouteFromAgent, pageVars, hubVars, vars
<1> QED
  BY <1>1, <1>2, <1>3, <1>4, <1>5, Steps DEF PageStep

\* A step keeps the pages and the table in order: only the page that has the
\* entry gives it up, and only a registering page takes it.
LEMMA PageInvStep == TypeOK /\ PageInv /\ [Next]_vars => PageInv'
<1> SUFFICES ASSUME TypeOK, PageInv, [Next]_vars PROVE PageInv'
  OBVIOUS
<1> USE SignalingAssumption
        DEF TypeOK, PageInv, Mounted, EntryOfSession, KeepsEntry, LateRefused, Served
<1>1. ASSUME NEW s \in Sessions, StartCheck(s) \/ StartInsert(s) \/ EndSession(s) PROVE PageInv'
  <2>1. UNCHANGED <<sess, pc, offered, late, viewers, superseded>>
    BY <1>1 DEF StartCheck, StartInsert, EndSession, pageVars, hubVars
  <2>2. \A o \in Sessions : row[o] = "ended" => row'[o] = "ended"
    BY <1>1 DEF StartCheck, StartInsert, EndSession
  <2>3. \A v \in late : sess[v] \in Sessions
    OBVIOUS
  <2> QED
    BY <2>1, <2>2, <2>3
<1>2. ASSUME NEW v \in Pages, NEW s \in Sessions, Mount(v, s) PROVE PageInv'
  BY <1>2 DEF Mount, Goto, hubVars
<1>3. ASSUME NEW v \in Pages, RegisterViewer(v) PROVE PageInv'
  <2>1. sess[v] \in Sessions /\ ~offered[v] /\ v \notin superseded /\ v \notin late
    BY <1>3 DEF RegisterViewer, Goto
  <2>2. /\ pc' = [pc EXCEPT ![v] = "reading"]
        /\ viewers' = [viewers EXCEPT ![sess[v]] = v]
        /\ superseded' = superseded \cup ({viewers[sess[v]]} \ {NoPage})
        /\ UNCHANGED <<row, sess, offered, late>>
    BY <1>3 DEF RegisterViewer, Goto
  <2>3. viewers[sess[v]] # NoPage => pc[viewers[sess[v]]] \in {"reading", "unregister"}
    BY <2>1
  <2>4. Mounted' /\ LateRefused'
    BY <1>3, <2>1, <2>2, <2>3 DEF RegisterViewer, Goto
  <2>5. EntryOfSession'
    BY <2>1, <2>2
  <2>6. KeepsEntry'
    BY <2>1, <2>2
  <2> QED
    BY <2>4, <2>5, <2>6
<1>4. ASSUME NEW v \in Pages, UnregisterViewer(v) PROVE PageInv'
  BY <1>4 DEF UnregisterViewer, Goto
<1>5. ASSUME NEW v \in Pages, Serve(v), ~RegisterViewer(v), ~UnregisterViewer(v) PROVE PageInv'
  <2>1. UNCHANGED <<row, sess, offered, late, viewers, superseded>>
    BY <1>5, ServeEffect DEF hubVars
  <2>2. \A u \in Pages : u # v => pc'[u] = pc[u]
    BY <1>5, ServeEffect
  <2>3. \/ pc[v] = "row" /\ pc'[v] = "upgrade" /\ row[sess[v]] = "active"
        \/ pc[v] = "row" /\ pc'[v] = "gone"
        \/ pc[v] = "upgrade" /\ pc'[v] \in {"register", "gone"}
        \/ pc[v] = "reading" /\ pc'[v] = "unregister"
    BY <1>5, ServeEffect
  <2>4. /\ pc'[v] # "idle" /\ pc[v] # "idle"
        /\ pc[v] \in Served => pc'[v] \in Served
        /\ pc[v] \in {"reading", "unregister"} <=> pc'[v] \in {"reading", "unregister"}
        /\ pc[v] = "row" /\ pc'[v] # "gone" => row[sess[v]] = "active"
    BY <2>3
  <2>5. Mounted'
    BY <2>1, <2>2, <2>4
  <2>6. LateRefused'
    BY <2>1, <2>2, <2>3, <2>4
  <2>7. \A s \in Sessions : viewers[s] \in Pages \cup {NoPage}
    OBVIOUS
  <2>8. EntryOfSession'
    BY <2>1, <2>2, <2>4, <2>7
  <2>9. KeepsEntry'
    BY <2>1, <2>2, <2>4
  <2> QED
    BY <2>5, <2>6, <2>8, <2>9
<1>6. ASSUME NEW v \in Pages, Leave(v) PROVE PageInv'
  BY <1>6 DEF Leave, hubVars
<1>7. ASSUME NEW v \in Pages, RouteToAgent(v) PROVE PageInv'
  BY <1>7 DEF RouteToAgent, hubVars
<1>8. ASSUME RouteFromAgent \/ AgentStep \/ UNCHANGED vars PROVE PageInv'
  <2>1. UNCHANGED <<row, sess, pc, offered, late, viewers, superseded>>
    BY <1>8, AgentFrame DEF RouteFromAgent, pageVars, hubVars, vars
  <2> QED
    BY <2>1
<1> QED
  BY <1>1, <1>2, <1>3, <1>4, <1>5, <1>6, <1>7, <1>8, Steps DEF PageStep

-----------------------------------------------------------------------------
(***************************************************************************)
(* The wire and the agent                                                  *)
(***************************************************************************)

\* What has been sent, and who has offered, stays so.
LEMMA SentLasts ==
  ASSUME TypeOK, PageInv, [Next]_vars
  PROVE  Offering \subseteq Offering' /\ Sent \subseteq Sent'
BY Lasting DEF TypeOK, PageInv, Mounted, Served, Offering, Sent

\* The message a page's WebRTC session sends.
LEMMA Sending ==
  ASSUME TypeOK, PageInv, NEW v \in Offering, NEW k \in {"answer", "candidate"}
  PROVE  [kind |-> k, rtc |-> v, session |-> sess[v]] \in Sent
<1>1. v \in Pages /\ sess[v] \in Sessions
  BY DEF TypeOK, PageInv, Mounted, Served, Offering
<1> QED
  BY <1>1 DEF Sent, Messages

\* A step puts nothing on the wire, and gives nothing to the agent, that does
\* not come from an offer.
LEMMA FromOffersStep == TypeOK /\ PageInv /\ FromOffers /\ [Next]_vars => FromOffers'
<1> SUFFICES ASSUME TypeOK, PageInv, FromOffers, [Next]_vars PROVE FromOffers'
  OBVIOUS
<1>1. /\ Offering \subseteq Offering' /\ Sent \subseteq Sent'
      /\ toAgent \in Seq(Offering) /\ fromAgent \in Seq(Sent)
      /\ {busy, current} \subseteq Offering \cup {NoPage}
      /\ live \subseteq Offering /\ gathering \subseteq Offering
  BY SentLasts DEF FromOffers
<1>2. toAgent \in Seq(Offering') /\ fromAgent \in Seq(Sent')
  BY <1>1, Queues
<1>3. ASSUME UNCHANGED <<wireVars, agentVars>> PROVE FromOffers'
  BY <1>1, <1>2, <1>3 DEF FromOffers, wireVars, agentVars
<1>4. ASSUME NEW v \in Pages, RouteToAgent(v) PROVE FromOffers'
  <2>1. v \in Offering'
    BY <1>4 DEF RouteToAgent, Offering, TypeOK
  <2>2. toAgent' \in Seq(Offering')
    BY <1>1, <1>4, <2>1, Queues DEF RouteToAgent
  <2> QED
    BY <1>1, <1>2, <1>4, <2>2 DEF RouteToAgent, FromOffers, agentVars
<1>5. CASE RouteFromAgent
  <2>1. fromAgent' \in Seq(Sent')
    BY <1>1, <1>5, Queues DEF RouteFromAgent
  <2> QED
    BY <1>1, <1>2, <1>5, <2>1 DEF RouteFromAgent, FromOffers, agentVars
<1>6. ASSUME NEW v \in Pages, CandidateFound(v) PROVE FromOffers'
  <2>1. [kind |-> "candidate", rtc |-> v, session |-> sess[v]] \in Sent'
    BY <1>1, <1>6, Sending DEF CandidateFound
  <2>2. fromAgent' \in Seq(Sent')
    BY <1>1, <1>2, <1>6, <2>1, Queues DEF CandidateFound, Send
  <2> QED
    BY <1>1, <1>2, <1>6, <2>2 DEF CandidateFound, FromOffers
<1>7. ASSUME NEW v \in Pages, Offer(v) PROVE FromOffers'
  <2>1. v \in Offering /\ toAgent' \in Seq(Offering')
    BY <1>1, <1>7, Queues DEF Offer, Received
  <2> QED
    BY <1>1, <1>2, <1>7, <2>1 DEF Offer, NewSession, Close, FromOffers
<1>8. CASE Answer
  <2>1. busy \in Offering /\ [kind |-> "answer", rtc |-> busy, session |-> sess[busy]] \in Sent'
    BY <1>1, <1>8, Sending DEF Answer
  <2>2. fromAgent' \in Seq(Sent')
    BY <1>1, <1>2, <1>8, <2>1, Queues DEF Answer, Send
  <2> QED
    BY <1>1, <1>2, <1>8, <2>1, <2>2 DEF Answer, FromOffers
<1>9. CASE OfferFails
  BY <1>1, <1>2, <1>9 DEF OfferFails, HandleOfferFails, Close, FromOffers, wireVars
<1>10. CASE ChannelClosed
  BY <1>1, <1>2, <1>10 DEF ChannelClosed, Close, FromOffers
<1>11. CASE Connect
  BY <1>1, <1>2, <1>11 DEF Connect, FromOffers, agentVars
<1>12. CASE Disconnect
  <2>1. toAgent' \in Seq(Offering') /\ fromAgent' \in Seq(Sent')
    BY <1>1, <1>12, Queues DEF Disconnect, Lose
  <2> QED
    BY <1>1, <1>12, <2>1 DEF Disconnect, FromOffers, agentVars
<1>13. CASE AgentRestart
  <2>1. toAgent' \in Seq(Offering') /\ fromAgent' \in Seq(Sent')
    BY <1>1, <1>13, Queues DEF AgentRestart
  <2> QED
    BY <1>1, <1>13, <2>1 DEF AgentRestart, FromOffers
<1>14. CASE PageStep
  BY <1>3, <1>14, PageFrame
<1>15. CASE UNCHANGED vars
  BY <1>3, <1>15 DEF vars, wireVars, agentVars
<1> QED
  BY <1>4, <1>5, <1>6, <1>7, <1>8, <1>9, <1>10, <1>11, <1>12, <1>13, <1>14, <1>15, Steps
  DEF AgentStep

\* A step keeps one WebRTC session at most, and the status true to it: a new
\* one is created when the last one has been closed.
LEMMA AgentInvStep ==
  TypeOK /\ OneAtATime /\ ControlIsShown /\ [Next]_vars => OneAtATime' /\ ControlIsShown'
<1> SUFFICES ASSUME TypeOK, OneAtATime, ControlIsShown, [Next]_vars
             PROVE  OneAtATime' /\ ControlIsShown'
  OBVIOUS
<1> USE SignalingAssumption DEF TypeOK, OneAtATime, OneWebRTCSession, ControlIsShown
<1>1. ASSUME UNCHANGED agentVars PROVE OneAtATime' /\ ControlIsShown'
  BY <1>1 DEF agentVars
<1>2. ASSUME NEW v \in Pages, CandidateFound(v) PROVE OneAtATime' /\ ControlIsShown'
  BY <1>2 DEF CandidateFound, shown
<1>3. ASSUME NEW v \in Pages, Offer(v) PROVE OneAtATime' /\ ControlIsShown'
  BY <1>3 DEF Offer, Received, NewSession, Close
<1>4. CASE Answer
  BY <1>4 DEF Answer
<1>5. CASE OfferFails
  BY <1>5 DEF OfferFails, Close
<1>6. CASE ChannelClosed
  BY <1>6 DEF ChannelClosed, Close
<1>7. CASE AgentRestart
  BY <1>7 DEF AgentRestart
<1>8. ASSUME \/ PageStep \/ \E v \in Pages : RouteToAgent(v)
             \/ RouteFromAgent \/ Connect \/ Disconnect \/ UNCHANGED vars
      PROVE  UNCHANGED agentVars
  BY <1>8, PageFrame DEF RouteToAgent, RouteFromAgent, Connect, Disconnect, vars, agentVars
<1> QED
  BY <1>1, <1>2, <1>3, <1>4, <1>5, <1>6, <1>7, <1>8, Steps DEF AgentStep

\* A step keeps the types.
LEMMA TypeStep ==
  TypeOK /\ PageInv /\ FromOffers /\ [Next]_vars => TypeOK'
<1> SUFFICES ASSUME TypeOK, PageInv, FromOffers, [Next]_vars PROVE TypeOK'
  OBVIOUS
<1>1. /\ toAgent' \in Seq(Pages) /\ fromAgent' \in Seq(Messages)
      /\ busy' \in Pages \cup {NoPage} /\ current' \in Pages \cup {NoPage}
      /\ live' \in SUBSET Pages /\ gathering' \in SUBSET Pages
  <2>1. FromOffers'
    BY FromOffersStep
  <2>2. Offering' \subseteq Pages /\ Sent' \subseteq Messages
    BY DEF Offering, Sent
  <2> QED
    BY <2>1, <2>2, Queues DEF FromOffers
<1> USE DEF TypeOK, Stages, Goto, peerVars, pageVars, hubVars, wireVars, agentVars, shown
<1>2. ASSUME NEW s \in Sessions, StartCheck(s) \/ StartInsert(s) \/ EndSession(s) PROVE TypeOK'
  BY <1>1, <1>2 DEF StartCheck, StartInsert, EndSession
<1>3. ASSUME NEW v \in Pages, NEW s \in Sessions, Mount(v, s) PROVE TypeOK'
  BY <1>1, <1>3 DEF Mount
<1>4. ASSUME NEW v \in Pages, Admit(v) \/ Upgrade(v) PROVE TypeOK'
  BY <1>1, <1>4 DEF Admit, Upgrade
<1>5. ASSUME NEW v \in Pages, RegisterViewer(v) PROVE TypeOK'
  <2>1. sess[v] \in Sessions /\ viewers[sess[v]] \in Pages \cup {NoPage}
    BY <1>5 DEF RegisterViewer, PageInv, Mounted
  <2> QED
    BY <1>1, <1>5, <2>1 DEF RegisterViewer
<1>6. ASSUME NEW v \in Pages, ReadFails(v) \/ Leave(v) PROVE TypeOK'
  BY <1>1, <1>6 DEF ReadFails, Leave
<1>7. ASSUME NEW v \in Pages, UnregisterViewer(v) PROVE TypeOK'
  BY <1>1, <1>7 DEF UnregisterViewer
<1>8. ASSUME NEW v \in Pages, RouteToAgent(v) PROVE TypeOK'
  BY <1>1, <1>8 DEF RouteToAgent
<1>9. CASE RouteFromAgent
  <2>1. Head(fromAgent) \in Messages
    BY <1>9, Queues DEF RouteFromAgent
  <2> DEFINE m == Head(fromAgent)
  <2>2. m.rtc \in Pages
    BY <2>1 DEF Messages
  <2> HIDE DEF m
  <2>3. (UNCHANGED peerVars) \/ \E v \in Pages \cup {NoPage} : v # NoPage /\ Receive(v, m)
    BY <1>9, <2>1 DEF RouteFromAgent, Viewer, Messages, m
  <2>4. applied' \in [Pages -> Pages \cup {NoPage}] /\ misfed' \in [Pages -> SUBSET Pages]
    <3>1. ASSUME NEW v \in Pages, Receive(v, m)
          PROVE  \/ UNCHANGED peerVars
                 \/ applied' = [applied EXCEPT ![v] = m.rtc] /\ misfed' = misfed
                 \/ misfed' = [misfed EXCEPT ![v] = @ \cup ({m.rtc} \ {v})] /\ applied' = applied
      BY <3>1 DEF Receive
    <3> QED
      BY <2>2, <2>3, <3>1
  <2> QED
    BY <1>1, <1>9, <2>4 DEF RouteFromAgent
<1>10. CASE AgentStep
  <2>1. UNCHANGED <<row, pageVars, hubVars>>
    BY <1>10, AgentFrame
  <2>2. link' \in {"up", "closing", "down"} /\ active' \in BOOLEAN /\ failed' \in BOOLEAN
    BY <1>10 DEF AgentStep, CandidateFound, Offer, Answer, OfferFails, ChannelClosed,
                 Connect, Disconnect, AgentRestart
  <2> QED
    BY <1>1, <2>1, <2>2
<1>11. CASE UNCHANGED vars
  BY <1>11 DEF vars
<1> QED
  BY <1>2, <1>3, <1>4, <1>5, <1>6, <1>7, <1>8, <1>9, <1>10, <1>11, Steps DEF PageStep, Serve

-----------------------------------------------------------------------------
(***************************************************************************)
(* What a page applies                                                     *)
(***************************************************************************)

\* A page that offered has either kept its session's entry, lost it to
\* another page, or gone.
LEMMA EntryOrReplaced ==
  ASSUME TypeOK, PageInv, NEW w \in Offering, NEW v \in Pages,
         viewers[sess[w]] = v, v # w
  PROVE  sess[v] = sess[w] /\ (w \in superseded \/ pc[w] = "gone")
<1>1. w \in Pages /\ pc[w] \in Served /\ sess[w] \in Sessions
  BY DEF Offering, TypeOK, PageInv, Mounted, Served
<1>2. v # NoPage
  BY SignalingAssumption
<1> QED
  BY <1>1, <1>2 DEF PageInv, EntryOfSession, KeepsEntry, Served

\* A page is only ever fed by its own WebRTC session, or by that of a page
\* that was replaced or is gone, which stays so.
LEMMA AnswersStep ==
  TypeOK /\ PageInv /\ FromOffers /\ AnsweredForItself /\ [Next]_vars => AnsweredForItself'
<1> SUFFICES ASSUME TypeOK, PageInv, FromOffers, AnsweredForItself, [Next]_vars,
                    NEW v \in Pages, NEW w \in Pages,
                    (w # v /\ applied'[v] = w) \/ w \in misfed'[v]
             PROVE  sess'[w] = sess'[v] /\ (w \in superseded' \/ pc'[w] = "gone")
  BY DEF AnsweredForItself
<1>1. ASSUME sess[w] = sess[v], w \in superseded \/ pc[w] = "gone"
      PROVE  sess'[w] = sess'[v] /\ (w \in superseded' \/ pc'[w] = "gone")
  <2>1. pc[w] # "idle" /\ pc[v] # "idle"
    BY <1>1 DEF PageInv, Mounted, Served
  <2> QED
    BY <1>1, <2>1, Lasting DEF PageInv
<1>2. CASE (w # v /\ applied[v] = w) \/ w \in misfed[v]
  BY <1>1, <1>2 DEF AnsweredForItself
<1>3. CASE ~((w # v /\ applied[v] = w) \/ w \in misfed[v])
  <2> DEFINE m == Head(fromAgent)
  <2>1. applied'[v] # applied[v] \/ misfed'[v] # misfed[v]
    BY <1>3
  <2>2. RouteFromAgent
    <3>1. \/ PageStep \/ \E u \in Pages : RouteToAgent(u)
          \/ AgentStep \/ UNCHANGED vars
          => UNCHANGED <<applied, misfed>>
      BY PageFrame, AgentFrame DEF RouteToAgent, peerVars, pageVars, vars
    <3> QED
      BY <2>1, <3>1, Steps
  <2>3. m \in Sent
    BY <2>2, Queues DEF RouteFromAgent, FromOffers
  <2>4. m.rtc \in Offering /\ m.session = sess[m.rtc]
    BY <2>3 DEF Sent
  <2>5. Viewer(m) = v /\ w = m.rtc /\ w # v
    <3>1. Viewer(m) # NoPage /\ Receive(Viewer(m), m)
      BY <2>1, <2>2 DEF RouteFromAgent, peerVars
    <3> HIDE DEF m
    <3> QED
      BY <1>3, <2>1, <3>1 DEF Receive, TypeOK, peerVars
  <2>6. sess[v] = sess[w] /\ (w \in superseded \/ pc[w] = "gone")
    BY <2>4, <2>5, EntryOrReplaced DEF Viewer
  <2> QED
    BY <1>1, <2>6
<1> QED
  BY <1>2, <1>3

-----------------------------------------------------------------------------
\* The invariant holds in every reachable state.
THEOREM Invariance == Spec => []IInv
<1>1. Init => IInv
  <2> SUFFICES ASSUME Init PROVE IInv
    OBVIOUS
  <2>1. toAgent \in Seq(Pages) /\ toAgent \in Seq(Offering)
        /\ fromAgent \in Seq(Messages) /\ fromAgent \in Seq(Sent)
    BY EmptySeq DEF Init
  <2>2. TypeOK
    BY <2>1 DEF Init, TypeOK, Stages
  <2>3. PageInv
    BY SignalingAssumption
    DEF Init, PageInv, Mounted, EntryOfSession, KeepsEntry, LateRefused, Served
  <2>4. FromOffers
    BY <2>1 DEF Init, FromOffers
  <2>5. OneAtATime /\ ControlIsShown
    BY DEF Init, OneAtATime, OneWebRTCSession, ControlIsShown
  <2>6. AnsweredForItself
    BY SignalingAssumption DEF Init, AnsweredForItself
  <2> QED
    BY <2>2, <2>3, <2>4, <2>5, <2>6 DEF IInv
<1>2. IInv /\ [Next]_vars => IInv'
  BY TypeStep, PageInvStep, FromOffersStep, AgentInvStep, AnswersStep DEF IInv
<1> QED
  BY <1>1, <1>2, PTL DEF Spec

\* The variables of server, pages and agent keep their types; every message
\* on the wire names a session and a page.
THEOREM TypeCorrect == Spec => []TypeOK
<1>1. IInv => TypeOK
  BY DEF IInv
<1> QED
  BY <1>1, Invariance, PTL

\* A page's clean-up takes no other page's route (Hub.RegisterViewer).
THEOREM LastRouted == Spec => []LastViewerRouted
<1>1. IInv => LastViewerRouted
  BY DEF IInv, PageInv, KeepsEntry, Served, LastViewerRouted
<1> QED
  BY <1>1, Invariance, PTL

\* The agent has one WebRTC session open at most (handleSignal).
THEOREM OneSession == Spec => []OneWebRTCSession
<1>1. IInv => OneWebRTCSession
  BY DEF IInv, OneAtATime
<1> QED
  BY <1>1, Invariance, PTL

\* No page applies an answer or adds a candidate that was made for a page of
\* another session, or for one whose place it has not taken (routeFromAgent).
THEOREM AnswersForItself == Spec => []AnsweredForItself
<1>1. IInv => AnsweredForItself
  BY DEF IInv
<1> QED
  BY <1>1, Invariance, PTL

\* The local status shows every current session (handleSignal).
THEOREM ControlShown == Spec => []ControlIsShown
<1>1. IInv => ControlIsShown
  BY DEF IInv
<1> QED
  BY <1>1, Invariance, PTL

\* An ended session is not resumed (handleWebSocket).
THEOREM NotResumed == Spec => []EndedIsNotResumed
<1>1. IInv => EndedIsNotResumed
  BY DEF IInv, PageInv, LateRefused, FromOffers, Offering, EndedIsNotResumed
<1> QED
  BY <1>1, Invariance, PTL
=============================================================================
