----------------------------- MODULE Signaling ------------------------------
(***************************************************************************)
(* The control sessions of one agent: their rows, the browser pages that   *)
(* show them, the relaying of WebRTC signalling by the hub, and the one    *)
(* WebRTC session the agent keeps (runSession and handleSignal) and shows  *)
(* in its local status.                                                    *)
(*                                                                         *)
(* A page makes one offer, so the page names the WebRTC session the agent  *)
(* creates for it. The hop from the hub to the agent (WebSocket, then the  *)
(* Message channel) is one queue, and so is the way back.                  *)
(*                                                                         *)
(* Abstracted: SDP and candidates are opaque, a WebRTC session sends one   *)
(* candidate, and the agent's channel, modelled in AgentHub, is up,        *)
(* closing (cut; the agent still drains its queue) or down. Left out: the  *)
(* pages' candidates, which handleSignal hands to the WebRTC library, what *)
(* is drawn and typed, the audit rows. No program sends "session-end".     *)
(***************************************************************************)
EXTENDS Integers, Sequences

CONSTANTS
  Sessions,  \* control_sessions rows of the agent: bounds the behaviours
  Pages,     \* SessionViewer pages ever mounted: bounds the behaviours
  NoSession, \* a page not mounted yet
  NoPage,    \* nil: no viewer, no WebRTC session
  Wire       \* messages on their way from the agent: a bound

ASSUME SignalingAssumption ==
  NoSession \notin Sessions /\ NoPage \notin Pages /\ Wire \in Nat \ {0}

VARIABLES
  row,        \* status of a control session; "checked": about to be inserted
  sess,       \* the session a page is mounted for
  pc,         \* where handleWebSocket and RegisterViewer stand for a page
  wsOpen,     \* the page's WebSocket is open at the browser's end
  offered,    \* the page's offer has been relayed
  applied,    \* the WebRTC session whose answer the page has applied
  misfed,     \* those, not its own, whose candidates it has added
  viewers,    \* Hub.viewers: session -> page, or NoPage
  link,       \* the agent's channel
  toAgent,    \* offers on their way to handleSignal
  fromAgent,  \* messages on their way to routeFromAgent
  busy,       \* the WebRTC session handleSignal is negotiating
  current,    \* runSession's current
  live,       \* WebRTC sessions created and not closed
  gathering,  \* WebRTC sessions with a candidate still to send
  active,     \* Status.SessionActive
  failed,     \* history: the last offer taken came to nothing
  superseded, \* history: pages registered and then replaced in Hub.viewers
  late        \* history: pages mounted when their session had ended

peerVars  == <<applied, misfed>>
pageVars  == <<sess, pc, wsOpen, offered, applied, misfed, late>>
hubVars   == <<viewers, superseded>>
wireVars  == <<link, toAgent, fromAgent>>
shown     == <<active, failed>>
agentVars == <<busy, current, live, gathering, active, failed>>
vars == <<row, sess, pc, wsOpen, offered, applied, misfed, viewers, link, toAgent,
          fromAgent, busy, current, live, gathering, active, failed,
          superseded, late>>

\* "row", "upgrade", "register": in handleWebSocket. "reading", "unregister":
\* in RegisterViewer.
Stages   == {"idle", "row", "upgrade", "register", "reading", "unregister", "gone"}
Messages == [kind : {"answer", "candidate"}, rtc : Pages, session : Sessions]

TypeOK ==
  /\ row \in [Sessions -> {"none", "checked", "active", "ended"}]
  /\ sess \in [Pages -> Sessions \cup {NoSession}]
  /\ pc \in [Pages -> Stages]
  /\ wsOpen \in [Pages -> BOOLEAN]
  /\ offered \in [Pages -> BOOLEAN]
  /\ applied \in [Pages -> Pages \cup {NoPage}]
  /\ misfed \in [Pages -> SUBSET Pages]
  /\ viewers \in [Sessions -> Pages \cup {NoPage}]
  /\ link \in {"up", "closing", "down"}
  /\ toAgent \in Seq(Pages)
  /\ fromAgent \in Seq(Messages)
  /\ busy \in Pages \cup {NoPage}
  /\ current \in Pages \cup {NoPage}
  /\ live \in SUBSET Pages /\ gathering \in SUBSET Pages
  /\ active \in BOOLEAN /\ failed \in BOOLEAN
  /\ superseded \in SUBSET Pages /\ late \in SUBSET Pages

Init ==
  /\ row = [s \in Sessions |-> "none"]
  /\ sess = [v \in Pages |-> NoSession]
  /\ pc = [v \in Pages |-> "idle"]
  /\ wsOpen = [v \in Pages |-> FALSE]
  /\ offered = [v \in Pages |-> FALSE]
  /\ applied = [v \in Pages |-> NoPage]
  /\ misfed = [v \in Pages |-> {}]
  /\ viewers = [s \in Sessions |-> NoPage]
  /\ link = "down" /\ toAgent = <<>> /\ fromAgent = <<>>
  /\ busy = NoPage /\ current = NoPage /\ live = {} /\ gathering = {}
  /\ active = FALSE /\ failed = FALSE
  /\ superseded = {} /\ late = {}

(***************************************************************************)
(* control_sessions                                                        *)
(***************************************************************************)

\* handleStartSession finds the agent connected ...
StartCheck(s) ==
  /\ row[s] = "none" /\ link = "up"
  /\ row' = [row EXCEPT ![s] = "checked"]
  /\ UNCHANGED <<pageVars, hubVars, wireVars, agentVars>>

\* ... and inserts the row, connected or not by now.
StartInsert(s) ==
  /\ row[s] = "checked"
  /\ row' = [row EXCEPT ![s] = "active"]
  /\ UNCHANGED <<pageVars, hubVars, wireVars, agentVars>>

\* Mutant: writes a status that control_sessions does not know.
EndSessionClosed(s) ==
  /\ row[s] = "active"
  /\ row' = [row EXCEPT ![s] = "closed"]
  /\ UNCHANGED <<pageVars, hubVars, wireVars, agentVars>>

\* handleEndSession, called by the clean-up of a page the user leaves or by
\* another client of the API: only the row changes.
EndSession(s) ==
  /\ row[s] = "active"
  /\ row' = [row EXCEPT ![s] = "ended"]
  /\ UNCHANGED <<pageVars, hubVars, wireVars, agentVars>>

(***************************************************************************)
(* SessionViewer, handleWebSocket and Hub.RegisterViewer                   *)
(***************************************************************************)

Goto(v, from, to) ==
  /\ pc[v] = from
  /\ pc' = [pc EXCEPT ![v] = to]

\* The page opens, or is loaded again, and dials /ws.
Mount(v, s) ==
  /\ row[s] \in {"active", "ended"}
  /\ Goto(v, "idle", "row")
  /\ sess' = [sess EXCEPT ![v] = s]
  /\ late' = IF row[s] = "ended" THEN late \cup {v} ELSE late
  /\ UNCHANGED <<row, wsOpen, offered, peerVars, hubVars, wireVars, agentVars>>

\* Mutant: does not look at the session's status.
AdmitAnyStatus(v) ==
  /\ \/ Goto(v, "row", "upgrade")
     \/ Goto(v, "row", "gone")
  /\ UNCHANGED <<row, sess, wsOpen, offered, peerVars, late, hubVars, wireVars, agentVars>>

\* GetByID and the test on the row, or a refusal (token, owner, database).
Admit(v) ==
  /\ \/ Goto(v, "row", "upgrade") /\ row[sess[v]] = "active"
     \/ Goto(v, "row", "gone")
  /\ UNCHANGED <<row, sess, wsOpen, offered, peerVars, late, hubVars, wireVars, agentVars>>

\* The WebSocket handshake.
Upgrade(v) ==
  /\ \/ Goto(v, "upgrade", "register") /\ wsOpen' = [wsOpen EXCEPT ![v] = TRUE]
     \/ Goto(v, "upgrade", "gone") /\ UNCHANGED wsOpen
  /\ UNCHANGED <<row, sess, offered, peerVars, late, hubVars, wireVars, agentVars>>

\* The page takes the session's entry. One it replaces is neither closed nor
\* told: its own goroutine keeps reading it.
RegisterViewer(v) ==
  /\ Goto(v, "register", "reading")
  /\ viewers' = [viewers EXCEPT ![sess[v]] = v]
  /\ superseded' = superseded \cup ({viewers[sess[v]]} \ {NoPage})
  /\ UNCHANGED <<row, sess, wsOpen, offered, peerVars, late, wireVars, agentVars>>

\* A turn of the read loop and routeToAgent: the page's offer goes to the
\* agent registered by now, or nowhere.
RouteToAgent(v) ==
  /\ pc[v] = "reading" /\ wsOpen[v] /\ ~offered[v]
  /\ offered' = [offered EXCEPT ![v] = TRUE]
  /\ toAgent' = IF link = "up" THEN Append(toAgent, v) ELSE toAgent
  /\ UNCHANGED <<row, sess, pc, wsOpen, peerVars, late, hubVars, link, fromAgent, agentVars>>

\* The user leaves the page, which closes its connections and calls
\* EndSession; or closes or reloads the tab, and no clean-up runs; or loses
\* the network.
Leave(v) ==
  /\ wsOpen[v]
  /\ wsOpen' = [wsOpen EXCEPT ![v] = FALSE]
  /\ UNCHANGED <<row, sess, pc, offered, peerVars, late, hubVars, wireVars, agentVars>>

\* ReadJSON fails.
ReadFails(v) ==
  /\ ~wsOpen[v]
  /\ Goto(v, "reading", "unregister")
  /\ UNCHANGED <<row, sess, wsOpen, offered, peerVars, late, hubVars, wireVars, agentVars>>

\* Mutant: deletes the session's entry, whoever's it is.
UnregisterViewerAny(v) ==
  /\ Goto(v, "unregister", "gone")
  /\ viewers' = [viewers EXCEPT ![sess[v]] = NoPage]
  /\ UNCHANGED <<row, sess, wsOpen, offered, peerVars, late, superseded, wireVars, agentVars>>

\* The deferred function of RegisterViewer.
UnregisterViewer(v) ==
  /\ Goto(v, "unregister", "gone")
  /\ viewers' = IF viewers[sess[v]] = v THEN [viewers EXCEPT ![sess[v]] = NoPage]
                                        ELSE viewers
  /\ UNCHANGED <<row, sess, wsOpen, offered, peerVars, late, superseded, wireVars, agentVars>>

\* Mutant: a viewer of the agent, whatever its session.
AnyViewer(m) ==
  LET vs == {viewers[s] : s \in Sessions} \ {NoPage}
  IN IF vs = {} THEN NoPage ELSE CHOOSE v \in vs : TRUE

\* routeFromAgent: whoever is the session's viewer, if any.
Viewer(m) == viewers[m.session]

\* SessionViewer's onmessage. An answer is applied by a page that has made
\* its offer (shortly before it is relayed) and has had no other; a candidate
\* is added once an answer is applied. Anything else is an error of the
\* browser's, shown to nobody.
Receive(v, m) ==
  CASE m.kind = "answer" /\ applied[v] = NoPage ->
         /\ \/ applied' = [applied EXCEPT ![v] = m.rtc]
            \/ UNCHANGED applied /\ ~offered[v]
         /\ UNCHANGED misfed
    [] m.kind = "candidate" /\ applied[v] # NoPage ->
         /\ misfed' = [misfed EXCEPT ![v] = @ \cup ({m.rtc} \ {v})]
         /\ UNCHANGED applied
    [] OTHER -> UNCHANGED peerVars

RouteFromAgent ==
  /\ fromAgent # <<>>
  /\ fromAgent' = Tail(fromAgent)
  /\ LET m == Head(fromAgent)
         v == Viewer(m)
     IN IF v # NoPage /\ wsOpen[v] THEN Receive(v, m) ELSE UNCHANGED peerVars
  /\ UNCHANGED <<row, sess, pc, wsOpen, offered, late, hubVars, link, toAgent, agentVars>>

(***************************************************************************)
(* The agent: runSession and handleSignal                                  *)
(***************************************************************************)

\* Client.Send blocks while the wire is full. What is written to a channel
\* already cut goes nowhere.
Send(m) ==
  /\ Len(fromAgent) < Wire
  /\ fromAgent' = IF link = "up" THEN Append(fromAgent, m) ELSE fromAgent

\* handleSignal takes the next message, once it is done with the last one.
Received(v) ==
  /\ link # "down" /\ busy = NoPage
  /\ toAgent # <<>>
  /\ v = Head(toAgent)
  /\ toAgent' = Tail(toAgent)

\* rtcsession: NewSession, beside those in others, with a candidate to send ...
NewSession(v, others) ==
  /\ live' = others \cup {v}
  /\ gathering' = gathering \cup {v}

\* ... HandleOffer, whose last call starts to look for them, failing ...
HandleOfferFails == gathering' \in {gathering, gathering \ {busy}}

\* ... and Close: what is open but for v. Callbacks may still be running.
Close(v) == live \ {v}

\* Mutant: forgets the current session without closing it.
OfferForgets(v) ==
  /\ Received(v)
  /\ current' = NoPage
  /\ \/ NewSession(v, live) /\ busy' = v /\ UNCHANGED failed
     \/ failed' = TRUE /\ UNCHANGED <<busy, gathering, live>>
  /\ UNCHANGED <<row, pageVars, hubVars, link, fromAgent, active>>

\* An offer closes the current session, whosever it is, and creates one. A
\* payload or a WebRTC error leaves the agent with none, and with the status
\* it had.
Offer(v) ==
  /\ Received(v)
  /\ current' = NoPage
  /\ \/ NewSession(v, Close(current)) /\ busy' = v /\ UNCHANGED failed
     \/ live' = Close(current) /\ failed' = TRUE /\ UNCHANGED <<busy, gathering>>
  /\ UNCHANGED <<row, pageVars, hubVars, link, fromAgent, active>>

\* Mutant: updates the status once the answer is on its way, which it may
\* not be.
AnswerUnshown ==
  /\ busy # NoPage
  /\ current' = busy
  /\ busy' = NoPage
  /\ failed' = FALSE
  /\ Send([kind |-> "answer", rtc |-> busy, session |-> sess[busy]])
  /\ active' = (active \/ link = "up")
  /\ UNCHANGED <<row, pageVars, hubVars, link, toAgent, live, gathering>>

\* HandleOffer succeeds: the session becomes the current one, the status
\* says so (at once: only this goroutine reads current), and the answer is
\* sent, whether or not anybody gets it ...
Answer ==
  /\ busy # NoPage
  /\ current' = busy
  /\ busy' = NoPage
  /\ active' = TRUE /\ failed' = FALSE
  /\ Send([kind |-> "answer", rtc |-> busy, session |-> sess[busy]])
  /\ UNCHANGED <<row, pageVars, hubVars, link, toAgent, live, gathering>>

\* ... or fails, and the session is closed, before or after it has started to
\* gather candidates. The status stays as it was.
OfferFails ==
  /\ busy # NoPage
  /\ HandleOfferFails
  /\ live' = Close(busy)
  /\ busy' = NoPage
  /\ failed' = TRUE
  /\ UNCHANGED <<row, pageVars, hubVars, wireVars, current, active>>

\* OnICECandidate's callback, on a goroutine of the WebRTC library, before or
\* after the answer is sent, and possibly while the session is being closed.
CandidateFound(v) ==
  /\ v \in gathering
  /\ gathering' = gathering \ {v}
  /\ Send([kind |-> "candidate", rtc |-> v, session |-> sess[v]])
  /\ UNCHANGED <<row, pageVars, hubVars, link, toAgent, busy, current, live, shown>>

\* Mutant: runSession does not close the session it leaves.
ChannelClosedOnly ==
  /\ link = "closing" /\ toAgent = <<>> /\ busy = NoPage
  /\ link' = "down"
  /\ gathering' = {}
  /\ UNCHANGED <<row, pageVars, hubVars, toAgent, fromAgent, busy, current, live, shown>>

\* The Message channel is drained and closed: runSession returns, and its
\* deferred closeCurrent and status update run. What the library has still to
\* send is lost.
ChannelClosed ==
  /\ link = "closing" /\ toAgent = <<>> /\ busy = NoPage
  /\ link' = "down"
  /\ current' = NoPage
  /\ live' = Close(current)
  /\ active' = FALSE /\ failed' = FALSE
  /\ gathering' = {}
  /\ UNCHANGED <<row, pageVars, hubVars, toAgent, fromAgent, busy>>

(***************************************************************************)
(* The agent's channel and process                                         *)
(***************************************************************************)

\* run's loop connects (again), ten seconds after a loss.
Connect ==
  /\ link = "down"
  /\ link' = "up"
  /\ UNCHANGED <<row, pageVars, hubVars, toAgent, fromAgent, agentVars>>

\* What was sent last is lost with the channel, in both directions.
Lose == \E m \in 0..Len(toAgent), n \in 0..Len(fromAgent) :
          /\ toAgent' = SubSeq(toAgent, 1, m)
          /\ fromAgent' = SubSeq(fromAgent, 1, n)

\* The channel is cut: revocation, a newer channel, the network, the server.
Disconnect ==
  /\ link = "up"
  /\ link' = "closing"
  /\ Lose
  /\ UNCHANGED <<row, pageVars, hubVars, agentVars>>

\* The agent's process ends, because its service is stopped, its machine goes
\* down or it panics, and is started again. Two goroutines that write to the
\* channel at once (handleSignal and a candidate's callback hold no lock) may be
\* the reason of a panic: the WebSocket library raises it when it notices.
AgentRestart ==
  /\ link' = "down"
  /\ toAgent' = <<>>
  /\ \E n \in 0..Len(fromAgent) : fromAgent' = SubSeq(fromAgent, 1, n)
  /\ busy' = NoPage /\ current' = NoPage /\ live' = {} /\ gathering' = {}
  /\ active' = FALSE /\ failed' = FALSE
  /\ UNCHANGED <<row, pageVars, hubVars>>

Serve(v) == \/ Admit(v) \/ Upgrade(v) \/ RegisterViewer(v) \/ ReadFails(v)
            \/ UnregisterViewer(v)

Signal == (\E v \in Pages : Offer(v)) \/ Answer \/ OfferFails \/ ChannelClosed

Next ==
  \/ \E s \in Sessions : StartCheck(s) \/ StartInsert(s) \/ EndSession(s)
  \/ \E v \in Pages :
       \/ \E s \in Sessions : Mount(v, s)
       \/ Serve(v)
       \/ RouteToAgent(v)
       \/ Leave(v)
       \/ CandidateFound(v)
  \/ RouteFromAgent
  \/ Signal
  \/ Connect
  \/ Disconnect
  \/ AgentRestart

(***************************************************************************)
(* Fairness: goroutines that are not blocked run. Users, networks and the  *)
(* agent's machine owe nothing.                                            *)
(***************************************************************************)
Fairness ==
  /\ \A v \in Pages : WF_vars(Serve(v)) /\ WF_vars(RouteToAgent(v))
  /\ WF_vars(RouteFromAgent)
  /\ WF_vars(Signal)

Spec     == Init /\ [][Next]_vars
FairSpec == Spec /\ Fairness

-----------------------------------------------------------------------------
(***************************************************************************)
(* Properties                                                              *)
(***************************************************************************)

\* The clean-up of an old page never takes the route of the page that
\* replaced it: a page that is still being read, and that no other page has
\* replaced, is the one its session's messages are routed to.
LastViewerRouted ==
  \A v \in Pages : pc[v] = "reading" /\ v \notin superseded => viewers[sess[v]] = v

\* The machine is never shared: the agent keeps at most one WebRTC session
\* open, its current one or the one being negotiated, whatever order offers,
\* failures and cuts come in.
OneWebRTCSession == live \subseteq {current, busy}

\* A page answers for itself: the answer it applies and the candidates it
\* adds come from the WebRTC session made for it, or from the one made for a
\* page of the same control session whose place it has taken. (The latter
\* does happen: the server does not tell the pages of a session apart.)
AnsweredForItself ==
  \A v, w \in Pages :
    (w # v /\ applied[v] = w) \/ w \in misfed[v]
      => sess[w] = sess[v] /\ (w \in superseded \/ pc[w] = "gone")

\* The user of the machine is told: a session that has become current is
\* shown by the local status. Without one the status may still say so, but
\* only while an offer is being negotiated or after one has failed.
ControlIsShown ==
  /\ current # NoPage => active
  /\ active /\ current = NoPage => busy # NoPage \/ failed

\* A session that has ended is not resumed: a page loaded after the end is
\* never relayed to the agent and gets no WebRTC session.
EndedIsNotResumed ==
  \A v \in late : ~offered[v] /\ v \notin live

\* Cutting the agent's channel finally ends the remote control, though the
\* media does not go through the server: the agent drains what it was sent,
\* an offer included, and closes what it has.
CutEndsControl == link = "closing" ~> live = {}

-----------------------------------------------------------------------------
(***************************************************************************)
(* What the documentation says, and the code does not do                   *)
(***************************************************************************)

\* The WebSocket carries the "commandes de controle hors media
\* (demarrage/fin de session" (docs/ARCHITECTURE.md:75): a control session
\* that ends is finally closed at the agent.
EndReachesAgent ==
  \A s \in Sessions :
    row[s] = "ended" ~> (current = NoPage \/ sess[current] # s)
=============================================================================
