-------------------------- MODULE EnrollmentProofs --------------------------
(***************************************************************************)
(* Enrolment is safe for any number of machines, tokens and attempts, and  *)
(* implements Identities.                                                  *)
(***************************************************************************)
EXTENDS Enrollment, TLAPS

(***************************************************************************)
(* The certificate authority                                               *)
(***************************************************************************)

\* A root has been served once all of its files, and the last one written is
\* the key: a key that can be read is one of a complete creation.
CAComplete ==
  \/ served = {} /\ boot # "up" /\ caFiles["key"] \in {Absent, Torn}
  \/ \E r \in Roots : /\ served = {r}
                      /\ boot \in {"down", "up"}
                      /\ \A f \in CAFiles : caFiles[f] = r

\* A creation in progress has written the files before the current one.
CAProgress ==
  /\ boot \in CAFiles => drawn \in Roots
  /\ boot \in {"salt", "key"} => caFiles["cert"] = drawn
  /\ boot = "key" => caFiles["salt"] = drawn
  /\ boot = "up" => served = {root} /\ signer = root /\ root \in Roots

CAInv == CATypeOK /\ CAComplete /\ CAProgress

(***************************************************************************)
(* The tables                                                              *)
(***************************************************************************)

\* Attempts to which a token has been granted and not yet lost.
Holder(e) == e \in rows \/ stage[e] \in {"sign", "insert", "link"}

Holds ==
  /\ \A e \in Attempts : Holder(e) => token[presented[e]] = "used"
  /\ \A d, e \in Attempts : Holder(d) /\ Holder(e) /\ presented[d] = presented[e] => d = e

\* A row is there before it is linked and answered, with a certificate
\* signed under the only root.
Recorded ==
  \A e \in Attempts :
    /\ stage[e] \in {"link", "answered"} => e \in rows
    /\ e \in rows \/ stage[e] = "insert" => issuer[e] \in Roots /\ served = {issuer[e]}

Linked ==
  \A t \in Tokens : usedBy[t] # NoAttempt =>
    usedBy[t] \in rows /\ presented[usedBy[t]] = t

(***************************************************************************)
(* The machines                                                            *)
(***************************************************************************)

\* An attempt is one machine's, and has been sent once and answered.
Own ==
  /\ \A m, n \in Machines : cur[m] = cur[n] /\ cur[m] # NoAttempt => m = n
  /\ \A m \in Machines :
       /\ cur[m] # NoAttempt => stage[cur[m]] # "unused"
       /\ proc[m] \in {"key", "post"} => stage[cur[m]] = "made"
       /\ proc[m] \in {"cert", "ca", "id"} => stage[cur[m]] = "answered"

\* What a machine's files hold of the attempt being made.
Written ==
  \A m \in Machines :
    /\ proc[m] \in {"post", "wait", "cert", "ca", "id"} => files[m]["key"] = cur[m]
    /\ proc[m] \in {"ca", "id"} => files[m]["cert"] = cur[m]
    /\ proc[m] = "id" => files[m]["ca"] = cur[m]
    /\ proc[m] \in Attempting \ {"id"} => files[m]["ca"] = Absent
    /\ proc[m] = "id" => files[m]["id"] = Absent

\* The CA's file is only written after a key and a certificate, and read
\* back only if both were of its attempt; the id is written after it.
Ordered ==
  \A m \in Machines :
    /\ files[m]["ca"] # Absent => files[m]["key"] # Absent /\ files[m]["cert"] # Absent
    /\ files[m]["ca"] \notin Attempts => files[m]["id"] = Absent
    /\ files[m]["ca"] \in Attempts =>
         /\ files[m]["key"] = files[m]["ca"] /\ files[m]["cert"] = files[m]["ca"]
         /\ files[m]["id"] \in {files[m]["ca"], Absent, Torn}
         /\ files[m]["ca"] \in rows

\* The key of an attempt is on one machine only: the one that is making it,
\* or has made it.
KeyOwn ==
  \A m \in Machines :
    LET e == files[m]["key"] IN
    e \in Attempts =>
      /\ stage[e] # "unused"
      /\ \A n \in Machines : cur[n] = e \/ files[n]["key"] = e => n = m

IInv == /\ TypeOK /\ CAInv
        /\ Holds /\ Recorded /\ Linked
        /\ Own /\ KeyOwn /\ Written /\ Ordered

-----------------------------------------------------------------------------
\* Starting and stopping the server keeps the files of a creation together,
\* and a root that has been served remains the only one.
LEMMA CAStep ==
  ASSUME CAInv, Load \/ Create \/ CreateWrite \/ CAStop
  PROVE  CAInv' /\ (served # {} => served' = served)
<1> USE EnrollmentAssumption DEF CAInv, CATypeOK, CAComplete, CAProgress, CAFiles, Roots
<1>1. CASE Load
  <2>1. PICK r \in Roots : served = {r} /\ \A f \in CAFiles : caFiles[f] = r
    BY <1>1 DEF Load
  <2> QED
    BY <1>1, <2>1 DEF Load, Up
<1>2. CASE Create
  <2>1. served = {}
    BY <1>2 DEF Create
  <2>2. caFiles["key"] \in {Absent, Torn}
    BY <2>1
  <2> QED
    BY <1>2, <2>1, <2>2 DEF Create
<1>3. CASE CreateWrite
  <2>1. served = {} /\ boot \in CAFiles /\ drawn \in Roots
    BY <1>3 DEF CreateWrite
  <2>2. CASE boot = "key"
    BY <1>3, <2>1, <2>2 DEF CreateWrite, Up
  <2>3. CASE boot # "key"
    BY <1>3, <2>1, <2>3 DEF CreateWrite
  <2> QED
    BY <2>2, <2>3
<1>4. CASE CAStop
  <2>1. CASE UNCHANGED caFiles
    BY <1>4, <2>1 DEF CAStop
  <2>2. CASE boot \in CAFiles /\ caFiles' = [caFiles EXCEPT ![boot] = Torn]
    BY <1>4, <2>2 DEF CAStop
  <2> QED
    BY <1>4, <2>1, <2>2 DEF CAStop
<1> QED
  BY <1>1, <1>2, <1>3, <1>4

\* A step keeps the types.
LEMMA TypeStep == IInv /\ [Next]_vars => TypeOK'
<1> SUFFICES ASSUME IInv, [Next]_vars PROVE TypeOK'
  OBVIOUS
<1> USE EnrollmentAssumption
    DEF IInv, TypeOK, Attempting, InFlight, Files, caVars, tblVars, reqVars, macVars, Goto, Down
<1>0. ASSUME UNCHANGED caVars PROVE CATypeOK'
  BY <1>0 DEF CATypeOK
<1>1. ASSUME NEW e \in Attempts, Handle(e) PROVE TypeOK'
  <2>1. CASE Consume(e)
    BY <1>0, <2>1 DEF Consume
  <2>2. CASE Sign(e)
    BY <1>0, <2>2 DEF Sign, CATypeOK
  <2>3. CASE Insert(e)
    BY <1>0, <2>3 DEF Insert
  <2>4. CASE LinkAgent(e)
    BY <1>0, <2>4 DEF LinkAgent
  <2>5. CASE Abort(e)
    BY <1>0, <2>5 DEF Abort
  <2> QED
    BY <1>1, <2>1, <2>2, <2>3, <2>4, <2>5 DEF Handle
<1>2. ASSUME NEW t \in Tokens, Expire(t) PROVE TypeOK'
  BY <1>0, <1>2 DEF Expire
<1>3. CASE ServerStart
  BY <1>3, CAStep DEF ServerStart, CAInv
<1>4. CASE ServerStop
  BY <1>4, CAStep DEF ServerStop, CAInv
<1>5. ASSUME NEW m \in Machines, Agent(m) PROVE TypeOK'
  <2>1. ASSUME NEW e \in Attempts, Enroll(m, e) PROVE TypeOK'
    BY <1>0, <2>1 DEF Enroll
  <2>2. CASE Start(m)
    BY <1>0, <2>2 DEF Start
  <2>3. CASE Write(m)
    <3>1. After[proc[m]] \in Attempting \cup {"load"} /\ (After[proc[m]] = "load" <=> proc[m] = "id")
      BY <2>3 DEF Write, After
    <3>2. files' = [files EXCEPT ![m][proc[m]] = cur[m]] /\ cur[m] \in Attempts
      BY <2>3 DEF Write
    <3>3. files' \in [Machines -> [Files -> Attempts \cup {Absent, Torn}]]
      BY <3>2
    <3> QED
      BY <1>0, <2>3, <3>1, <3>3 DEF Write
  <2>4. CASE Post(m)
    <3>1. cur[m] \in Attempts /\ proc[m] \in Attempting
      BY <2>4 DEF Post
    <3>2. CASE stage' = [stage EXCEPT ![cur[m]] = "consume"] /\ proc' = [proc EXCEPT ![m] = "wait"]
      BY <1>0, <2>4, <3>1, <3>2 DEF Post
    <3>3. CASE UNCHANGED stage
      BY <1>0, <2>4, <3>1, <3>3 DEF Post
    <3> QED
      BY <2>4, <3>2, <3>3 DEF Post
  <2>5. CASE Receive(m)
    <3>1. cur[m] \in Attempts /\ proc[m] \in Attempting
      BY <2>5 DEF Receive
    <3>2. CASE proc' = [proc EXCEPT ![m] = "cert"] /\ UNCHANGED cur
      BY <1>0, <2>5, <3>1, <3>2 DEF Receive
    <3>3. CASE Down(m)
      BY <1>0, <2>5, <3>1, <3>3 DEF Receive
    <3> QED
      BY <2>5, <3>2, <3>3 DEF Receive
  <2>6. CASE LoadIdentity(m)
    BY <1>0, <2>6 DEF LoadIdentity
  <2>7. CASE Stop(m)
    BY <1>0, <2>7 DEF Stop
  <2> QED
    BY <1>5, <2>1, <2>2, <2>3, <2>4, <2>5, <2>6, <2>7 DEF Agent
<1>6. CASE UNCHANGED vars
  BY <1>0, <1>6 DEF vars
<1> QED
  BY <1>1, <1>2, <1>3, <1>4, <1>5, <1>6 DEF Next

\* Only the server's own steps touch the CA.
LEMMA CAKept == IInv /\ [Next]_vars => CAInv' /\ (served # {} => served' = served)
<1> SUFFICES ASSUME IInv, [Next]_vars PROVE CAInv' /\ (served # {} => served' = served)
  OBVIOUS
<1>1. CASE ServerStart \/ ServerStop
  BY <1>1, CAStep DEF IInv, ServerStart, ServerStop
<1>2. CASE UNCHANGED caVars
  BY <1>2 DEF IInv, CAInv, CATypeOK, CAComplete, CAProgress, caVars
<1> QED
  BY <1>1, <1>2
  DEF Next, Handle, Agent, vars, Consume, Sign, Insert, LinkAgent, Abort, Expire,
      Enroll, Start, Write, Post, Receive, LoadIdentity, Stop

\* Requests and tables: a token is granted once, and what an agent is
\* answered is recorded.
LEMMA TablesStep == IInv /\ [Next]_vars => Holds' /\ Recorded' /\ Linked'
<1> SUFFICES ASSUME IInv, [Next]_vars PROVE Holds' /\ Recorded' /\ Linked'
  OBVIOUS
<1>0. /\ \A e \in Attempts : e \in rows \/ stage[e] = "insert" => served' = {issuer[e]}
      /\ boot = "up" => signer \in Roots /\ served = {signer}
  <2>1. \A e \in Attempts : e \in rows \/ stage[e] = "insert" => served = {issuer[e]}
    BY DEF IInv, Recorded
  <2>2. served # {} => served' = served
    BY CAKept
  <2>3. boot = "up" => signer \in Roots /\ served = {signer}
    BY DEF IInv, CAInv, CAProgress
  <2> QED
    BY ONLY <2>1, <2>2, <2>3
<1> USE EnrollmentAssumption
    DEF IInv, TypeOK, Holds, Holder, Recorded, Linked, InFlight, Goto
<1>1. ASSUME NEW e \in Attempts, Consume(e) PROVE Holds' /\ Recorded' /\ Linked'
  BY <1>0, <1>1 DEF Consume, caVars
<1>2. ASSUME NEW e \in Attempts, Sign(e) PROVE Holds' /\ Recorded' /\ Linked'
  <2>1. Holds' /\ Linked'
    BY <1>2 DEF Sign, tblVars
  <2>2. Recorded'
    BY <1>0, <1>2 DEF Sign, caVars, tblVars, CATypeOK, Roots
  <2> QED
    BY <2>1, <2>2
<1>3. ASSUME NEW e \in Attempts, Insert(e) PROVE Holds' /\ Recorded' /\ Linked'
  BY <1>0, <1>3 DEF Insert, caVars
<1>4. ASSUME NEW e \in Attempts, LinkAgent(e) PROVE Holds' /\ Recorded' /\ Linked'
  BY <1>0, <1>4 DEF LinkAgent, caVars
<1>5. ASSUME NEW e \in Attempts, Abort(e) PROVE Holds' /\ Recorded' /\ Linked'
  BY <1>0, <1>5 DEF Abort, caVars, tblVars
<1>6. ASSUME NEW t \in Tokens, Expire(t) PROVE Holds' /\ Recorded' /\ Linked'
  BY <1>0, <1>6 DEF Expire, caVars, reqVars
<1>7. CASE ServerStart
  BY <1>0, <1>7 DEF ServerStart, tblVars, reqVars
<1>8. CASE ServerStop
  BY <1>0, <1>8 DEF ServerStop, tblVars
<1>9. ASSUME NEW m \in Machines, NEW e \in Attempts, Enroll(m, e)
      PROVE  Holds' /\ Recorded' /\ Linked'
  BY <1>0, <1>9 DEF Enroll, caVars, tblVars
<1>10. ASSUME NEW m \in Machines, Post(m) PROVE Holds' /\ Recorded' /\ Linked'
  BY <1>0, <1>10 DEF Post, caVars, tblVars, Attempting
<1>11. CASE UNCHANGED <<caVars, tblVars, reqVars>>
  BY <1>0, <1>11 DEF caVars, tblVars, reqVars
<1> QED
  BY <1>1, <1>2, <1>3, <1>4, <1>5, <1>6, <1>7, <1>8, <1>9, <1>10, <1>11
  DEF Next, Handle, Agent, vars, Start, Write, Receive, LoadIdentity, Stop

\* The attempts: one machine each, which the server answers once.
LEMMA OwnStep == IInv /\ [Next]_vars => Own'
<1> SUFFICES ASSUME IInv, [Next]_vars PROVE Own'
  OBVIOUS
<1> USE EnrollmentAssumption DEF IInv, TypeOK, Own, Attempting, InFlight, Files, Goto, Down
<1>1. ASSUME NEW e \in Attempts, Handle(e) PROVE Own'
  <2>1. /\ stage[e] \in InFlight
        /\ \E s \in InFlight \cup {"answered", "failed"} : stage' = [stage EXCEPT ![e] = s]
        /\ UNCHANGED macVars
    BY <1>1 DEF Handle, Consume, Sign, Insert, LinkAgent, Abort
  <2> QED
    BY <2>1 DEF macVars
<1>2. CASE ServerStop
  BY <1>2 DEF ServerStop, macVars
<1>3. ASSUME NEW m \in Machines, NEW e \in Attempts, Enroll(m, e) PROVE Own'
  BY <1>3 DEF Enroll
<1>4. ASSUME NEW m \in Machines, Start(m) PROVE Own'
  BY <1>4 DEF Start, reqVars
<1>5. ASSUME NEW m \in Machines, Write(m) PROVE Own'
  BY <1>5 DEF Write, After, reqVars
<1>6. ASSUME NEW m \in Machines, Post(m) PROVE Own'
  <2>1. cur[m] \in Attempts /\ \A n \in Machines \ {m} : cur[n] # cur[m]
    BY <1>6 DEF Post
  <2>2. CASE /\ stage' = [stage EXCEPT ![cur[m]] = "consume"]
             /\ proc' = [proc EXCEPT ![m] = "wait"]
             /\ UNCHANGED cur
    <3>1. \A n \in Machines \ {m} : cur[n] # NoAttempt => stage'[cur[n]] = stage[cur[n]]
      BY <2>1, <2>2
    <3>2. \A n \in Machines \ {m} : proc'[n] = proc[n]
      BY <2>2
    <3>3. proc'[m] = "wait" /\ stage'[cur[m]] = "consume"
      BY <2>1, <2>2
    <3> QED
      BY <2>2, <3>1, <3>2, <3>3
  <2>3. CASE Down(m) /\ UNCHANGED stage
    BY <2>3
  <2> QED
    BY <1>6, <2>2, <2>3 DEF Post
<1>7. ASSUME NEW m \in Machines, Receive(m) PROVE Own'
  BY <1>7 DEF Receive, reqVars
<1>8. ASSUME NEW m \in Machines, LoadIdentity(m) PROVE Own'
  BY <1>8 DEF LoadIdentity, reqVars
<1>9. ASSUME NEW m \in Machines, Stop(m) PROVE Own'
  BY <1>9 DEF Stop, reqVars
<1>10. CASE UNCHANGED <<stage, macVars>>
  BY <1>10 DEF macVars
<1> QED
  BY <1>1, <1>2, <1>3, <1>4, <1>5, <1>6, <1>7, <1>8, <1>9, <1>10
  DEF Next, Agent, vars, reqVars, Expire, ServerStart

\* The files: each one written over whatever an earlier attempt has left.
LEMMA FilesStep == IInv /\ [Next]_vars => Written' /\ Ordered'
<1> SUFFICES ASSUME IInv, [Next]_vars PROVE Written' /\ Ordered'
  OBVIOUS
<1> USE EnrollmentAssumption DEF IInv, TypeOK, Written, Ordered, Attempting, Files, Down
<1>0. rows \subseteq rows'
  BY DEF Next, Handle, Agent, vars, tblVars, Consume, Sign, Insert, LinkAgent, Abort, Expire,
         ServerStart, ServerStop, Enroll, Start, Write, Post, Receive, LoadIdentity, Stop
<1>1. ASSUME NEW m \in Machines, NEW e \in Attempts, Enroll(m, e) PROVE Written' /\ Ordered'
  BY <1>0, <1>1 DEF Enroll, IsEnrolled
<1>2. ASSUME NEW m \in Machines, Start(m) PROVE Written' /\ Ordered'
  BY <1>0, <1>2 DEF Start
<1>3. ASSUME NEW m \in Machines, Write(m) PROVE Written' /\ Ordered'
  <2>1. cur[m] \in Attempts
    BY <1>3 DEF Write
  <2>2. /\ files' = [files EXCEPT ![m][proc[m]] = cur[m]]
        /\ proc' = [proc EXCEPT ![m] = After[proc[m]]]
        /\ \A n \in Machines \ {m} : cur'[n] = cur[n]
        /\ proc[m] # "id" => cur' = cur
    BY <1>3 DEF Write
  <2>3. CASE proc[m] = "key"
    BY <1>0, <2>1, <2>2, <2>3 DEF After
  <2>4. CASE proc[m] = "cert"
    BY <1>0, <2>1, <2>2, <2>4 DEF After
  <2>5. CASE proc[m] = "ca"
    <3>1. cur[m] \in rows
      BY <2>1, <2>5 DEF Own, Recorded
    <3> QED
      BY <1>0, <2>1, <2>2, <2>5, <3>1 DEF After
  <2>6. CASE proc[m] = "id"
    BY <1>0, <2>1, <2>2, <2>6 DEF After
  <2> QED
    BY <1>3, <2>3, <2>4, <2>5, <2>6 DEF Write
<1>4. ASSUME NEW m \in Machines, Post(m) PROVE Written' /\ Ordered'
  BY <1>0, <1>4 DEF Post
<1>5. ASSUME NEW m \in Machines, Receive(m) PROVE Written' /\ Ordered'
  BY <1>0, <1>5 DEF Receive
<1>6. ASSUME NEW m \in Machines, LoadIdentity(m) PROVE Written' /\ Ordered'
  BY <1>0, <1>6 DEF LoadIdentity
<1>7. ASSUME NEW m \in Machines, Stop(m) PROVE Written' /\ Ordered'
  <2>1. Written'
    BY <1>7 DEF Stop
  <2>2. Ordered'
    BY <1>0, <1>7 DEF Stop
  <2> QED
    BY <2>1, <2>2
<1>8. CASE UNCHANGED macVars
  BY <1>0, <1>8 DEF macVars
<1> QED
  BY <1>1, <1>2, <1>3, <1>4, <1>5, <1>6, <1>7, <1>8
  DEF Next, Handle, Agent, vars, Consume, Sign, Insert, LinkAgent, Abort, Expire,
      ServerStart, ServerStop

\* A key is written by the machine whose attempt it is of, which no other
\* machine has made.
LEMMA KeyOwnStep == IInv /\ [Next]_vars => KeyOwn'
<1> SUFFICES ASSUME IInv, [Next]_vars PROVE KeyOwn'
  OBVIOUS
<1> USE EnrollmentAssumption DEF IInv, TypeOK, Own, KeyOwn, Attempting, InFlight, Files, Goto, Down
<1>1. ASSUME NEW e \in Attempts, Handle(e) PROVE KeyOwn'
  <2>1. /\ stage[e] \in InFlight
        /\ \E s \in InFlight \cup {"answered", "failed"} : stage' = [stage EXCEPT ![e] = s]
        /\ UNCHANGED macVars
    BY <1>1 DEF Handle, Consume, Sign, Insert, LinkAgent, Abort
  <2> QED
    BY <2>1 DEF macVars
<1>2. CASE ServerStop
  BY <1>2 DEF ServerStop, macVars
<1>3. ASSUME NEW m \in Machines, NEW e \in Attempts, Enroll(m, e) PROVE KeyOwn'
  BY <1>3 DEF Enroll
<1>4. ASSUME NEW m \in Machines, Start(m) PROVE KeyOwn'
  BY <1>4 DEF Start, reqVars
<1>5. ASSUME NEW m \in Machines, Write(m) PROVE KeyOwn'
  <2>1. /\ cur[m] \in Attempts /\ stage[cur[m]] # "unused" /\ stage' = stage
        /\ \A n \in Machines : cur'[n] \in {cur[n], NoAttempt}
    BY <1>5 DEF Write, reqVars
  <2>2. \A n \in Machines \ {m} : files'[n] = files[n]
    BY <1>5 DEF Write
  <2>3. files'[m]["key"] = IF proc[m] = "key" THEN cur[m] ELSE files[m]["key"]
    BY <1>5 DEF Write
  <2>4. \A n \in Machines \ {m} : cur[n] # cur[m]
    BY <2>1
  <2>5. CASE proc[m] = "key"
    <3>1. files'[m]["key"] = cur[m]
      BY <2>3, <2>5
    <3>2. \A n \in Machines \ {m} : files[n]["key"] # cur[m]
      BY <2>1
    <3>3. \A n \in Machines : cur'[n] = cur[m] \/ files'[n]["key"] = cur[m] => n = m
      BY <2>1, <2>2, <2>4, <3>2
    <3>4. ASSUME NEW n \in Machines \ {m}, files[n]["key"] \in Attempts
          PROVE  /\ stage'[files'[n]["key"]] # "unused"
                 /\ \A p \in Machines :
                      cur'[p] = files'[n]["key"] \/ files'[p]["key"] = files'[n]["key"] => p = n
      BY <2>1, <2>2, <3>1, <3>2, <3>4
    <3>5. ASSUME NEW n \in Machines, files'[n]["key"] \in Attempts
          PROVE  /\ stage'[files'[n]["key"]] # "unused"
                 /\ \A p \in Machines :
                      cur'[p] = files'[n]["key"] \/ files'[p]["key"] = files'[n]["key"] => p = n
      <4>1. CASE n = m
        BY ONLY <2>1, <3>1, <3>3, <4>1
      <4>2. CASE n # m
        BY ONLY <2>2, <3>4, <3>5, <4>2
      <4> QED
        BY <4>1, <4>2
    <3> QED
      BY ONLY <3>5 DEF KeyOwn
  <2>6. CASE proc[m] # "key"
    <3>1. \A n \in Machines : files'[n]["key"] = files[n]["key"]
      BY ONLY <2>2, <2>3, <2>6
    <3>2. KeyOwn /\ NoAttempt \notin Attempts
      OBVIOUS
    <3> QED
      BY ONLY <2>1, <3>1, <3>2 DEF KeyOwn
  <2> QED
    BY <2>5, <2>6
<1>6. ASSUME NEW m \in Machines, Post(m) PROVE KeyOwn'
  BY <1>6 DEF Post
<1>7. ASSUME NEW m \in Machines, Receive(m) PROVE KeyOwn'
  BY <1>7 DEF Receive, reqVars
<1>8. ASSUME NEW m \in Machines, LoadIdentity(m) PROVE KeyOwn'
  BY <1>8 DEF LoadIdentity, reqVars
<1>9. ASSUME NEW m \in Machines, Stop(m) PROVE KeyOwn'
  BY <1>9 DEF Stop, reqVars
<1>10. CASE UNCHANGED <<stage, macVars>>
  BY <1>10 DEF macVars
<1> QED
  BY <1>1, <1>2, <1>3, <1>4, <1>5, <1>6, <1>7, <1>8, <1>9, <1>10
  DEF Next, Agent, vars, reqVars, Expire, ServerStart

LEMMA InvariantStep == IInv /\ [Next]_vars => IInv'
  BY TypeStep, CAKept, TablesStep, OwnStep, KeyOwnStep, FilesStep DEF IInv

LEMMA InitInvariant == Init => IInv
<1> SUFFICES ASSUME Init PROVE IInv
  OBVIOUS
<1> USE EnrollmentAssumption DEF Init, CAInit
<1>1. TypeOK /\ CAInv
  BY DEF TypeOK, CAInv, CATypeOK, CAComplete, CAProgress, CAFiles, Attempting, InFlight, Files
<1>2. Holds /\ Recorded /\ Linked
  BY DEF Holds, Holder, Recorded, Linked
<1>3. Own /\ KeyOwn /\ Written /\ Ordered
  BY DEF Own, KeyOwn, Written, Ordered, Attempting, Files
<1> QED
  BY <1>1, <1>2, <1>3 DEF IInv

-----------------------------------------------------------------------------
\* The inductive invariant: the CA's files, the tables and each machine's
\* files tell the same story, wherever a process is interrupted.
THEOREM Invariance == Spec => []IInv
<1>1. Init => IInv
  BY InitInvariant
<1>2. IInv /\ [Next]_vars => IInv'
  BY InvariantStep
<1> QED
  BY <1>1, <1>2, PTL DEF Spec

\* The types hold in every reachable state: a process is enrolling exactly
\* while it acts for an attempt.
THEOREM TypeCorrect == Spec => []TypeOK
<1>1. IInv => TypeOK
  BY DEF IInv
<1> QED
  BY <1>1, Invariance, PTL

\* A server that is up has the CA it always had (ca.LoadOrCreate), however
\* often its creation was interrupted.
THEOREM StableRoot == Spec => []RootIsStable
<1>1. IInv => RootIsStable
  BY DEF IInv, CAInv, CAProgress, RootIsStable
<1> QED
  BY <1>1, Invariance, PTL

\* A token makes one agent at most (EnrollmentRepo.Consume), for any number
\* of machines and requests.
THEOREM SingleUse == Spec => []OneAgentPerToken
<1>1. IInv => OneAgentPerToken
  BY DEF IInv, TypeOK, Holds, Holder, Linked, OneAgentPerToken
<1> QED
  BY <1>1, Invariance, PTL

\* The files identity.IsEnrolled finds are of one attempt, known to the
\* server and issued by its CA.
THEOREM CoherentIdentity == Spec => []IdentityCoherent
<1>1. IInv => IdentityCoherent
  <2> SUFFICES ASSUME IInv, NEW m \in Machines,
                      \A f \in {"key", "cert", "ca"} : files[m][f] \in Attempts
               PROVE  /\ files[m]["cert"] = files[m]["key"]
                      /\ files[m]["ca"] = files[m]["key"]
                      /\ files[m]["id"] \in {files[m]["key"], Absent, Torn}
                      /\ files[m]["key"] \in rows
                      /\ boot = "up" => issuer[files[m]["key"]] = root
    BY DEF IdentityCoherent
  <2>1. /\ files[m]["cert"] = files[m]["key"]
        /\ files[m]["ca"] = files[m]["key"]
        /\ files[m]["id"] \in {files[m]["key"], Absent, Torn}
        /\ files[m]["key"] \in rows
    BY DEF IInv, Ordered
  <2>2. boot = "up" => issuer[files[m]["key"]] = root
    BY <2>1 DEF IInv, Recorded, CAInv, CAProgress
  <2> QED
    BY <2>1, <2>2
<1> QED
  BY <1>1, Invariance, PTL

\* An identity that loads is never overwritten: Enroll is not called once
\* IsEnrolled holds, and no other step writes the files.
THEOREM KeptIdentity == Spec => IdentityKept
<1>1. IInv /\ [Next]_vars => \A m \in Machines : Loads(m) => Loads(m)'
  <2> SUFFICES ASSUME IInv, [Next]_vars, NEW m \in Machines, Loads(m) PROVE Loads(m)'
    OBVIOUS
  <2>1. proc[m] \notin Files
    BY EnrollmentAssumption DEF IInv, TypeOK, Written, Attempting, Files, Loads
  <2>2. ASSUME NEW n \in Machines, Write(n) \/ Stop(n) PROVE files'[m] = files[m]
    BY <2>1, <2>2 DEF IInv, TypeOK, Write, Stop
  <2>3. files'[m] = files[m]
    BY <2>2 DEF Next, Handle, Agent, vars, macVars, Consume, Sign, Insert, LinkAgent, Abort, Expire,
                ServerStart, ServerStop, Enroll, Start, Post, Receive, LoadIdentity
  <2> QED
    BY <2>3 DEF Loads
<1> QED
  BY <1>1, Invariance, PTL DEF Spec, IdentityKept

-----------------------------------------------------------------------------
(***************************************************************************)
(* The refinement of Identities                                            *)
(***************************************************************************)

\* Recorded certificates do not change: a second signature would be the same.
LEMMA CertificatesLast ==
  ASSUME IInv, [Next]_vars
  PROVE  /\ presented' = presented /\ rows \subseteq rows'
         /\ \A e \in rows : Certificate(e)' = Certificate(e)
<1>1. presented' = presented /\ rows \subseteq rows'
  BY DEF Next, Handle, Agent, vars, reqVars, tblVars, Consume, Sign, Insert, LinkAgent, Abort, Expire,
         ServerStart, ServerStop, Enroll, Start, Write, Post, Receive, LoadIdentity, Stop
<1>2. ASSUME NEW e \in rows PROVE issuer'[e] = issuer[e]
  <2>1. ASSUME NEW d \in Attempts, Sign(d) PROVE issuer'[e] = issuer[e]
    <3>1. boot = "up" /\ issuer' = [issuer EXCEPT ![d] = signer]
      BY <2>1 DEF Sign, Goto
    <3>2. served = {signer} /\ served = {issuer[e]}
      BY <3>1 DEF IInv, TypeOK, CAInv, CAProgress, Recorded
    <3> QED
      BY <3>1, <3>2 DEF IInv, TypeOK
  <2> QED
    BY <2>1 DEF Next, Handle, Agent, vars, reqVars, Consume, Insert, LinkAgent, Abort, Expire,
         ServerStart, ServerStop, Enroll, Start, Write, Post, Receive, LoadIdentity, Stop
<1> QED
  BY <1>1, <1>2 DEF Certificate

\* A machine that starts with a certificate has one of the table, which it
\* shares with no other machine.
LEMMA HeldOnce ==
  ASSUME IInv, NEW m \in Machines, Loads(m)
  PROVE  /\ files[m]["cert"] \in rows /\ files[m]["cert"] = files[m]["key"]
         /\ \A n \in Machines : Loads(n) /\ Certificate(files[n]["cert"]) = Certificate(files[m]["cert"])
                                => n = m
<1>1. \A n \in Machines : Loads(n) => files[n]["cert"] \in rows /\ files[n]["cert"] = files[n]["key"]
                                     /\ files[n]["key"] \in Attempts
  BY DEF IInv, Ordered, Loads
<1>2. ASSUME NEW n \in Machines, Loads(n),
             Certificate(files[n]["cert"]) = Certificate(files[m]["cert"])
      PROVE  n = m
  <2>1. presented[files[n]["cert"]] = presented[files[m]["cert"]]
    BY <1>2 DEF Certificate
  <2>2. files[n]["cert"] = files[m]["cert"]
    BY <1>1, <1>2, <2>1 DEF IInv, TypeOK, Holds, Holder
  <2> QED
    BY <1>1, <1>2, <2>2 DEF IInv, KeyOwn
<1> QED
  BY <1>1, <1>2

\* INSERT of an agent issues the certificate, unless it was there.
LEMMA InsertIssues ==
  ASSUME IInv, NEW e \in Attempts, Insert(e)
  PROVE  \/ Promise!Next
         \/ UNCHANGED <<served, certificates, holding>>
<1>1. /\ stage[e] = "insert" /\ rows' = rows \cup {e}
      /\ UNCHANGED <<served, presented, issuer, files>>
  BY DEF Insert, Goto, caVars, macVars
<1>2. holding' = holding
  BY <1>1 DEF holding, Loads, Certificate
<1>3. certificates' = certificates \cup {Certificate(e)}
  BY <1>1 DEF certificates, Certificate
<1>4. CASE e \in rows
  BY <1>1, <1>2, <1>3, <1>4 DEF certificates
<1>5. CASE e \notin rows
  <2>1. \A c \in certificates : c.token # presented[e]
    BY <1>1, <1>5 DEF certificates, Certificate, IInv, TypeOK, Holds, Holder
  <2>2. issuer[e] \in served /\ presented[e] \in Tokens
    BY <1>1 DEF IInv, TypeOK, Recorded
  <2>3. Promise!Issue(presented[e])
    BY <1>1, <1>2, <1>3, <2>1, <2>2 DEF Promise!Issue, Certificate
  <2> QED
    BY <2>2, <2>3 DEF Promise!Next
<1> QED
  BY <1>4, <1>5

\* A step on a machine's files gives it the certificate, if it now loads.
LEMMA FilesAdopt ==
  ASSUME IInv, IInv', NEW m \in Machines, Write(m) \/ Stop(m)
  PROVE  \/ Promise!Next
         \/ UNCHANGED <<served, certificates, holding>>
<1>1. /\ UNCHANGED <<served, rows, presented, issuer>>
      /\ \A n \in Machines \ {m} : files'[n] = files[n]
      /\ files'[m] = files[m] \/ proc[m] \in Files
  BY DEF Write, Stop, caVars, tblVars, reqVars, IInv, TypeOK
<1>2. certificates' = certificates
  BY <1>1 DEF certificates, Certificate
<1>3. \A n \in Machines \ {m} : holding'[n] = holding[n]
  BY <1>1 DEF holding, Loads, Certificate
<1>4. CASE files'[m] = files[m] \/ (~Loads(m)' /\ ~Loads(m))
  <2>1. holding'[m] = holding[m]
    BY <1>1, <1>4 DEF holding, Loads, Certificate
  <2> QED
    BY <1>1, <1>2, <1>3, <2>1 DEF holding
<1>5. CASE proc[m] \in Files /\ Loads(m)'
  <2> DEFINE c == Certificate(files'[m]["cert"])
  <2>1. ~Loads(m)
    BY <1>5, EnrollmentAssumption DEF IInv, TypeOK, Written, Attempting, Files, Loads
  <2>2. /\ files'[m]["cert"] \in rows
        /\ \A n \in Machines \ {m} : ~(Loads(n) /\ Certificate(files[n]["cert"]) = c)
    <3>1. files'[m]["cert"] \in rows'
      BY <1>5 DEF IInv, Ordered, Loads
    <3>2. ASSUME NEW n \in Machines \ {m}, Loads(n), Certificate(files[n]["cert"]) = c
          PROVE  FALSE
      <4>1. files[n]["cert"] \in rows /\ presented[files[n]["cert"]] = presented[files'[m]["cert"]]
        BY <3>2, HeldOnce DEF Certificate
      <4>2. files[n]["cert"] = files'[m]["cert"]
        BY <1>1, <3>1, <4>1 DEF IInv, TypeOK, Holds, Holder
      <4>3. files'[n]["key"] = files'[m]["key"] /\ files'[m]["key"] \in Attempts
        BY <1>1, <1>5, <3>2, <4>2 DEF Loads
      <4> QED
        BY <4>3 DEF IInv, KeyOwn
    <3> QED
      BY <1>1, <3>1, <3>2
  <2>3. holding[m] = {} /\ \A n \in Machines : c \notin holding[n]
    BY <2>1, <2>2 DEF holding
  <2>4. holding'[m] = {c}
    BY <1>1, <1>5 DEF holding, Certificate
  <2>5. holding' = [holding EXCEPT ![m] = {c}]
    BY <1>3, <2>4 DEF holding
  <2>6. c \in certificates
    BY <2>2 DEF certificates
  <2>7. Promise!Adopt(m, c)
    BY <1>1, <1>2, <2>3, <2>5 DEF Promise!Adopt
  <2> QED
    BY <2>6, <2>7 DEF Promise!Next
<1>6. CASE proc[m] \in Files /\ Loads(m)
  BY <1>6, EnrollmentAssumption DEF IInv, TypeOK, Written, Attempting, Files, Loads
<1> QED
  BY <1>1, <1>4, <1>5, <1>6

\* Enrolment implements Identities (handleAgentEnroll, identity.Enroll,
\* ca.LoadOrCreate), wherever its processes are interrupted.
THEOREM OneIdentityBought == Spec => BuysOneIdentity
<1>1. Init => Promise!Init
  BY EnrollmentAssumption
  DEF Init, CAInit, Promise!Init, certificates, holding, Loads, Certificate, Files
<1>2. IInv /\ IInv' /\ [Next]_vars => [Promise!Next]_(Promise!vars)
  <2> SUFFICES ASSUME IInv, IInv', [Next]_vars
               PROVE  Promise!Next \/ UNCHANGED <<served, certificates, holding>>
    BY DEF Promise!vars
  <2>1. ASSUME NEW e \in Attempts, Insert(e)
        PROVE  Promise!Next \/ UNCHANGED <<served, certificates, holding>>
    BY <2>1, InsertIssues
  <2>2. ASSUME NEW m \in Machines, Write(m) \/ Stop(m)
        PROVE  Promise!Next \/ UNCHANGED <<served, certificates, holding>>
    BY <2>2, FilesAdopt
  <2>3. CASE UNCHANGED <<rows, files>>
    <3>1. certificates' = certificates
      BY <2>3, CertificatesLast DEF certificates
    <3>2. holding' = holding
      <4>1. ASSUME NEW m \in Machines, Loads(m)
            PROVE  Certificate(files[m]["cert"])' = Certificate(files[m]["cert"])
        BY <2>3, <4>1, HeldOnce, CertificatesLast DEF Certificate
      <4> QED
        BY <2>3, <4>1 DEF holding, Loads
    <3>3. CASE served = {} /\ served' # {}
      <4>1. PICK r \in Roots : served' = {r}
        BY <3>3 DEF IInv, CAInv, CAComplete
      <4> QED
        BY <3>1, <3>2, <3>3, <4>1 DEF Promise!Next, Promise!Establish
    <3>4. CASE served' = served
      BY <3>1, <3>2, <3>4
    <3> QED
      BY <3>3, <3>4, CAKept
  <2> QED
    BY <2>1, <2>2, <2>3
    DEF Next, Handle, Agent, vars, tblVars, macVars, Consume, Sign, LinkAgent, Abort, Expire,
        ServerStart, ServerStop, Enroll, Start, Post, Receive, LoadIdentity
<1> QED
  BY <1>1, <1>2, Invariance, PTL DEF Spec, BuysOneIdentity, Promise!Spec
=============================================================================
