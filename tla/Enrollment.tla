----------------------------- MODULE Enrollment -----------------------------
(***************************************************************************)
(* Enrolment: a machine's agent generates a key, has it certified against  *)
(* a single-use token, and keeps four files it starts from ever after.     *)
(*                                                                         *)
(* handleAgentEnroll runs one statement per step; the agent writes one     *)
(* file per step. Either process may end between two steps or in the       *)
(* middle of a file, and a request may outlive the agent that sent it. The *)
(* server's CA is module CertificateAuthority.                             *)
(*                                                                         *)
(* An attempt names what a call of identity.Enroll generates: its key, and *)
(* the CSR, certificate and agents row that come of it. Left out: the rate *)
(* limit (RateLimiter), the audit row, and svcconfig's file.               *)
(*                                                                         *)
(* Assumed: one process at a time uses a machine's data directory. Nothing *)
(* in the code ensures it. Two "install" commands at once, or one beside a *)
(* service that is enrolling, could both find the machine not enrolled and *)
(* write their files between each other's; what is said below of a         *)
(* machine's files does not hold then.                                     *)
(***************************************************************************)
EXTENDS CertificateAuthority, FiniteSets

CONSTANTS
  Machines,
  Tokens,     \* enrolment tokens an administrator has created
  Attempts,   \* calls of Enroll: bounds the behaviours
  NoAttempt

ASSUME EnrollmentAssumption ==
  /\ MaxRoots \in Nat
  /\ Absent # Torn
  /\ {Absent, Torn, NoAttempt} \cap Attempts = {}
  /\ {Absent, Torn} \cap Nat = {}

VARIABLES
  token,      \* enrollment_tokens: "fresh", "used" (used_at) or "expired"
  usedBy,     \* enrollment_tokens.used_by_agent_id
  rows,       \* agents, by the attempt whose certificate they carry
  stage,      \* where handleAgentEnroll stands for an attempt
  presented,  \* the token an attempt presents
  issuer,     \* the root its certificate was signed under, 0 before that
  files,      \* the four files of each machine
  proc,       \* where the agent's process stands
  cur         \* the attempt it is making

reqVars == <<stage, presented, issuer>>
tblVars == <<token, usedBy, rows>>
macVars == <<files, proc, cur>>
vars    == <<caVars, tblVars, reqVars, macVars>>

Files      == {"key", "cert", "ca", "id"}
InFlight   == {"consume", "sign", "insert", "link"}
Attempting == {"key", "post", "wait", "cert", "ca", "id"}

TypeOK ==
  /\ CATypeOK
  /\ token \in [Tokens -> {"fresh", "used", "expired"}]
  /\ usedBy \in [Tokens -> Attempts \cup {NoAttempt}]
  /\ rows \in SUBSET Attempts
  /\ stage \in [Attempts -> InFlight \cup {"unused", "made", "answered", "failed"}]
  /\ presented \in [Attempts -> Tokens]
  /\ issuer \in [Attempts -> 0..MaxRoots]
  /\ files \in [Machines -> [Files -> Attempts \cup {Absent, Torn}]]
  /\ proc \in [Machines -> Attempting \cup {"down", "load", "running"}]
  /\ cur \in [Machines -> Attempts \cup {NoAttempt}]
  /\ \A m \in Machines : proc[m] \in Attempting <=> cur[m] # NoAttempt

Init ==
  /\ CAInit
  /\ token = [t \in Tokens |-> "fresh"]
  /\ usedBy = [t \in Tokens |-> NoAttempt]
  /\ rows = {}
  /\ stage = [e \in Attempts |-> "unused"]
  /\ presented \in [Attempts -> Tokens]
  /\ issuer = [e \in Attempts |-> 0]
  /\ files = [m \in Machines |-> [f \in Files |-> Absent]]
  /\ proc = [m \in Machines |-> "down"]
  /\ cur = [m \in Machines |-> NoAttempt]

(***************************************************************************)
(* handleAgentEnroll                                                       *)
(***************************************************************************)

Goto(e, from, to) ==
  /\ boot = "up"
  /\ stage[e] = from
  /\ stage' = [stage EXCEPT ![e] = to]

\* Mutant: finds the token by its hash and its expiry alone.
ConsumeAgain(e) ==
  LET t == presented[e] IN
  /\ \/ /\ token[t] # "expired"
        /\ token' = [token EXCEPT ![t] = "used"]
        /\ Goto(e, "consume", "sign")
     \/ /\ token[t] = "expired"
        /\ Goto(e, "consume", "failed")
        /\ UNCHANGED token
  /\ UNCHANGED <<caVars, usedBy, rows, presented, issuer, macVars>>

\* Mutant: a token is unused while it names no agent (used_by_agent_id IS
\* NULL, in place of used_at).
ConsumeUnlinked(e) ==
  LET t == presented[e] IN
  /\ \/ /\ token[t] # "expired" /\ usedBy[t] = NoAttempt
        /\ token' = [token EXCEPT ![t] = "used"]
        /\ Goto(e, "consume", "sign")
     \/ /\ token[t] = "expired" \/ usedBy[t] # NoAttempt
        /\ Goto(e, "consume", "failed")
        /\ UNCHANGED token
  /\ UNCHANGED <<caVars, usedBy, rows, presented, issuer, macVars>>

\* EnrollmentRepo.Consume: one conditional UPDATE.
Consume(e) ==
  LET t == presented[e] IN
  /\ \/ /\ token[t] = "fresh"
        /\ token' = [token EXCEPT ![t] = "used"]
        /\ Goto(e, "consume", "sign")
     \/ /\ token[t] # "fresh"
        /\ Goto(e, "consume", "failed")
        /\ UNCHANGED token
  /\ UNCHANGED <<caVars, usedBy, rows, presented, issuer, macVars>>

\* SignAgentCSR, with the key and the certificate in memory.
Sign(e) ==
  /\ Goto(e, "sign", "insert")
  /\ issuer' = [issuer EXCEPT ![e] = signer]
  /\ UNCHANGED <<caVars, tblVars, presented, macVars>>

\* AgentRepo.Create.
Insert(e) ==
  /\ Goto(e, "insert", "link")
  /\ rows' = rows \cup {e}
  /\ UNCHANGED <<caVars, token, usedBy, presented, issuer, macVars>>

\* Mutant: the arguments of the UPDATE in the wrong order.
LinkSwapped(e) ==
  /\ Goto(e, "link", "answered")
  /\ usedBy' = [usedBy EXCEPT ![presented[e]] = presented[e]]
  /\ UNCHANGED <<caVars, token, rows, presented, issuer, macVars>>

\* LinkAgent, whose error is ignored, and the answer: 201 with the
\* certificate and the CA's.
LinkAgent(e) ==
  /\ Goto(e, "link", "answered")
  /\ usedBy' \in {usedBy, [usedBy EXCEPT ![presented[e]] = e]}
  /\ UNCHANGED <<caVars, token, rows, presented, issuer, macVars>>

\* An invalid CSR, a failing statement, or a context cancelled because the
\* agent hung up: the handler stops, with what it has done so far.
Abort(e) ==
  /\ stage[e] \in InFlight
  /\ stage' = [stage EXCEPT ![e] = "failed"]
  /\ UNCHANGED <<caVars, tblVars, presented, issuer, macVars>>

Expire(t) ==
  /\ token[t] = "fresh"
  /\ token' = [token EXCEPT ![t] = "expired"]
  /\ UNCHANGED <<caVars, usedBy, rows, reqVars, macVars>>

(***************************************************************************)
(* The server's process                                                    *)
(***************************************************************************)

ServerStart ==
  /\ Load \/ Create \/ CreateWrite
  /\ UNCHANGED <<tblVars, reqVars, macVars>>

\* Requests die with the process.
ServerStop ==
  /\ CAStop
  /\ stage' = [e \in Attempts |-> IF stage[e] \in InFlight THEN "failed" ELSE stage[e]]
  /\ UNCHANGED <<tblVars, presented, issuer, macVars>>

(***************************************************************************)
(* The agent: ensureEnrolled, cmdInstall and identity.Enroll               *)
(***************************************************************************)

\* agent.id is not looked at.
IsEnrolled(m) == \A f \in {"key", "cert", "ca"} : files[m][f] # Absent

\* What identity.Load accepts. Any content makes an agent.id.
Loads(m) ==
  /\ \A f \in {"key", "cert", "ca"} : files[m][f] \in Attempts
  /\ files[m]["cert"] = files[m]["key"]
  /\ files[m]["id"] # Absent

\* The process ends: a stop, a crash, or log.Fatalf.
Down(m) ==
  /\ proc' = [proc EXCEPT ![m] = "down"]
  /\ cur' = [cur EXCEPT ![m] = NoAttempt]

\* The service starts and finds itself enrolled.
Start(m) ==
  /\ proc[m] = "down" /\ IsEnrolled(m)
  /\ proc' = [proc EXCEPT ![m] = "load"]
  /\ UNCHANGED <<caVars, tblVars, reqVars, files, cur>>

\* Mutant: "install" enrols the machine whatever it finds.
EnrollAnyway(m, e) ==
  /\ proc[m] = "down"
  /\ stage[e] = "unused"
  /\ stage' = [stage EXCEPT ![e] = "made"]
  /\ proc' = [proc EXCEPT ![m] = "key"]
  /\ cur' = [cur EXCEPT ![m] = e]
  /\ UNCHANGED <<caVars, tblVars, presented, issuer, files>>

\* It is started, or "install" is run, with a token and finds that it is not.
Enroll(m, e) ==
  /\ proc[m] = "down" /\ ~IsEnrolled(m)
  /\ stage[e] = "unused"
  /\ stage' = [stage EXCEPT ![e] = "made"]
  /\ proc' = [proc EXCEPT ![m] = "key"]
  /\ cur' = [cur EXCEPT ![m] = e]
  /\ UNCHANGED <<caVars, tblVars, presented, issuer, files>>

\* The stage after a file is written.
After == [key |-> "post", cert |-> "ca", ca |-> "id", id |-> "load"]

\* Mutant: the certificate's file is only written once.
WriteOnce(m) ==
  /\ proc[m] \in Files
  /\ LET f == proc[m] IN
       /\ files' = IF f = "cert" /\ files[m][f] # Absent
                     THEN files ELSE [files EXCEPT ![m][f] = cur[m]]
       /\ proc' = [proc EXCEPT ![m] = After[f]]
       /\ cur' = IF f = "id" THEN [cur EXCEPT ![m] = NoAttempt] ELSE cur
  /\ UNCHANGED <<caVars, tblVars, reqVars>>

\* os.WriteFile of the file that is next.
Write(m) ==
  /\ proc[m] \in Files
  /\ LET f == proc[m] IN
       /\ files' = [files EXCEPT ![m][f] = cur[m]]
       /\ proc' = [proc EXCEPT ![m] = After[f]]
       /\ cur' = IF f = "id" THEN [cur EXCEPT ![m] = NoAttempt] ELSE cur
  /\ UNCHANGED <<caVars, tblVars, reqVars>>

\* http.Post reaches the server, or does not.
Post(m) ==
  /\ proc[m] = "post"
  /\ \/ /\ boot = "up"
        /\ stage' = [stage EXCEPT ![cur[m]] = "consume"]
        /\ proc' = [proc EXCEPT ![m] = "wait"]
        /\ UNCHANGED cur
     \/ Down(m) /\ UNCHANGED stage
  /\ UNCHANGED <<caVars, tblVars, presented, issuer, files>>

\* The answer, unless it is a refusal or is lost.
Receive(m) ==
  /\ proc[m] = "wait"
  /\ \/ /\ stage[cur[m]] = "answered"
        /\ proc' = [proc EXCEPT ![m] = "cert"]
        /\ UNCHANGED cur
     \/ stage[cur[m]] \in {"answered", "failed"} /\ Down(m)
  /\ UNCHANGED <<caVars, tblVars, reqVars, files>>

\* identity.Load at the end of Enroll or at a start; a failure is fatal.
LoadIdentity(m) ==
  /\ proc[m] = "load"
  /\ proc' = [proc EXCEPT ![m] = IF Loads(m) THEN "running" ELSE "down"]
  /\ UNCHANGED <<caVars, tblVars, reqVars, files, cur>>

\* The machine or the process stops, possibly while it writes a file.
Stop(m) ==
  /\ proc[m] # "down"
  /\ Down(m)
  /\ \/ UNCHANGED files
     \/ proc[m] \in Files /\ files' = [files EXCEPT ![m][proc[m]] = Torn]
  /\ UNCHANGED <<caVars, tblVars, reqVars>>

Handle(e) == Consume(e) \/ Sign(e) \/ Insert(e) \/ LinkAgent(e) \/ Abort(e)

Agent(m) == \/ \E e \in Attempts : Enroll(m, e)
            \/ Start(m) \/ Write(m) \/ Post(m) \/ Receive(m) \/ LoadIdentity(m)
            \/ Stop(m)

Next ==
  \/ \E e \in Attempts : Handle(e)
  \/ \E t \in Tokens : Expire(t)
  \/ ServerStart
  \/ ServerStop
  \/ \E m \in Machines : Agent(m)

Spec == Init /\ [][Next]_vars

-----------------------------------------------------------------------------
(***************************************************************************)
(* Properties                                                              *)
(***************************************************************************)

\* "Token a usage unique": however many requests present it at once, also
\* one of an agent that has stopped and tries again, a token makes at most
\* one agent, and if it names an agent, that one.
OneAgentPerToken ==
  /\ \A d, e \in rows : presented[d] = presented[e] => d = e
  /\ \A t \in Tokens : usedBy[t] # NoAttempt =>
       usedBy[t] \in rows /\ presented[usedBy[t]] = t

\* What IsEnrolled finds belongs together, though it was written file by
\* file and perhaps over the remains of an earlier attempt: if none of the
\* three files is torn, key, certificate and CA are of one attempt, which has
\* its row in the agents table and whose CA is the one of the server.
IdentityCoherent ==
  \A m \in Machines :
    LET e == files[m]["key"] IN
    (\A f \in {"key", "cert", "ca"} : files[m][f] \in Attempts) =>
      /\ files[m]["cert"] = e /\ files[m]["ca"] = e
      /\ files[m]["id"] \in {e, Absent, Torn}
      /\ e \in rows
      /\ boot = "up" => issuer[e] = root

\* An identity that works is never lost: neither a restart nor another
\* "install", with a used token or an interrupted one, touches it.
IdentityKept == [][\A m \in Machines : Loads(m) => Loads(m)']_vars

\* What of a certificate matters to Identities.
Certificate(e) == [token |-> presented[e], root |-> issuer[e]]

\* The certificates of the agents table, and those machines start with.
certificates == {Certificate(e) : e \in rows}
holding ==
  [m \in Machines |-> IF Loads(m) THEN {Certificate(files[m]["cert"])} ELSE {}]

Promise == INSTANCE Identities
             WITH roots <- served, issued <- certificates, held <- holding

\* Enrolment from end to end is Identities: its statements, files and
\* restarts in between are seen by nobody. A certificate is issued for a
\* token that bought none before, and reaches a machine that had none and
\* shares it with no other.
BuysOneIdentity == Promise!Spec
=============================================================================
