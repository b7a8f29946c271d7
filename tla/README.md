# shareDesk in TLA+

shareDesk is a remote-desktop system: a Go server (REST API, WebSocket
signalling, PostgreSQL, an internal certificate authority), a Go agent installed
on each controlled machine, and a React frontend whose pages negotiate a WebRTC
connection with an agent through the server. This directory holds TLA+ modules
that model its concurrent and stateful parts, TLC configurations that check them
on small instances, and theorems checked by TLAPS.

Run, in this directory:

    tlc -workers 2 -config AgentHub.cfg MCAgentHub     # one run of PROJECT.json
    tlapm AgentHubProofs.tla                           # one module of proofs

`PROJECT.json` lists the components, the runs, a mutant for every property (a
plausible bug in the code that makes the property fail), the source lines each
definition stands for, the hazards, the findings and the theorems.

## 1. Inventory

Paths are below `src/`. "Hard" is what a unit test hardly reaches.

### Server

**Hub** (`backend/internal/ws/hub.go`). State: `agents` (agent id to channel) and
`viewers` (session id to browser connection), two maps under one `RWMutex`; the
sockets behind them. Operations: `RegisterAgent` and `RegisterViewer`, which run a
read loop on the calling goroutine and clean up in a deferred function;
`routeToAgent` and `routeFromAgent`; `IsAgentConnected`; `DisconnectAgent`. It
calls back `onAgentStatus` (main.go), which updates the `agents` row, outside
the lock. Hard: a channel is replaced while the old goroutine is still in its
read loop, so the deferred function of the old runs after the new has registered;
`DisconnectAgent` looks under the lock and closes after it; the callbacks of two
goroutines reach the database in any order. Correct when: an entry is always one
that a goroutine will remove, a working channel is the one routed to, an old
channel's clean-up never takes the new one's entry, and the table's status
converges to the truth.

**Agent channel and revocation** (`httpapi/agent_channel.go`,
`handlers_agents.go`, `repository/agents.go`). State: `agents.status`,
`last_seen_at`, `revoked_at`, and the table of revoked certificates. The channel's
handler reads both tables, upgrades, then registers; the revocation is one
transaction, then `DisconnectAgent`. Hard: checked values are stale when the
channel registers. Correct when: after a revocation nothing is admitted, and what
is connected is cut.

**Sweeper and restarts** (`cmd/server/main.go`). Every minute
`MarkStaleOffline` turns old `online` rows `offline`. A restart loses the hub and
keeps the tables. Correct when: an absent agent is finally shown offline, and a
present one is not.

**Rate limiter** (`internal/ratelimit`, `rateLimited` in `server.go`). State: a
map of buckets under a mutex, with a goroutine that drops those that are over.
Hard: boundaries in time and count, and whether the collector forgives. Correct
when: it implements a fixed window per client, and nobody is refused for ever.

**Login, refresh, logout** (`handlers_auth.go`, `repository/users.go`). State: the
user row's counter and lock, the `refresh_tokens` rows. Each handler is a chain of
separate statements on values read earlier, several errors are ignored, and the
request's context may be cancelled at any of them. Administrators reset, disable
and delete accounts in the meantime (`handlers_users.go`). Hard: two requests
between each other's statements. Correct when: a token is spent once, no
failure is lost by the lock-out, and a reset ends what came before it.

**Control sessions** (`handlers_sessions.go`, `handlers_ws.go`,
`repository/sessions.go`). State: `control_sessions` rows, active then ended.
Creating one checks that the agent is connected and then inserts; the WebSocket
handler reads the row before it upgrades. Hard: the session ends, or the agent
leaves, in between.

**Enrolment** (`handlers_enrollment.go`, `repository/enrollment.go`). State:
`enrollment_tokens`, `agents`. A token is consumed by one conditional UPDATE; then
the CSR is signed and the agent inserted. Hard: a failure after consumption.
**Certificate authority** (`internal/ca`). State: three files. Hard: a server
stopped between writing them.

**Setup, users, MFA** (`handlers_setup.go`, `handlers_users.go`, the MFA handlers of
`handlers_auth.go`, `audit.go`). State: `users`, `audit_logs`. Hard: "is there a user
yet" is read and acted on in two statements, the profile and the MFA secret are
written back as they were read, and whether a row can be deleted depends on the
audit rows of other requests. Correct when: set-up happens once and never
again, MFA is never on with a secret its user has not proven, a deleted account
keeps no identity.

**Roles and access tokens** (`handlers_roles.go`, `repository/roles.go`,
`middleware.go`, `auth/jwt.go`, `issueTokenPair`). State: `roles`,
`role_permissions`, `users.role_id`, and the copy of the permissions in each access
token. Hard: two administrators save the same role at once, in transactions that
see each other's rows or not; a token outlives the role it was made from; nobody
checks that an administrator is left. Correct when: what is saved is what was
asked for, tokens differ from the tables only for a known reason, and rights come
only from those who have them.

**Others**: settings and audit (independent rows), LDAP (a single row; the
synchronisation is a stub), configuration, migrations, passwords and encryption
(cryptography).

### Agent

**Channel and sessions** (`agent/cmd/agent/main.go`, `internal/wsclient`,
`internal/rtcsession`). State: the channel, one current WebRTC session. `run`
reconnects every ten seconds; `runSession` drains a Go channel of messages;
`handleSignal` replaces the current session on an offer. The WebRTC library calls
back on its own goroutines. Hard: callbacks of a session already replaced, each
error on the way from an offer to an answer, the end of the channel while a
message is being handled. Correct when: at most one session is open, and the loss
of the channel ends it.

**Identity and enrolment** (`internal/identity`, `ensureEnrolled`). State: key,
certificate, CA and id files. Hard: a stop between two files.

**Local status, tray, capture, injection, service** : a value under a mutex and calls
into the operating system.

### Frontend

**Session page** (`pages/SessionViewer.tsx`). One WebSocket and one peer
connection per mounted page; it offers, applies answers and candidates, and its
clean-up ends the session. Hard: reloads, which skip the clean-up, and two
pages on one session.

**API client** (`api/client.ts`, `auth/AuthContext.tsx`). State: tokens in
localStorage, one shared refresh per tab. Hard: two tabs, a logout during a refresh.

### How they interact

Frontend to server: REST with a bearer token, and `/ws` for signalling. Agent to
server: enrolment over HTTPS, then one mTLS WebSocket. The hub joins the two
WebSockets. Handlers and hub share the database; a handler reaches the hub
through `IsAgentConnected` and `DisconnectAgent`, the hub reaches the database
through the status callback. Media and input go from page to agent directly.

## 2. The modules

| module | models | state | actions |
|---|---|---|---|
| `AgentHub` | agent half of the hub, `handleAgentChannel`, `handleRevokeAgent`, sweeper, restart | `pc` per channel goroutine, `open` sockets, `agents` map, rows, `target` of a disconnection | one per database call or critical section |
| `FixedWindow` | abstract: a fixed window per client | requests used and time left | open, serve, refuse, tick |
| `RateLimiter` | `Allow`, `gc`, `rateLimited` | `buckets` | one per critical section |
| `Credentials` | login, refresh, logout, administrator's changes, one account | user row, tokens, `pc` per request | one per SQL statement |
| `CertificateAuthority` | `ca.LoadOrCreate` | three files, `root` and `signer` in memory | load, create, one file, stop |
| `Enrollment` | `handleAgentEnroll`, `identity.Enroll`/`Load`, agent start, with the CA above | tokens, rows, `stage` per request, four `files` per machine, `proc` | one per statement or file |
| `Identities` | abstract: what enrolment promises | roots, certificates issued, certificate held by each machine | establish, issue, adopt |
| `Signaling` | sessions, viewer half of the hub, relay, agent's `runSession`/`handleSignal` and status flag, the page, one agent | rows, pages, `viewers`, two message queues, agent's session, what a page has applied | one per statement, critical section or message |
| `Accounts` | setup, creation, profile, deletion, MFA enrolment | `users` rows, which of them the audit log names, `pc` per request | one per SQL statement, audit rows within their request's last step |
| `Authorization` | roles, `SetPermissions`, members, access tokens, `RequirePermission` | the three tables, `tokens`, `pc` and the rows a transaction holds | one per SQL statement |

`MCAgentHub`, `MCCredentials`, `MCEnrollment`, `MCAccounts` and `MCAuthorization` only give
instances to TLC; `MCAgentStatus` adds to the first a history of who has turned a
connected agent offline. `AgentHubProofs`, `RateLimiterProofs`, `CredentialsProofs`,
`SignalingProofs`, `EnrollmentProofs`, `AccountsProofs` and `AuthorizationProofs` hold the
theorems, those of the module each is named after.

**AgentHub.** A slot of `Conns` is one goroutine with its WebSocket. It goes
`crl`, `row` (the two look-ups of `handleAgentChannel`), `upgrade`, `register`
(the first critical section of `RegisterAgent`), `announce` (the callback),
`reading`, `unregister` (second critical section), `retire` (callback and end). A
revocation is `RevokeTx`, `DisconnectLookup`, `DisconnectClose`, with the channel
it found in `target`. `age` counts sweeper periods since `last_seen_at`. A status
update may fail. A slot is not reused while a disconnection points to it, as Go
keeps the old `*agentConn` distinct. `escaped` is a history variable: the channels
past their checks when a disconnection of their agent looked. A transaction that
fails rolls back, or it commits and only the acknowledgement is lost: the row is
revoked, the handler answers with an error and `DisconnectAgent` is not called
(`revoker = "failed"`). What `OnlyEscapedSurvive` says is of revocations that succeeded;
the administrator may repeat the others.

**RateLimiter.** Time is what is left of a window, in ticks: `now.After(windowEnd)`
is "less than zero left". `recent` is history: what was served in the last 0, 1, ...
ticks. `FixedWindow` has no bucket, no
map and no collector; `windowOf` maps a bucket that is over, or gone, to a closed
window.

**Credentials.** `failed`, `locked`, `active` and `usable` (some password matches
the stored hash) are the user row; each request in flight has a stage and the token it
spends. An UPDATE is atomic; a handler is not. `Abort` is a cancelled context or a
failing statement at any stage. History: `parent` (what a token was exchanged
for), `basis` (how many administrator's changes preceded its login), `late`, `missed`, `tries`.

**Signaling.** The agent's channel is `up`, `closing` (cut, while the agent still
drains what it had received) or `down`; AgentHub models the rest of it. A page
makes one offer, so a page names its WebRTC session. `busy` is the session being
negotiated, `current` the agent's, `live` all that are not closed, `gathering`
those whose candidate is still to be found; `active` is the status flag. `applied`
is whose answer a page has applied, which need not be its own: the hub routes by
control session, and a reload makes two pages of one. `misfed` records foreign
candidates. Abstracted: SDP, the pages' candidates, which the agent hands to the
library, media, input, audit. The agent would also obey "session-end", which no
program sends.

**Accounts.** A row is `named`, `erased` (anonymised) or `deleted`. `audited` says which
rows the append-only log names as an actor: the database refuses to delete those,
and `Delete` falls back to `Anonymize` in another statement. Every account is an
administrator's, which is the worst case. `Append` may fail without notice; `lost`
remembers when that left an account with a token and no audit row. `UpdateProfile`
writes every field: what its request names, and for the rest what it read in an
earlier statement (`carried`). History: `founded` counts the accounts set-up made, and
`erasures` has the accounts that were anonymised and that no administrator has named
anew since, so a write of values read before the deletion does not take one out.

**Authorization.** `SetPermissions` is a transaction under READ COMMITTED: its DELETE
takes a snapshot (`BeginDelete`), waits for rows that others are deleting
(`Unlocked`), skips those that were deleted meanwhile (`Commit` of the rival takes
them out of `rows`) and never sees those inserted since. Its INSERT waits for the
same key and fails on one that is left, so two identical requests at once end with an
error for the second, and two different ones may leave the union. `users.manage` and
`roles.manage` are apart; requests pass `RequirePermission` in a step of its own
(`Enter`), and the statement comes later, when the token may have expired.

**Enrollment** EXTENDS `CertificateAuthority`, whose variables are the server's
start and the CA. An attempt is what one call of `identity.Enroll` generates; it
names the key, the certificate, the `agents` row and the content of the files it
writes. `os.WriteFile` is not atomic, so a process may leave a `Torn` file. A
request goes on when its agent has stopped, until the server notices (`Abort`). A
start that ends in `log.Fatalf` changes nothing and is no step. A machine has one
process on its data directory: two `install` commands running at once (agent
`main.go:104-107` takes no lock) are excluded. `Identities` has no
files, requests, processes or crashes: `BuysOneIdentity` maps its roots to `served`, its
certificates to the `agents` table, and what a machine holds to the certificate
`identity.Load` accepts. So of a whole enrolment only two statements show, the INSERT
of the agent and the file that makes the identity load, and of a server's life only
the first time its CA is complete.

## 3. The runs

| run | shows | bounds |
|---|---|---|
| `agent_hub` | types; every entry is served; the healthy channel is routed to; a revocation leaves only what was registering; a closed channel is finally unrouted; an agent that stays away is finally offline, and a revoked one finally for good, connected or not | 1 agent, 2 channels, 2 minutes |
| `rate_limiter` | implements `FixedWindow`; at most twice the limit in any window's length; a refusal ends | 2 clients, limit 2, window 2 |
| `credentials` | an exchanged token is dead, but for a failed UPDATE; failures are not lost between concurrent logins; after a reset only what was in flight survives | 2 requests, 3 tokens, limit 2, 1 change |
| `signaling` | the last page is routed to; one WebRTC session at a time; a page uses only messages made for it or for the page whose place it took; control is always shown; an ended session is not resumed; a cut ends control | 2 sessions, 2 pages, 2 messages on the wire |
| `enrollment` | one agent per token; key, certificate and CA found together are of one attempt, recorded and issued by the server's CA; an identity that loads is kept; the server's root never changes; implements `Identities` | 2 machines, 2 tokens, 3 attempts, 2 creations |
| `accounts` | setup does not open again; MFA is on only with a proven secret | 3 accounts, 2 requests |
| `authorization` | saved permissions are those asked for, by this request or one at the same time; tokens differ from the tables only if they, or the read of the role, are older than the change; governing rights never reappear | 2 users, 1 system role, 1 other, 2 tokens, 2 requests |
| `revoked_is_cut` | finding: a channel between its checks and its registration outlives the revocation | as `agent_hub` |
| `one_reporter_right` | two findings: `last_seen_at` is written at connection only, so two minutes later the sweeper turns a connected agent offline; a replaced channel's callback turns offline the agent that has just reconnected | as `agent_hub` |
| `exchanged_once` | finding: two refreshes with one token both get a pair | as `credentials` |
| `one_claim_holds` | two findings: overlapping set-ups make two founders; an update that read a profile before its account was anonymised puts the identity back | as `accounts` |
| `end_reaches_agent` | finding: nothing tells the agent that a session has ended | 2 sessions, 2 pages, 1 message |

Two of the runs that find a violation look at two statements of the repository at once.
`OneReporterRight` and `OneClaimHolds` are disjunctions, each weaker than either of the
statements it joins, so TLC's one behaviour is a counterexample to both: in the
first, the sweeper and a replaced channel have both misreported a connected
agent; in the second, two accounts were founded (`OneFounder` fails) and an anonymised
one bears its name again (`ErasedForGood` fails).

Why the bounds are enough. *agent_hub*: the hub's hazards are about a channel and
the one that replaces it; slots are reused, so chains of replacements happen.
Agents share nothing but the sweeper. The safety properties are also proved for
any number. *rate_limiter*: keys do not share a bucket; limit and window 2 have a
first, an inner and a last value each; the safety properties and the refinement are proved for all.
*credentials*: the races are between two requests; three tokens are a login's, its
successor and a rival; the limit 2 lets two failures meet at it. One change is
enough because `late` and `basis` compare with the latest change only; `MaxEpochs`
may be raised at the price of states. *signaling*: two pages on one session (a reload)
and on two sessions are both included; a wire of two holds an
answer and a candidate, or a stale and a fresh candidate.
*enrollment*: two machines or two starts of one compete for a
token; three attempts let one be written over the remains of another; the second creation of
the CA is the one that meets the first one's files.
*accounts*: the races are between two requests; two accounts that delete each other and a
third that is created late are the cases of the invariants. *authorization*: two transactions on one role
meet in every order of their statements; the role that is created and deleted
supplies foreign keys; a second token lets an old and a new one of a user coexist. `Others` is empty:
no action tells one permission from another but the two that govern. The same
properties were checked with three requests and one user (4.4 million states).
`Tokens`, `Attempts`, `MaxRoots`, `Sessions`, `Pages` are also the bound of the behaviours: when
they are used up, nothing new is created. Only `enrollment` switches the deadlock check off: a
server stopped within the last CA file fails at every later start, and nothing else
moves. Elsewhere a restart, a tick, or a login that is turned away or unlocked later is always possible.

**Fairness.** `AgentHub`: the steps a goroutine takes without waiting for the
network (the Go scheduler runs it) and the sweeper with a database that answers now
and then; none on agents, administrators, failures, restarts. `AwayShownOffline`
therefore rests on the sweeper when a restart or a failed update loses the
callback; so does `RevokedShownOffline`, when a channel that outlived the revocation has
announced itself after it: no later one is admitted, and the sweeper outlasts it. `RateLimiter`: time passes. `Signaling`: goroutines that are not
blocked, `RouteFromAgent` among them, since the agent's Send blocks on a full wire;
none on pages, users and the agent's machine. `Credentials`, `Accounts` and `Authorization` state no liveness: whether a request is
ever made or finished is up to clients and the database.

## 4. The proofs

`AgentHubProofs`, from `AgentHubAssumption` only (every channel belongs to an
agent, `NoConn` is not a channel, the limit is a natural):
`TypeCorrect`, `Invariance`, and from it `HubEntriesServed`, `HealthyRouted`,
`RevocationWindow`. The invariant `IInv` adds to the first
two properties what makes them inductive: a socket is open only past the upgrade
(`OpenIsUpgraded`); what `DisconnectAgent` is about to close is a channel of its
agent that has registered, and nobody has a target otherwise
(`TargetRegistered`); once `DisconnectAgent` has looked, unless the last revocation
failed, every channel of a revoked
agent that is past the checks is closed, about to be closed, or escaped
(`RevocationAccounted`); and the two tables agree (`CRLMatchesRow`). `HealthyIsRouted` alone is not inductive: without
`HubEntryServed` an unregistering goroutine could own the entry of a reading one;
`OnlyEscapedSurvive` says nothing while the revoker works, hence
`RevocationAccounted`. There is one step per action, one lemma for each of the
two that disturb most conjuncts (`RegisterStep`, `DisconnectCloseStep`).

`RateLimiterProofs`, from `RateLimiterAssumption` (limit and window are at least
one): `TypeCorrect`, and `PromiseKept`, the refinement of `FixedWindow`. The
invariant adds to the types that a bucket whose window is not over has counted a
request, so that no window in progress is mistaken for `NoBucket`. `GcStutters`, `TickMaps` and `RequestMaps` map each step. Lemma
`RequestEffect` states what a request does to the one bucket it touches.
`BurstBounded` is `AtMostTwice`, which relates a stretch of time to the windows it
meets. Its invariant, `Straddled`, splits the stretch where the window in progress
opened: what was served since is at most its count, and what was served before, in
the rest of the last `Window` ticks, at most the limit of one earlier window; when no window
is in progress the whole stretch is within one.

`CredentialsProofs`, from `CredentialsAssumption` (`NoToken` is no token, requests and
tokens have different names and the requests are finitely many, the limit is at
least one): `Invariance`, `TypeCorrect`, `ExchangedIsDead`, `LockoutHolds`,
`OutdatedLate`. A rotation kills a token in one statement and stores the next in
another, so `ParentIsDead` needs what a refresh knows in between (`Presented`: what
it is about to replace is dead, or its UPDATE failed) and that no row is ever free
again (`ParentRetired`). `GuessesBounded` counts requests: once the account is locked,
the failures recorded and the logins that have still to record one (`Failing`) are
together within the bound (`GuessesCounted`, with the cardinality theorems of the library);
unlocked, the row's counter misses none of them. `OutdatedTokensAreLate` needs the
same of requests that have not stored their token yet (`RequestsAreLate`).

`SignalingProofs`, from `SignalingAssumption` (the null values are no session and no
page, the wire holds a message): `Invariance`, `TypeCorrect`, `LastRouted`, `OneSession`,
`AnswersForItself`, `ControlShown`, `NotResumed`. The invariant has a part for the
hub's table (`Mounted`, `EntryOfSession`, `KeepsEntry`: an entry is a page of its
session that is still to clean up, and only another page takes it away),
one for the wire (`FromOffers`: every message to a page bears the session of the page
whose offer it answers, as sequences over `Sent`, for wires of any length), and one for the
agent (`OneAtATime`: while an offer is negotiated there is no current session).
`AnsweredForItself` needs both of the first two: a message finds its page by session, in
whatever table the hub has by then, and lemma `EntryOrReplaced` says that a page that
offered is still its session's entry unless it was replaced or is gone. `EndedIsNotResumed`
needs that a page loaded after the end stays outside (`LateRefused`). `Steps` and the two
`Frame` lemmas separate the server's steps from the agent's.

`EnrollmentProofs`, from `EnrollmentAssumption` (the null values are not attempts
or numbers): `Invariance`, `TypeCorrect`, `StableRoot`, `SingleUse`, `CoherentIdentity`,
`KeptIdentity`, `OneIdentityBought`. The invariant has a part for the CA (a root is served only after
its key, the last file, is written: `CAComplete`, `CAProgress`), one for the tables
(who holds a token, and what is recorded before it is answered: `Holds`,
`Recorded`, `Linked`), and one for the machines (whose attempt it is, what has been
written of it, and in which order files exist: `Own`, `Written`, `Ordered`).
`IdentityCoherent` needs `Ordered`, because `IsEnrolled` says that a *missing* file
precedes an attempt, and `Written`, because the new files go over old ones. Each
part has its lemma, one step per action. `OneIdentityBought` is the refinement of
`Identities`. Beyond the other theorems it needs that a key is on one machine only
(`KeyOwn`) and that a recorded certificate does not change (`CertificatesLast`).
`InsertIssues` and `FilesAdopt` map the two steps that show, a CA that is first complete
is `Establish`, and every other step is a stutter.

`AccountsProofs`, from `AccountsAssumption` (`NoAccount` is not an account, the
requests are finitely many): `TypeCorrect`, `SetupClosed`, `FoundersFew`,
`MFAProven`. `SetupStaysClosed` says nothing of how an account came to be
deleted, so the invariant carries the argument: what the log names is stored
(`Protected`), a request that is about to answer acts for an account that was
stored (`ActorInserted`), hence whoever holds a token, or has deleted anybody, left
an audit row (`TokenAudited`), and lemma `StaysClosed` follows.
That set-up makes one founder is refuted by `one_claim_holds`; `FoundersFew` says how far it
can fail: no more founders than requests at once. It needs the requests between count and
insert to be added to the founders made (`FoundersCounted`, with the cardinality
theorems of the library).

`AuthorizationProofs`, from `AuthorizationAssumption`: `TypeCorrect`,
`ClaimsPredate`, `Replaced`, `GoverningIsHanded`. The type invariant holds the
foreign keys and row locks, which are not inductive without `InsertHoldsRole` (a
row inserted and not committed locks its role). `StaleClaimsPredate` needs what a
login knows between reading a user and issuing his token (`LoginsKnowRole`);
`OnlyWhatWasAsked`, an action property, needs what a transaction has still to delete
(`AskedAccounted`). `RightsNeedRights` follows from the types and the guards of single steps.

Every invariant and action property of a passing run, and both refinements, are
proved. Only model-checked: the liveness properties (`ClosedIsUnrouted`,
`AwayShownOffline`, `RevokedShownOffline`, `RefusalEnds`, `CutEndsControl`), since the
provers handle neither fairness's ENABLED nor leads-to arguments over data; and the
seven findings of the five violations, which are counterexamples.

## 5. Not modelled

Cryptography and certificate contents, settings, LDAP, capture, packaging,
presentation pages: no interleaving of theirs can go wrong in a way TLC would add
to. The pages' candidates and the input they send: what a candidate for another
session does is decided inside the WebRTC library, and a key that is down when its
session closes stays down because no code releases it. Both are listed as hazards
without a property. The browser's API client: its promises concern tabs and their
storage, of which the server sees requests only; `exchanged_once` shows what two tabs
that spend one token are given. The rest of `agent/cmd/agent/main.go` (command line, installation as
a service) is start-up.

## 6. Plan

Done: `AgentHub`, `RateLimiter`, `Credentials`, `Signaling`, `Enrollment`, `Accounts`,
`Authorization`, and the proofs of section 4. Left:

1. An abstract specification of who is connected, for `AgentHub`: what `IsAgentConnected`
   and `routeToAgent` promise the handlers, refined by goroutines and sockets.
2. `BrowserClient`: the retry after a 401 in `frontend/src/api/client.ts`, with one
   tab's concurrent requests over the rotation of `Credentials`.
3. Input held when a session closes, once code releases it.
