------------------------------ MODULE Accounts ------------------------------
(***************************************************************************)
(* The life of user accounts: first-run setup, creation, profile changes,  *)
(* deletion or anonymisation, and MFA enrolment.                           *)
(*                                                                         *)
(* A handler runs one database statement per step. What ties the handlers  *)
(* together is the audit log: a users row that an audit row names as its   *)
(* actor cannot be deleted, since the log refuses the UPDATE that would    *)
(* detach it, and nearly every request of an account writes such a row.    *)
(*                                                                         *)
(* Abstracted: every account here is an administrator's (Authorization has *)
(* the roles); an access token works as long as its bearer likes; "named"  *)
(* stands for e-mail and display name. Left out: passwords, lock-out,      *)
(* activation and refresh tokens, which are Credentials, and requests that *)
(* are refused before they change anything.                                *)
(***************************************************************************)
EXTENDS Integers, FiniteSets

CONSTANTS
  Accounts,   \* users rows ever inserted: bounds the behaviours
  Requests,   \* HTTP requests in flight at a time
  NoAccount   \* a request that acts for nobody yet

ASSUME AccountsAssumption ==
  /\ NoAccount \notin Accounts
  /\ IsFiniteSet(Requests)

VARIABLES
  row,        \* users: "none", "named", "erased" (anonymised), "deleted"
  audited,    \* accounts that an audit_logs row names as actor_user_id
  bearer,     \* accounts whose access token somebody holds
  secret,     \* users.mfa_totp_secret_enc: "null", "new", or "shown": a code
              \* has been right for it (history)
  mfa,        \* accounts with users.mfa_enabled
  pc,         \* where each request stands
  actor,      \* the account a request acts for
  target,     \* the account it acts on
  carried,    \* the identity handleUpdateUser has read
  founded,    \* history: how many accounts handleSetup has made
  erasures,   \* history: accounts deleted, of which no administrator has
              \* typed in an identity since
  lost        \* history: an account got its token, and Append had failed

rowVars == <<row, secret, mfa>>
reqVars == <<pc, actor, target, carried>>
vars == <<row, audited, bearer, secret, mfa, pc, actor, target, carried,
          founded, erasures, lost>>

\* "insert": handleSetup has counted no user. "issue": before
\* StoreRefreshToken. "answer": before the audit row and the token pair.
\* "update": handleUpdateUser has read the row. "verify": handleMFAVerify has.
\* "erase": the database has refused the DELETE.
Stages == {"idle", "insert", "issue", "answer", "update", "verify", "erase"}

TypeOK ==
  /\ row \in [Accounts -> {"none", "named", "erased", "deleted"}]
  /\ audited \in SUBSET Accounts /\ bearer \in SUBSET Accounts
  /\ secret \in [Accounts -> {"null", "new", "shown"}]
  /\ mfa \in SUBSET Accounts
  /\ pc \in [Requests -> Stages]
  /\ actor \in [Requests -> Accounts \cup {NoAccount}]
  /\ target \in [Requests -> Accounts \cup {NoAccount}]
  /\ carried \in [Requests -> {"nothing", "named", "erased"}]
  /\ \A r \in Requests : pc[r] = "update" <=> carried[r] # "nothing"
  /\ founded \in Nat
  /\ erasures \in SUBSET Accounts
  /\ lost \in BOOLEAN

Init ==
  /\ row = [a \in Accounts |-> "none"]
  /\ audited = {} /\ bearer = {}
  /\ secret = [a \in Accounts |-> "null"] /\ mfa = {}
  /\ pc = [r \in Requests |-> "idle"]
  /\ actor = [r \in Requests |-> NoAccount]
  /\ target = [r \in Requests |-> NoAccount]
  /\ carried = [r \in Requests |-> "nothing"]
  /\ founded = 0 /\ erasures = {} /\ lost = FALSE

Stored == {a \in Accounts : row[a] \in {"named", "erased"}}

\* A request starts for account a, goes on ...
Start(r, a, to) ==
  /\ pc[r] = "idle"
  /\ pc' = [pc EXCEPT ![r] = to]
  /\ actor' = [actor EXCEPT ![r] = a]

Goto(r, from, to) ==
  /\ pc[r] = from
  /\ pc' = [pc EXCEPT ![r] = to]

\* ... and its handler returns: nothing remains of it.
Done(r, from) ==
  /\ Goto(r, from, "idle")
  /\ actor' = [actor EXCEPT ![r] = NoAccount]
  /\ target' = [target EXCEPT ![r] = NoAccount]
  /\ carried' = [carried EXCEPT ![r] = "nothing"]

\* INSERT INTO users.
Insert(a) ==
  /\ row[a] = "none"
  /\ row' = [row EXCEPT ![a] = "named"]

\* The audit row of what account a has done, whose failure is only logged.
\* It is a statement of its own, yet no step of its own here: its actor holds
\* a token and has such a row already, save after lost.
Logged(a) == audited' \in {audited, audited \cup ({a} \cap Stored)}

(***************************************************************************)
(* handleSetup and handleLogin                                             *)
(***************************************************************************)

\* Count finds no row.
SetupCount(r) ==
  /\ Stored = {}
  /\ Start(r, NoAccount, "insert")
  /\ UNCHANGED <<rowVars, audited, bearer, target, carried, founded, erasures, lost>>

\* Create, whatever the table holds by now. An e-mail that is there already
\* is refused (Abort).
SetupCreate(r) ==
  /\ Goto(r, "insert", "issue")
  /\ \E a \in Accounts : Insert(a) /\ actor' = [actor EXCEPT ![r] = a]
  /\ founded' = founded + 1
  /\ UNCHANGED <<secret, mfa, audited, bearer, target, carried, erasures, lost>>

\* GetByEmail and the credentials are right: an erased account may have been
\* given a password and been activated again.
LoginRight(r, a) ==
  /\ a \in Stored
  /\ Start(r, a, "issue")
  /\ UNCHANGED <<rowVars, audited, bearer, target, carried, founded, erasures, lost>>

\* They are wrong, which is audited as an act of the account.
LoginWrong(a) ==
  /\ a \in Stored
  /\ audited' = audited \cup {a}
  /\ UNCHANGED <<rowVars, bearer, reqVars, founded, erasures, lost>>

\* issueTokenPair: the refresh token's row needs its user.
StoreRefreshToken(r) ==
  /\ Goto(r, "issue", "answer")
  /\ actor[r] \in Stored
  /\ UNCHANGED <<rowVars, audited, bearer, actor, target, carried, founded, erasures, lost>>

\* Mutant: answers, and leaves the audit row to a request that comes later.
AnswerUnlogged(r) ==
  /\ Done(r, "answer")
  /\ bearer' = bearer \cup {actor[r]}
  /\ UNCHANGED <<rowVars, audited, founded, erasures, lost>>

\* Append, whose error is only logged, then the token pair. A row that is
\* gone cannot be referenced; for any other failure, see lost.
Answer(r) ==
  /\ Done(r, "answer")
  /\ bearer' = bearer \cup {actor[r]}
  /\ \/ /\ audited' = audited \cup ({actor[r]} \cap Stored)
        /\ UNCHANGED lost
     \/ /\ lost' = (lost \/ actor[r] \in Stored \ audited)
        /\ UNCHANGED audited
  /\ UNCHANGED <<rowVars, founded, erasures>>

(***************************************************************************)
(* handleCreateUser, handleUpdateUser, handleDeleteUser                    *)
(***************************************************************************)

CreateUser(a) ==
  /\ a \in bearer
  /\ \E b \in Accounts : Insert(b)
  /\ Logged(a)
  /\ UNCHANGED <<secret, mfa, bearer, reqVars, founded, erasures, lost>>

\* Mutant: goes on when GetByID finds no row.
UpdateReadAnyRow(r, a, b) ==
  /\ a \in bearer
  /\ Start(r, a, "update")
  /\ target' = [target EXCEPT ![r] = b]
  /\ carried' = [carried EXCEPT ![r] = row[b]]
  /\ UNCHANGED <<rowVars, audited, bearer, founded, erasures, lost>>

\* The profile part reads the row for the fields the request leaves out ...
UpdateRead(r, a, b) ==
  /\ a \in bearer
  /\ b \in Stored
  /\ Start(r, a, "update")
  /\ target' = [target EXCEPT ![r] = b]
  /\ carried' = [carried EXCEPT ![r] = row[b]]
  /\ UNCHANGED <<rowVars, audited, bearer, founded, erasures, lost>>

\* ... and UpdateProfile writes all of them, over whatever is there by now: an
\* identity the administrator has typed, or the one that was read.
UpdateProfile(r) ==
  LET b == target[r] IN
  /\ Done(r, "update")
  /\ \/ /\ b \notin Stored
        /\ UNCHANGED <<row, erasures>>
     \/ /\ b \in Stored
        /\ row' = [row EXCEPT ![b] = "named"]
        /\ erasures' = erasures \ {b}
     \/ /\ b \in Stored
        /\ row' = [row EXCEPT ![b] = carried[r]]
        /\ UNCHANGED erasures
  /\ Logged(actor[r])
  /\ UNCHANGED <<secret, mfa, bearer, founded, lost>>

\* An account's row goes, or is emptied.
Remove(b, how) ==
  /\ row' = [row EXCEPT ![b] = how]
  /\ secret' = [secret EXCEPT ![b] = "null"]
  /\ mfa' = mfa \ {b}
  /\ erasures' = erasures \cup {b}

\* Mutant: the log's reference to its actor may be detached (SET NULL without
\* the trigger), so every DELETE succeeds.
DeleteDetaching(r, a, b) ==
  /\ a \in bearer /\ b # a
  /\ b \in Stored
  /\ pc[r] = "idle"
  /\ Remove(b, "deleted")
  /\ UNCHANGED <<reqVars, audited, bearer, founded, lost>>

\* Nobody deletes himself. The DELETE succeeds, or the audit log refuses it.
Delete(r, a, b) ==
  /\ a \in bearer /\ b # a
  /\ b \in Stored
  /\ \/ /\ b \notin audited
        /\ pc[r] = "idle"
        /\ Remove(b, "deleted")
        /\ Logged(a)
        /\ UNCHANGED reqVars
     \/ /\ b \in audited
        /\ Start(r, a, "erase")
        /\ target' = [target EXCEPT ![r] = b]
        /\ UNCHANGED <<rowVars, audited, carried, erasures>>
  /\ UNCHANGED <<bearer, founded, lost>>

\* anonymize, in another statement: identity, password and MFA at once.
Anonymize(r) ==
  /\ Done(r, "erase")
  /\ Remove(target[r], "erased")
  /\ Logged(actor[r])
  /\ UNCHANGED <<bearer, founded, lost>>

(***************************************************************************)
(* handleMFASetup, handleMFAVerify                                         *)
(***************************************************************************)

\* SetMFASecret(a new one, false).
MFASetup(a) ==
  /\ a \in bearer \cap Stored
  /\ secret' = [secret EXCEPT ![a] = "new"]
  /\ mfa' = mfa \ {a}
  /\ UNCHANGED <<row, audited, bearer, reqVars, founded, erasures, lost>>

\* GetByID, and the code is right for the secret that was read ...
MFAVerifyRead(r, a) ==
  /\ a \in bearer \cap Stored
  /\ secret[a] # "null"
  /\ Start(r, a, "verify")
  /\ secret' = [secret EXCEPT ![a] = "shown"]
  /\ UNCHANGED <<row, mfa, audited, bearer, target, carried, founded, erasures, lost>>

\* Mutant: only sets mfa_enabled.
MFAEnable(r) ==
  /\ Done(r, "verify")
  /\ mfa' = mfa \cup ({actor[r]} \cap Stored)
  /\ Logged(actor[r])
  /\ UNCHANGED <<row, secret, bearer, founded, erasures, lost>>

\* ... and SetMFASecret(that secret, true), over whatever is there by now.
MFAVerifyWrite(r) ==
  /\ Done(r, "verify")
  /\ secret' = IF actor[r] \in Stored THEN [secret EXCEPT ![actor[r]] = "shown"] ELSE secret
  /\ mfa' = mfa \cup ({actor[r]} \cap Stored)
  /\ Logged(actor[r])
  /\ UNCHANGED <<row, bearer, founded, erasures, lost>>

\* A statement fails, the client hangs up or the server stops: the handler
\* ends where it stands.
Abort(r) ==
  /\ \E s \in Stages \ {"idle"} : Done(r, s)
  /\ UNCHANGED <<rowVars, audited, bearer, founded, erasures, lost>>

Setup(r)  == SetupCount(r) \/ SetupCreate(r)
Login(r)  == (\E a \in Accounts : LoginRight(r, a)) \/ StoreRefreshToken(r) \/ Answer(r)
Manage(r) == \/ \E a, b \in Accounts : UpdateRead(r, a, b) \/ Delete(r, a, b)
             \/ UpdateProfile(r) \/ Anonymize(r)
Enrol(r)  == (\E a \in Accounts : MFAVerifyRead(r, a)) \/ MFAVerifyWrite(r)

Next ==
  \/ \E r \in Requests : Setup(r) \/ Login(r) \/ Manage(r) \/ Enrol(r) \/ Abort(r)
  \/ \E a \in Accounts : LoginWrong(a) \/ CreateUser(a) \/ MFASetup(a)

Spec == Init /\ [][Next]_vars

-----------------------------------------------------------------------------
(***************************************************************************)
(* Properties                                                              *)
(***************************************************************************)

\* An instance that has been set up never falls back to the setup page, which
\* anybody may use: there is no order of deletions, each by another account,
\* that empties the table. Nobody gets a token before an audit row protects
\* his account, or that row could not be written.
SetupStaysClosed ==
  (\E a \in Accounts : row[a] # "none") => Stored # {} \/ lost

\* MFA is never on with a secret whose code the user has not shown to have,
\* whatever set-ups, verifications and deletions overlap: nobody is locked
\* out by a secret he never enrolled.
MFASecretVerified == \A a \in mfa : secret[a] = "shown"

-----------------------------------------------------------------------------
(***************************************************************************)
(* What the documentation says, and the code does not do                   *)
(***************************************************************************)

\* handleSetup makes "le tout premier compte administrateur" and accepts no
\* request once the instance has a user (handlers_setup.go:28-30): there is one
\* founder, as long as the table cannot be emptied again.
OneFounder == founded <= 1 \/ lost

\* A deleted account that the log keeps is anonymised, "identite effacee ...
\* definitivement" (users.go:131-132), and deleting is "irreversible"
\* (Users.tsx:82): no identity appears in its row that no administrator has
\* typed in since.
ErasedForGood == \A a \in erasures : row[a] \in {"erased", "deleted"}

\* Each of the two should hold of every state. Much less is asked for here, that
\* one of them does, so that a behaviour against this contradicts both texts.
OneClaimHolds == OneFounder \/ ErasedForGood
=============================================================================
