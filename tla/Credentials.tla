---------------------------- MODULE Credentials -----------------------------
(***************************************************************************)
(* One account's way in: password login with its lock-out counter, the     *)
(* rotation of refresh tokens, logout, and what an administrator does to   *)
(* the account (reset, deactivation, anonymisation) while requests are in  *)
(* flight.                                                                 *)
(*                                                                         *)
(* A handler runs one database statement per step: handleLogin and         *)
(* handleRefresh decide on a row they have read and write later, with      *)
(* every other request in between. The table's UPDATEs are atomic.         *)
(*                                                                         *)
(* Abstracted: passwords and one-time codes are a right or wrong verdict   *)
(* on the row that was read; access tokens, which nothing can revoke, and  *)
(* audit rows are left out. Requests turned away on the row they read      *)
(* (locked, inactive, "mfa_required", dead token) change nothing.          *)
(***************************************************************************)
EXTENDS Integers, FiniteSets

CONSTANTS
  Requests,     \* HTTP requests in flight at a time
  Tokens,       \* refresh tokens ever issued: bounds the behaviours
  NoToken,      \* "issued by a login"
  MaxAttempts,  \* maxFailedLoginAttempts
  MaxEpochs     \* administrator's changes to the credentials: a bound

ASSUME CredentialsAssumption ==
  /\ NoToken \notin Tokens
  /\ Requests \cap Tokens = {}
  /\ IsFiniteSet(Requests)
  /\ MaxAttempts \in Nat \ {0}
  /\ MaxEpochs \in Nat

VARIABLES
  active,     \* users.is_active
  usable,     \* users.password_hash is a hash some password matches
  failed,     \* users.failed_login_attempts, up to the only value compared
  locked,     \* users.locked_until is in the future
  tok,        \* refresh_tokens: free (no row), live, or dead: revoked
              \* or expired, which no step tells apart
  pc,         \* where each request stands
  spending,   \* the token a refresh request presented, NoToken for a login
  admin,      \* "idle", or "revoke": RevokeAllRefreshTokens is still to run
  epoch,      \* history: resets, deactivations and anonymisations so far
  parent,     \* history: the token a token was exchanged for
  basis,      \* history: the epoch of the login a token goes back to
  base,       \* history: the same, for what a request is about to issue
  late,       \* history: requests and tokens a RevokeAllRefreshTokens missed
  missed,     \* history: tokens whose revocation by the rotation failed
  tries       \* history: wrong credentials recorded since the account was last
              \* unlocked or logged in to

rowVars  == <<active, usable, failed, locked>>
reqVars  == <<pc, spending, base>>
tokVars  == <<tok, parent, basis>>
histVars == <<late, missed, tries>>
vars     == <<active, usable, failed, locked, tok, pc, spending, admin, epoch,
              parent, basis, base, late, missed, tries>>

\* "bad", "good": a login's verdict is known, its UPDATE is not done.
\* "owner", "rotate": a refresh before GetByID, before RevokeRefreshToken.
\* "issue": before StoreRefreshToken.
Stages == {"idle", "bad", "good", "owner", "rotate", "issue"}

TypeOK ==
  /\ active \in BOOLEAN /\ usable \in BOOLEAN /\ locked \in BOOLEAN
  /\ failed \in 0..MaxAttempts
  /\ tok \in [Tokens -> {"free", "live", "dead"}]
  /\ pc \in [Requests -> Stages]
  /\ spending \in [Requests -> Tokens \cup {NoToken}]
  /\ admin \in {"idle", "revoke"}
  /\ epoch \in 0..MaxEpochs
  /\ parent \in [Tokens -> Tokens \cup {NoToken}]
  /\ basis \in [Tokens -> 0..MaxEpochs]
  /\ base \in [Requests -> 0..MaxEpochs]
  /\ late \in SUBSET (Requests \cup Tokens)
  /\ missed \in SUBSET Tokens
  /\ tries \in Nat

Init ==
  /\ active = TRUE /\ usable = TRUE /\ locked = FALSE /\ failed = 0
  /\ tok = [t \in Tokens |-> "free"]
  /\ pc = [r \in Requests |-> "idle"]
  /\ spending = [r \in Requests |-> NoToken]
  /\ admin = "idle"
  /\ epoch = 0
  /\ parent = [t \in Tokens |-> NoToken]
  /\ basis = [t \in Tokens |-> 0]
  /\ base = [r \in Requests |-> 0]
  /\ late = {} /\ missed = {} /\ tries = 0

Goto(r, from, to) ==
  /\ pc[r] = from
  /\ pc' = [pc EXCEPT ![r] = to]

\* The handler returns: nothing remains of the request.
Done(r, from) ==
  /\ Goto(r, from, "idle")
  /\ spending' = [spending EXCEPT ![r] = NoToken]
  /\ base' = [base EXCEPT ![r] = 0]

(***************************************************************************)
(* handleLogin                                                             *)
(***************************************************************************)

\* GetByEmail, the tests on the row, and the verdict on what was presented.
LoginWrong(r) ==
  /\ ~locked /\ active
  /\ Goto(r, "idle", "bad")
  /\ UNCHANGED <<rowVars, tokVars, spending, base, admin, epoch, histVars>>

LoginRight(r) ==
  /\ ~locked /\ active /\ usable
  /\ Goto(r, "idle", "good")
  /\ base' = [base EXCEPT ![r] = epoch]
  /\ UNCHANGED <<rowVars, tokVars, spending, admin, epoch, histVars>>

\* Mutant: the counter is read at some point and written back here.
RegisterFailedLoginLost(r) ==
  /\ Done(r, "bad")
  /\ \E seen \in 0..failed :
       /\ failed' = IF seen < MaxAttempts THEN seen + 1 ELSE MaxAttempts
       /\ locked' = (locked \/ seen + 1 >= MaxAttempts)
  /\ tries' = tries + 1
  /\ UNCHANGED <<active, usable, tokVars, admin, epoch, late, missed>>

\* RegisterFailedLogin: one UPDATE increments, compares and locks.
RegisterFailedLogin(r) ==
  /\ Done(r, "bad")
  /\ failed' = IF failed < MaxAttempts THEN failed + 1 ELSE MaxAttempts
  /\ locked' = (locked \/ failed + 1 >= MaxAttempts)
  /\ tries' = tries + 1
  /\ UNCHANGED <<active, usable, tokVars, admin, epoch, late, missed>>

\* Mutant: takes one failure back instead of all.
RegisterSuccessfulLoginDecrement(r) ==
  /\ Goto(r, "good", "issue")
  /\ failed' = failed - 1 /\ locked' = FALSE
  /\ tries' = 0
  /\ UNCHANGED <<active, usable, tokVars, spending, base, admin, epoch, late, missed>>

\* RegisterSuccessfulLogin clears the counter and the lock, also one set
\* since this login read the row.
RegisterSuccessfulLogin(r) ==
  /\ Goto(r, "good", "issue")
  /\ failed' = 0 /\ locked' = FALSE
  /\ tries' = 0
  /\ UNCHANGED <<active, usable, tokVars, spending, base, admin, epoch, late, missed>>

(***************************************************************************)
(* handleRefresh, issueTokenPair, handleLogout                             *)
(***************************************************************************)

\* GetRefreshToken finds a row neither revoked nor expired.
RefreshPresent(r, t) ==
  /\ tok[t] = "live"
  /\ Goto(r, "idle", "owner")
  /\ spending' = [spending EXCEPT ![r] = t]
  /\ base' = [base EXCEPT ![r] = basis[t]]
  /\ late' = IF t \in late THEN late \cup {r} ELSE late
  /\ UNCHANGED <<rowVars, tokVars, admin, epoch, missed, tries>>

\* GetByID, and the IsActive test on the row.
RefreshOwner(r) ==
  /\ IF active
       THEN Goto(r, "owner", "rotate") /\ UNCHANGED <<spending, base, late>>
       ELSE Done(r, "owner") /\ late' = late \ {r}
  /\ UNCHANGED <<rowVars, tokVars, admin, epoch, missed, tries>>

\* Mutant: the new pair is issued first, the old token revoked afterwards.
RefreshRotateLast(r) ==
  /\ Goto(r, "rotate", "issue")
  /\ UNCHANGED <<rowVars, tokVars, spending, base, admin, epoch, histVars>>

\* RevokeRefreshToken; its error is ignored.
RefreshRotate(r) ==
  /\ Goto(r, "rotate", "issue")
  /\ \/ /\ tok' = [tok EXCEPT ![spending[r]] = "dead"]
        /\ UNCHANGED missed
     \/ /\ missed' = missed \cup {spending[r]}
        /\ UNCHANGED tok
  /\ UNCHANGED <<rowVars, parent, basis, spending, base, admin, epoch, late, tries>>

\* StoreRefreshToken: a new random token, hashed.
Issue(r) ==
  /\ Done(r, "issue")
  /\ \E t \in Tokens :
       /\ tok[t] = "free"
       /\ tok' = [tok EXCEPT ![t] = "live"]
       /\ parent' = [parent EXCEPT ![t] = spending[r]]
       /\ basis' = [basis EXCEPT ![t] = base[r]]
       /\ late' = (late \ {r}) \cup (IF r \in late THEN {t} ELSE {})
  /\ UNCHANGED <<rowVars, admin, epoch, missed, tries>>

\* The client hangs up, which cancels the request's context, or a statement
\* fails: the handler stops where it stands, with what it has done so far.
Abort(r) ==
  /\ \E s \in Stages \ {"idle"} : Done(r, s)
  /\ late' = late \ {r}
  /\ UNCHANGED <<rowVars, tokVars, admin, epoch, missed, tries>>

\* handleLogout revokes the token, or it reaches its expires_at.
Logout(t) ==
  /\ tok[t] = "live"
  /\ tok' = [tok EXCEPT ![t] = "dead"]
  /\ UNCHANGED <<rowVars, reqVars, parent, basis, admin, epoch, histVars>>

(***************************************************************************)
(* handleUpdateUser and handleDeleteUser, one administrator at a time      *)
(***************************************************************************)

\* SetPasswordHash.
ResetPassword ==
  /\ admin = "idle" /\ epoch < MaxEpochs
  /\ admin' = "revoke"
  /\ epoch' = epoch + 1
  /\ usable' = TRUE
  /\ UNCHANGED <<active, failed, locked, tokVars, reqVars, histVars>>

\* Mutant: relies on the IsActive test of handleRefresh, revokes no token.
DeactivateOnly ==
  /\ admin = "idle" /\ epoch < MaxEpochs
  /\ epoch' = epoch + 1
  /\ active' = FALSE
  /\ UNCHANGED <<usable, failed, locked, tokVars, reqVars, admin, histVars>>

\* SetActive(false).
Deactivate ==
  /\ admin = "idle" /\ epoch < MaxEpochs
  /\ admin' = "revoke"
  /\ epoch' = epoch + 1
  /\ active' = FALSE
  /\ UNCHANGED <<usable, failed, locked, tokVars, reqVars, histVars>>

\* SetActive(true): no token is touched.
Activate ==
  /\ admin = "idle"
  /\ ~active
  /\ active' = TRUE
  /\ UNCHANGED <<usable, failed, locked, tokVars, reqVars, admin, epoch, histVars>>

\* UserRepo.Delete of an account with audit rows: anonymize.
Anonymize ==
  /\ admin = "idle" /\ epoch < MaxEpochs
  /\ admin' = "revoke"
  /\ epoch' = epoch + 1
  /\ active' = FALSE /\ usable' = FALSE
  /\ UNCHANGED <<failed, locked, tokVars, reqVars, histVars>>

\* RevokeAllRefreshTokens. Its error is ignored or, by anonymize, reported
\* once the row has changed. It cannot see what is not stored yet.
RevokeAll ==
  /\ admin = "revoke"
  /\ admin' = "idle"
  /\ LET live == {t \in Tokens : tok[t] = "live"}
         past == {r \in Requests : pc[r] \notin {"idle", "bad"}}
     IN \/ /\ tok' = [t \in Tokens |-> IF t \in live THEN "dead" ELSE tok[t]]
           /\ late' = late \cup past
        \/ /\ late' = late \cup past \cup live
           /\ UNCHANGED tok
  /\ UNCHANGED <<rowVars, reqVars, parent, basis, epoch, missed, tries>>

(***************************************************************************)
(* Time                                                                    *)
(***************************************************************************)

\* lockDuration is over. The counter keeps its value.
LockExpires ==
  /\ locked
  /\ locked' = FALSE
  /\ tries' = 0
  /\ UNCHANGED <<active, usable, failed, tokVars, reqVars, admin, epoch, late, missed>>

Login(r)   == LoginWrong(r) \/ LoginRight(r) \/ RegisterFailedLogin(r) \/ RegisterSuccessfulLogin(r)
Refresh(r) == (\E t \in Tokens : RefreshPresent(r, t)) \/ RefreshOwner(r) \/ RefreshRotate(r)
Manage     == ResetPassword \/ Deactivate \/ Activate \/ Anonymize \/ RevokeAll

Next ==
  \/ \E r \in Requests : Login(r) \/ Refresh(r) \/ Issue(r) \/ Abort(r)
  \/ \E t \in Tokens : Logout(t)
  \/ Manage
  \/ LockExpires

Spec == Init /\ [][Next]_vars

-----------------------------------------------------------------------------
(***************************************************************************)
(* Properties                                                              *)
(***************************************************************************)

\* Rotation retires before it issues: whoever holds a token obtained with an
\* older one cannot be competing with that older one, unless the database
\* refused the UPDATE whose error handleRefresh ignores.
ParentIsDead ==
  \A t \in Tokens :
    parent[t] # NoToken => tok[parent[t]] # "live" \/ parent[t] \in missed

\* The lock-out holds under concurrency: no recorded failure is lost to
\* another one, so between two unlockings the account records at most
\* maxFailedLoginAttempts of them, and one more for each other request that
\* was already past the test of locked_until. (A failure whose UPDATE is not
\* run, RegisterFailedLogin's error being ignored, is not counted at all.)
GuessesBounded == tries <= MaxAttempts + Cardinality(Requests) - 1

\* When a reset, a deactivation or an anonymisation has returned, a token
\* from before it works only if it was not stored yet when the revocation
\* ran, if that revocation failed, or if it was exchanged for such a token.
OutdatedTokensAreLate ==
  admin = "idle" =>
    \A t \in Tokens : tok[t] = "live" /\ basis[t] < epoch => t \in late

-----------------------------------------------------------------------------
(***************************************************************************)
(* What a comment says, and the code does not do                           *)
(***************************************************************************)

\* "l'ancien refresh token est revoque des qu'il est utilise"
\* (handlers_auth.go:133): a token is exchanged for one pair at most.
ExchangedOnce ==
  \A t, u \in Tokens : parent[t] = parent[u] /\ parent[t] # NoToken => t = u
=============================================================================
