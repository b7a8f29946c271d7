--------------------------- MODULE Authorization ----------------------------
(***************************************************************************)
(* What users may do: roles and their permissions, the role of a user, and *)
(* the access tokens that carry a copy of the permissions.                 *)
(*                                                                         *)
(* RequirePermission looks at the token only, before the handler starts.   *)
(* issueTokenPair reads the permissions of the role that handleLogin or    *)
(* handleRefresh read a few statements earlier.                            *)
(*                                                                         *)
(* SetPermissions is a transaction of two statements at PostgreSQL's READ  *)
(* COMMITTED. Its DELETE sees the rows committed when it starts, waits for *)
(* whoever is deleting one of them, and passes over those that are gone by *)
(* then; rows inserted meanwhile it does not see. Its INSERT waits for     *)
(* whoever is inserting or deleting a row with the same key, and fails if  *)
(* one remains. A row deleted and inserted again is another row.           *)
(*                                                                         *)
(* Left out: the rest of login and refresh (Credentials), accounts coming  *)
(* and going (Accounts), the routes that only read.                        *)
(***************************************************************************)
EXTENDS FiniteSets

CONSTANTS
  Users,     \* the accounts
  Roles,     \* roles that exist at some time: bounds the behaviours
  System,    \* those with is_system, created by the migration
  Admin,     \* the one of them that is granted everything
  Others,    \* permissions other than the two below
  Tokens,    \* access tokens at a time: a bound
  Requests   \* HTTP requests in flight at a time

ASSUME AuthorizationAssumption ==
  /\ System \subseteq Roles /\ Admin \in System
  /\ Tokens \cap Requests = {}

\* The permissions that let one change what users may do.
Governing   == {"users.manage", "roles.manage"}
Permissions == Others \cup Governing

VARIABLES
  roles,    \* rows of roles
  granted,  \* committed rows of role_permissions, by role
  roleOf,   \* users.role_id
  tokens,   \* access tokens issued and not expired: holder and claims
  pc,       \* where each request stands
  on,       \* the role it writes, or has read
  who,      \* whom it issues a token to
  wanted,   \* the permissions handleSetRolePermissions was given
  rows,     \* what its DELETE is to delete, or has deleted
  asked,    \* history: what it wants, and what was committed to the role
            \* since its DELETE began
  old       \* history: tokens from before the last change of what their
            \* holder may do, requests that read a role since replaced

reqVars == <<on, who, wanted, rows, asked>>
vars == <<roles, granted, roleOf, tokens, pc, on, who, wanted, rows, asked, old>>

\* "users", "roles": past RequirePermission, before the handler's statement.
\* "delete": in SetPermissions' DELETE, its snapshot taken. "insert": before
\* its INSERT. "commit": before its COMMIT. "issue": before
\* PermissionsForRole.
Stages  == {"idle", "users", "roles", "delete", "insert", "commit", "issue"}
Writing == {"delete", "insert", "commit"}

Blank == [holder |-> {}, claims |-> {}]

Types ==
  /\ roles \in SUBSET Roles
  /\ granted \in [Roles -> SUBSET Permissions]
  /\ roleOf \in [Users -> Roles]
  /\ tokens \in [Tokens -> [holder : SUBSET Users, claims : SUBSET Permissions]]
  /\ pc \in [Requests -> Stages]
  /\ on \in [Requests -> Roles]
  /\ who \in [Requests -> SUBSET Users]
  /\ wanted \in [Requests -> SUBSET Permissions]
  /\ rows \in [Requests -> SUBSET Permissions]
  /\ asked \in [Requests -> SUBSET Permissions]
  /\ old \in SUBSET (Tokens \cup Requests)

ForeignKeys ==
  /\ \A u \in Users : roleOf[u] \in roles
  /\ \A o \in Roles \ roles : granted[o] = {}

RowLocks ==
  \A r, q \in Requests :
    r # q /\ on[r] = on[q] /\ {pc[r], pc[q]} \subseteq {"insert", "commit"}
      => rows[r] \cap rows[q] = {}

\* The types, and what the database itself keeps: references to rows that
\* exist, and no row deleted by two transactions.
TypeOK == Types /\ ForeignKeys /\ RowLocks

Init ==
  /\ roles = System
  /\ granted = [o \in Roles |-> CASE o = Admin   -> Permissions
                                  [] o \notin System -> {}
                                  [] OTHER       -> Others]
  /\ roleOf \in [Users -> System]
  /\ tokens = [t \in Tokens |-> Blank]
  /\ pc = [r \in Requests |-> "idle"]
  /\ on = [r \in Requests |-> Admin]
  /\ who = [r \in Requests |-> {}]
  /\ wanted = [r \in Requests |-> {}]
  /\ rows = [r \in Requests |-> {}]
  /\ asked = [r \in Requests |-> {}]
  /\ old = {}

-----------------------------------------------------------------------------
Valid == {t \in Tokens : tokens[t].holder # {}}

Goto(r, from, to) == pc[r] = from /\ pc' = [pc EXCEPT ![r] = to]

\* The request is answered, or gives up: whatever it kept is gone.
Leave(r) ==
  /\ pc' = [pc EXCEPT ![r] = "idle"]
  /\ on' = [on EXCEPT ![r] = Admin]
  /\ who' = [who EXCEPT ![r] = {}]
  /\ wanted' = [wanted EXCEPT ![r] = {}]

\* Tokens and logins in flight are not told of a change.
Held(users)    == {t \in Tokens : tokens[t].holder \cap users # {}}
Logins(users)  == {r \in Requests : pc[r] = "issue" /\ who[r] \cap users # {}}
Members(o)     == {u \in Users : roleOf[u] = o}

\* Transactions of SetPermissions on r's role other than r's, the rows they
\* have deleted and those they have inserted.
Rivals(r)   == {q \in Requests \ {r} : pc[q] \in Writing /\ on[q] = on[r]}
Deleted(q)  == IF pc[q] = "delete" THEN {} ELSE rows[q]
Inserted(q) == IF pc[q] = "commit" THEN wanted[q] ELSE {}

-----------------------------------------------------------------------------
\* RequireAuth only.
RequireToken(p) == Valid # {}

\* RequireAuth, then RequirePermission(p): a valid token claims it.
RequirePermission(p) == \E t \in Valid : p \in tokens[t].claims

Enter(r, p) ==
  /\ RequirePermission(p)
  /\ Goto(r, "idle", IF p = "users.manage" THEN "users" ELSE "roles")
  /\ UNCHANGED <<roles, granted, roleOf, tokens, old>>
  /\ UNCHANGED reqVars

\* handleUpdateUser with a role_id: users.role_id REFERENCES roles.
UpdateRole(r, u, o) ==
  /\ o \in roles
  /\ Goto(r, "users", "idle")
  /\ roleOf' = [roleOf EXCEPT ![u] = o]
  /\ old' = old \cup Held({u}) \cup Logins({u})
  /\ UNCHANGED <<roles, granted, tokens>>
  /\ UNCHANGED reqVars

\* A new row gets a new id: it is nobody's target yet.
CreateRole(r, o) ==
  /\ o \notin roles /\ \A q \in Requests : on[q] # o
  /\ Goto(r, "roles", "idle")
  /\ roles' = roles \cup {o}
  /\ UNCHANGED <<granted, roleOf, tokens, old>>
  /\ UNCHANGED reqVars

\* Without ON DELETE RESTRICT.
DeletableWhileHeld(o) == o \in roles \ System

\* ON DELETE RESTRICT for users. ON DELETE CASCADE for role_permissions,
\* once no transaction holds a lock below the role.
Deletable(o) ==
  /\ o \in roles \ System
  /\ Members(o) = {}
  /\ \A q \in Requests : pc[q] \in Writing /\ on[q] = o
                           => Deleted(q) \cup Inserted(q) = {}

DeleteRole(r, o) ==
  /\ Deletable(o)
  /\ Goto(r, "roles", "idle")
  /\ roles' = roles \ {o}
  /\ granted' = [granted EXCEPT ![o] = {}]
  /\ rows' = [q \in Requests |-> IF pc[q] \in Writing /\ on[q] = o THEN {} ELSE rows[q]]
  /\ UNCHANGED <<roleOf, tokens, on, who, wanted, asked, old>>

-----------------------------------------------------------------------------
(* handleSetRolePermissions, SetPermissions                                *)

BeginDelete(r, o, keys) ==
  /\ Goto(r, "roles", "delete")
  /\ on' = [on EXCEPT ![r] = o]
  /\ wanted' = [wanted EXCEPT ![r] = keys]
  /\ rows' = [rows EXCEPT ![r] = granted[o]]
  /\ asked' = [asked EXCEPT ![r] = keys]
  /\ UNCHANGED <<roles, granted, roleOf, tokens, who, old>>

Unlocked(r, keys) == \A q \in Rivals(r) : (Deleted(q) \cup Inserted(q)) \cap keys = {}

Delete(r) ==
  /\ Unlocked(r, rows[r])
  /\ Goto(r, "delete", "insert")
  /\ UNCHANGED <<roles, granted, roleOf, tokens, old>>
  /\ UNCHANGED reqVars

\* Skipped when no key is wanted. The role must exist, and no row with a
\* wanted key may be left.
Insert(r) ==
  /\ \/ wanted[r] = {}
     \/ /\ on[r] \in roles
        /\ Unlocked(r, wanted[r])
        /\ wanted[r] \cap (granted[on[r]] \ rows[r]) = {}
  /\ Goto(r, "insert", "commit")
  /\ UNCHANGED <<roles, granted, roleOf, tokens, old>>
  /\ UNCHANGED reqVars

\* Without the DELETE.
ReplacementAppends(r) == granted[on[r]] \cup wanted[r]

\* The role's rows once r has committed.
Replacement(r) == (granted[on[r]] \ rows[r]) \cup wanted[r]

\* Rivals still in their DELETE pass over the rows that r has deleted. What
\* a token claims is fixed, what a login in flight will read is not.
Commit(r) ==
  LET o == on[r]
      behind == {q \in Rivals(r) : pc[q] = "delete"}
  IN /\ pc[r] = "commit"
     /\ Leave(r)
     /\ granted' = [granted EXCEPT ![o] = Replacement(r)]
     /\ rows' = [q \in Requests |-> CASE q = r           -> {}
                                      [] q \in behind    -> rows[q] \ rows[r]
                                      [] OTHER           -> rows[q]]
     /\ asked' = [q \in Requests |-> CASE q = r            -> {}
                                       [] q \in Rivals(r)  -> asked[q] \cup wanted[r]
                                       [] OTHER            -> asked[q]]
     /\ old' = IF granted'[o] = granted[o] THEN old ELSE old \cup Held(Members(o))
     /\ UNCHANGED <<roles, roleOf, tokens>>

-----------------------------------------------------------------------------
(* handleLogin and handleRefresh, from the row they read; issueTokenPair   *)

ReadUser(r, u) ==
  /\ Goto(r, "idle", "issue")
  /\ on' = [on EXCEPT ![r] = roleOf[u]]
  /\ who' = [who EXCEPT ![r] = {u}]
  /\ UNCHANGED <<roles, granted, roleOf, tokens, wanted, rows, asked, old>>

\* Copied from the holder's earlier token, as an issuer that never went back
\* to the database would.
ClaimsCopied(r) ==
  LET before == {t \in Valid : tokens[t].holder = who[r]}
  IN IF before = {} THEN granted[on[r]] ELSE tokens[CHOOSE t \in before : TRUE].claims

\* PermissionsForRole.
Claims(r) == granted[on[r]]

Issue(r, t) ==
  /\ pc[r] = "issue" /\ t \notin Valid
  /\ Leave(r)
  /\ tokens' = [tokens EXCEPT ![t] = [holder |-> who[r], claims |-> Claims(r)]]
  /\ old' = (old \ {r}) \cup (IF r \in old THEN {t} ELSE {})
  /\ UNCHANGED <<roles, granted, roleOf, rows, asked>>

\* Verify fails from now on: the access token's exp has passed.
Expire(t) ==
  /\ t \in Valid
  /\ tokens' = [tokens EXCEPT ![t] = Blank]
  /\ old' = old \ {t}
  /\ UNCHANGED <<roles, granted, roleOf, pc>>
  /\ UNCHANGED reqVars

-----------------------------------------------------------------------------
\* An error of the database or of a check, the request's 30 seconds, a
\* deadlock resolved against it: rolled back.
Abort(r) ==
  /\ pc[r] # "idle"
  /\ Leave(r)
  /\ rows' = [rows EXCEPT ![r] = {}]
  /\ asked' = [asked EXCEPT ![r] = {}]
  /\ old' = old \ {r}
  /\ UNCHANGED <<roles, granted, roleOf, tokens>>

Next ==
  \/ \E r \in Requests :
       \/ \E p \in Governing : Enter(r, p)
       \/ \E u \in Users, o \in Roles : UpdateRole(r, u, o)
       \/ \E o \in Roles : CreateRole(r, o) \/ DeleteRole(r, o)
       \/ \E o \in Roles, keys \in SUBSET Permissions : BeginDelete(r, o, keys)
       \/ Delete(r) \/ Insert(r) \/ Commit(r) \/ Abort(r)
       \/ \E u \in Users : ReadUser(r, u)
       \/ \E t \in Tokens : Issue(r, t)
  \/ \E t \in Tokens : Expire(t)

Spec == Init /\ [][Next]_vars

-----------------------------------------------------------------------------
\* handleSetRolePermissions replaces: what it was asked for is granted in
\* full, and nothing else stays but what another such request, running at the
\* same time, was asked for. (So two at once may leave the union.)
OnlyWhatWasAsked ==
  [][\A r \in Requests :
       Commit(r) => /\ wanted[r] \subseteq granted'[on[r]]
                    /\ granted'[on[r]] \subseteq asked[r]]_vars

\* The claims that RequirePermission trusts are what the holder may do, but
\* for tokens issued before a change of the role's permissions or by a login
\* or refresh that had read the user's row before a change of role: a change
\* is in force once those have expired.
StaleClaimsPredate ==
  \A t \in Valid : \A u \in tokens[t].holder :
    tokens[t].claims = granted[roleOf[u]] \/ t \in old

\* Somebody holds a governing permission, is about to, or is past the check.
Governed ==
  \/ \E t \in Valid : tokens[t].claims \cap Governing # {}
  \/ \E u \in Users : granted[roleOf[u]] \cap Governing # {}
  \/ \E r \in Requests : \/ pc[r] \in {"users", "roles"}
                         \/ pc[r] \in Writing
                         \/ pc[r] = "issue" /\ granted[on[r]] \cap Governing # {}

\* The right to manage users or roles comes from somebody who had it: when
\* the last one has given it up and his tokens have expired, nothing in the
\* API brings it back.
RightsNeedRights == [][Governed' => Governed]_vars

=============================================================================
