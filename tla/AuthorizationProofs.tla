------------------------ MODULE AuthorizationProofs -------------------------
(***************************************************************************)
(* The safety of roles, permissions and access tokens, for every number of *)
(* users, roles, tokens and requests.                                      *)
(***************************************************************************)
EXTENDS Authorization, TLAPS

\* A row inserted and not committed holds its role: nobody can delete it.
InsertHoldsRole ==
  \A r \in Requests : pc[r] = "commit" /\ wanted[r] # {} => on[r] \in roles

\* A login that has read the user's row knows his role, or is counted as old.
LoginsKnowRole ==
  \A r \in Requests : pc[r] = "issue" =>
    r \in old \/ \A u \in who[r] : on[r] = roleOf[u]

\* What a transaction is not going to delete was asked for.
AskedAccounted ==
  \A r \in Requests : pc[r] \in Writing =>
    wanted[r] \cup (granted[on[r]] \ rows[r]) \subseteq asked[r]

\* The inductive invariant: the tables and locks, the tokens, the answers.
Tables   == TypeOK /\ InsertHoldsRole
Bearings == StaleClaimsPredate /\ LoginsKnowRole
IInv     == Tables /\ Bearings /\ AskedAccounted

-----------------------------------------------------------------------------
\* A step keeps the types.
LEMMA TypeStep == Types /\ [Next]_vars => Types'
<1> SUFFICES ASSUME Types, [Next]_vars PROVE Types'
  OBVIOUS
<1> USE AuthorizationAssumption DEF Types, Stages, reqVars
<1>1. ASSUME NEW r \in Requests, NEW p \in Governing, Enter(r, p)
     PROVE  Types'
  BY <1>1 DEF Enter, Goto, Governing
<1>2. ASSUME NEW r \in Requests, NEW u \in Users, NEW o \in Roles, UpdateRole(r, u, o)
     PROVE  Types'
  BY <1>2 DEF UpdateRole, Goto, Held, Logins
<1>3. ASSUME NEW r \in Requests, NEW o \in Roles, CreateRole(r, o)
     PROVE  Types'
  BY <1>3 DEF CreateRole, Goto
<1>4. ASSUME NEW r \in Requests, NEW o \in Roles, DeleteRole(r, o)
     PROVE  Types'
  BY <1>4 DEF DeleteRole, Goto, Deletable
<1>5. ASSUME NEW r \in Requests, NEW o \in Roles,
              NEW keys \in SUBSET Permissions, BeginDelete(r, o, keys)
     PROVE  Types'
  BY <1>5 DEF BeginDelete, Goto
<1>6. ASSUME NEW r \in Requests, Delete(r)
     PROVE  Types'
  BY <1>6 DEF Delete, Goto
<1>7. ASSUME NEW r \in Requests, Insert(r)
     PROVE  Types'
  BY <1>7 DEF Insert, Goto
<1>8. ASSUME NEW r \in Requests, Commit(r)
     PROVE  Types'
  BY <1>8 DEF Commit, Leave, Replacement, Held, Members
<1>9. ASSUME NEW r \in Requests, Abort(r)
     PROVE  Types'
  BY <1>9 DEF Abort, Leave
<1>10. ASSUME NEW r \in Requests, NEW u \in Users, ReadUser(r, u)
     PROVE  Types'
  BY <1>10 DEF ReadUser, Goto
<1>11. ASSUME NEW r \in Requests, NEW t \in Tokens, Issue(r, t)
     PROVE  Types'
  BY <1>11 DEF Issue, Leave, Claims
<1>12. ASSUME NEW t \in Tokens, Expire(t)
     PROVE  Types'
  BY <1>12 DEF Expire, Blank
<1>13. CASE UNCHANGED vars
  BY <1>13 DEF vars
<1> QED
  BY <1>1, <1>2, <1>3, <1>4, <1>5, <1>6, <1>7, <1>8, <1>9,
     <1>10, <1>11, <1>12, <1>13 DEF Next

\* A step keeps the references between the tables, and holds on to a role it
\* has inserted rows for.
LEMMA ReferenceStep ==
  Types /\ ForeignKeys /\ InsertHoldsRole /\ [Next]_vars
    => ForeignKeys' /\ InsertHoldsRole'
<1> SUFFICES ASSUME Types, ForeignKeys, InsertHoldsRole, [Next]_vars
             PROVE  ForeignKeys' /\ InsertHoldsRole'
  OBVIOUS
<1> USE AuthorizationAssumption DEF Types, ForeignKeys, InsertHoldsRole, reqVars
<1>1. ASSUME NEW r \in Requests, NEW p \in Governing, Enter(r, p)
     PROVE  ForeignKeys' /\ InsertHoldsRole'
  BY <1>1 DEF Enter, Goto
<1>2. ASSUME NEW r \in Requests, NEW u \in Users, NEW o \in Roles, UpdateRole(r, u, o)
     PROVE  ForeignKeys' /\ InsertHoldsRole'
  BY <1>2 DEF UpdateRole, Goto
<1>3. ASSUME NEW r \in Requests, NEW o \in Roles, CreateRole(r, o)
     PROVE  ForeignKeys' /\ InsertHoldsRole'
  BY <1>3 DEF CreateRole, Goto
<1>4. ASSUME NEW r \in Requests, NEW o \in Roles, DeleteRole(r, o)
     PROVE  ForeignKeys' /\ InsertHoldsRole'
  BY <1>4 DEF DeleteRole, Goto, Deletable, Members, Writing, Inserted
<1>5. ASSUME NEW r \in Requests, NEW o \in Roles,
              NEW keys \in SUBSET Permissions, BeginDelete(r, o, keys)
     PROVE  ForeignKeys' /\ InsertHoldsRole'
  BY <1>5 DEF BeginDelete, Goto
<1>6. ASSUME NEW r \in Requests, Delete(r)
     PROVE  ForeignKeys' /\ InsertHoldsRole'
  BY <1>6 DEF Delete, Goto
<1>7. ASSUME NEW r \in Requests, Insert(r)
     PROVE  ForeignKeys' /\ InsertHoldsRole'
  BY <1>7 DEF Insert, Goto
<1>8. ASSUME NEW r \in Requests, Commit(r)
     PROVE  ForeignKeys' /\ InsertHoldsRole'
  BY <1>8 DEF Commit, Leave, Replacement
<1>9. ASSUME NEW r \in Requests, Abort(r)
     PROVE  ForeignKeys' /\ InsertHoldsRole'
  BY <1>9 DEF Abort, Leave
<1>10. ASSUME NEW r \in Requests, NEW u \in Users, ReadUser(r, u)
     PROVE  ForeignKeys' /\ InsertHoldsRole'
  BY <1>10 DEF ReadUser, Goto
<1>11. ASSUME NEW r \in Requests, NEW t \in Tokens, Issue(r, t)
     PROVE  ForeignKeys' /\ InsertHoldsRole'
  BY <1>11 DEF Issue, Leave
<1>12. ASSUME NEW t \in Tokens, Expire(t)
     PROVE  ForeignKeys' /\ InsertHoldsRole'
  BY <1>12 DEF Expire
<1>13. CASE UNCHANGED vars
  BY <1>13 DEF vars
<1> QED
  BY <1>1, <1>2, <1>3, <1>4, <1>5, <1>6, <1>7, <1>8, <1>9,
     <1>10, <1>11, <1>12, <1>13 DEF Next

\* A step keeps two transactions from holding one row.
LEMMA LockStep == Types /\ RowLocks /\ [Next]_vars => RowLocks'
<1> SUFFICES ASSUME Types, RowLocks, [Next]_vars PROVE RowLocks'
  OBVIOUS
<1> USE AuthorizationAssumption DEF Types, RowLocks, reqVars
<1>1. ASSUME NEW r \in Requests, NEW p \in Governing, Enter(r, p)
     PROVE  RowLocks'
  BY <1>1 DEF Enter, Goto
<1>2. ASSUME NEW r \in Requests, NEW u \in Users, NEW o \in Roles, UpdateRole(r, u, o)
     PROVE  RowLocks'
  BY <1>2 DEF UpdateRole, Goto
<1>3. ASSUME NEW r \in Requests, NEW o \in Roles, CreateRole(r, o)
     PROVE  RowLocks'
  BY <1>3 DEF CreateRole, Goto
<1>4. ASSUME NEW r \in Requests, NEW o \in Roles, DeleteRole(r, o)
     PROVE  RowLocks'
  BY <1>4 DEF DeleteRole, Goto
<1>5. ASSUME NEW r \in Requests, NEW o \in Roles,
              NEW keys \in SUBSET Permissions, BeginDelete(r, o, keys)
     PROVE  RowLocks'
  BY <1>5 DEF BeginDelete, Goto
<1>6. ASSUME NEW r \in Requests, Delete(r)
     PROVE  RowLocks'
  BY <1>6 DEF Delete, Goto, Unlocked, Rivals, Deleted, Writing
<1>7. ASSUME NEW r \in Requests, Insert(r)
     PROVE  RowLocks'
  BY <1>7 DEF Insert, Goto
<1>8. ASSUME NEW r \in Requests, Commit(r)
     PROVE  RowLocks'
  BY <1>8 DEF Commit, Leave
<1>9. ASSUME NEW r \in Requests, Abort(r)
     PROVE  RowLocks'
  BY <1>9 DEF Abort, Leave
<1>10. ASSUME NEW r \in Requests, NEW u \in Users, ReadUser(r, u)
     PROVE  RowLocks'
  BY <1>10 DEF ReadUser, Goto
<1>11. ASSUME NEW r \in Requests, NEW t \in Tokens, Issue(r, t)
     PROVE  RowLocks'
  BY <1>11 DEF Issue, Leave
<1>12. ASSUME NEW t \in Tokens, Expire(t)
     PROVE  RowLocks'
  BY <1>12 DEF Expire
<1>13. CASE UNCHANGED vars
  BY <1>13 DEF vars
<1> QED
  BY <1>1, <1>2, <1>3, <1>4, <1>5, <1>6, <1>7, <1>8, <1>9,
     <1>10, <1>11, <1>12, <1>13 DEF Next

\* A step leaves every token and login in flight up to date, or counts it as
\* old.
LEMMA BearingStep == Types /\ ForeignKeys /\ Bearings /\ [Next]_vars => Bearings'
<1> SUFFICES ASSUME Types, ForeignKeys, Bearings, [Next]_vars PROVE Bearings'
  OBVIOUS
<1> USE AuthorizationAssumption
        DEF Types, ForeignKeys, Bearings, StaleClaimsPredate, LoginsKnowRole, Valid, reqVars
<1>1. ASSUME NEW r \in Requests, NEW p \in Governing, Enter(r, p)
     PROVE  Bearings'
  BY <1>1 DEF Enter, Goto
<1>2. ASSUME NEW r \in Requests, NEW u \in Users, NEW o \in Roles, UpdateRole(r, u, o)
     PROVE  Bearings'
  BY <1>2 DEF UpdateRole, Goto, Held, Logins
<1>3. ASSUME NEW r \in Requests, NEW o \in Roles, CreateRole(r, o)
     PROVE  Bearings'
  BY <1>3 DEF CreateRole, Goto
<1>4. ASSUME NEW r \in Requests, NEW o \in Roles, DeleteRole(r, o)
     PROVE  Bearings'
  BY <1>4 DEF DeleteRole, Goto, Deletable, Members
<1>5. ASSUME NEW r \in Requests, NEW o \in Roles,
              NEW keys \in SUBSET Permissions, BeginDelete(r, o, keys)
     PROVE  Bearings'
  BY <1>5 DEF BeginDelete, Goto
<1>6. ASSUME NEW r \in Requests, Delete(r)
     PROVE  Bearings'
  BY <1>6 DEF Delete, Goto
<1>7. ASSUME NEW r \in Requests, Insert(r)
     PROVE  Bearings'
  BY <1>7 DEF Insert, Goto
<1>8. ASSUME NEW r \in Requests, Commit(r)
     PROVE  Bearings'
  BY <1>8 DEF Commit, Leave, Held, Members
<1>9. ASSUME NEW r \in Requests, Abort(r)
     PROVE  Bearings'
  BY <1>9 DEF Abort, Leave
<1>10. ASSUME NEW r \in Requests, NEW u \in Users, ReadUser(r, u)
     PROVE  Bearings'
  BY <1>10 DEF ReadUser, Goto
<1>11. ASSUME NEW r \in Requests, NEW t \in Tokens, Issue(r, t)
     PROVE  Bearings'
  BY <1>11 DEF Issue, Leave, Claims
<1>12. ASSUME NEW t \in Tokens, Expire(t)
     PROVE  Bearings'
  BY <1>12 DEF Expire, Blank
<1>13. CASE UNCHANGED vars
  BY <1>13 DEF vars
<1> QED
  BY <1>1, <1>2, <1>3, <1>4, <1>5, <1>6, <1>7, <1>8, <1>9,
     <1>10, <1>11, <1>12, <1>13 DEF Next

\* A step keeps the account of what was asked for.
LEMMA AskedStep == Types /\ AskedAccounted /\ [Next]_vars => AskedAccounted'
<1> SUFFICES ASSUME Types, AskedAccounted, [Next]_vars PROVE AskedAccounted'
  OBVIOUS
<1> USE AuthorizationAssumption DEF Types, AskedAccounted, Writing, reqVars
<1>1. ASSUME NEW r \in Requests, NEW p \in Governing, Enter(r, p)
     PROVE  AskedAccounted'
  BY <1>1 DEF Enter, Goto
<1>2. ASSUME NEW r \in Requests, NEW u \in Users, NEW o \in Roles, UpdateRole(r, u, o)
     PROVE  AskedAccounted'
  BY <1>2 DEF UpdateRole, Goto
<1>3. ASSUME NEW r \in Requests, NEW o \in Roles, CreateRole(r, o)
     PROVE  AskedAccounted'
  BY <1>3 DEF CreateRole, Goto
<1>4. ASSUME NEW r \in Requests, NEW o \in Roles, DeleteRole(r, o)
     PROVE  AskedAccounted'
  BY <1>4 DEF DeleteRole, Goto
<1>5. ASSUME NEW r \in Requests, NEW o \in Roles,
              NEW keys \in SUBSET Permissions, BeginDelete(r, o, keys)
     PROVE  AskedAccounted'
  BY <1>5 DEF BeginDelete, Goto
<1>6. ASSUME NEW r \in Requests, Delete(r)
     PROVE  AskedAccounted'
  BY <1>6 DEF Delete, Goto
<1>7. ASSUME NEW r \in Requests, Insert(r)
     PROVE  AskedAccounted'
  BY <1>7 DEF Insert, Goto
<1>8. ASSUME NEW r \in Requests, Commit(r)
     PROVE  AskedAccounted'
  BY <1>8 DEF Commit, Leave, Replacement, Rivals
<1>9. ASSUME NEW r \in Requests, Abort(r)
     PROVE  AskedAccounted'
  BY <1>9 DEF Abort, Leave
<1>10. ASSUME NEW r \in Requests, NEW u \in Users, ReadUser(r, u)
     PROVE  AskedAccounted'
  BY <1>10 DEF ReadUser, Goto
<1>11. ASSUME NEW r \in Requests, NEW t \in Tokens, Issue(r, t)
     PROVE  AskedAccounted'
  BY <1>11 DEF Issue, Leave
<1>12. ASSUME NEW t \in Tokens, Expire(t)
     PROVE  AskedAccounted'
  BY <1>12 DEF Expire
<1>13. CASE UNCHANGED vars
  BY <1>13 DEF vars
<1> QED
  BY <1>1, <1>2, <1>3, <1>4, <1>5, <1>6, <1>7, <1>8, <1>9,
     <1>10, <1>11, <1>12, <1>13 DEF Next

\* The invariant holds in every reachable state.
THEOREM Invariance == Spec => []IInv
<1>1. Init => IInv
  BY AuthorizationAssumption
  DEF Init, IInv, Tables, TypeOK, Types, Stages, ForeignKeys, RowLocks, InsertHoldsRole,
      Bearings, StaleClaimsPredate, Valid, Blank, LoginsKnowRole, AskedAccounted, Writing,
      Permissions
<1>2. IInv /\ [Next]_vars => IInv'
  BY TypeStep, ReferenceStep, LockStep, BearingStep, AskedStep DEF IInv, Tables, TypeOK
<1> QED
  BY <1>1, <1>2, PTL DEF Spec

\* The tables stay consistent: references are to rows that exist, whatever is
\* deleted, and two transactions never delete the same row.
THEOREM TypeCorrect == Spec => []TypeOK
<1>1. IInv => TypeOK
  BY DEF IInv, Tables
<1> QED
  BY <1>1, Invariance, PTL

\* A token that claims other permissions than its holder's role has is older
\* than the change, or comes from a login that had read the role before it.
THEOREM ClaimsPredate == Spec => []StaleClaimsPredate
<1>1. IInv => StaleClaimsPredate
  BY DEF IInv, Bearings
<1> QED
  BY <1>1, Invariance, PTL

\* A committed SetPermissions grants what it was asked for, and leaves nothing
\* but what a transaction running at the same time was asked for.
THEOREM Replaced == Spec => OnlyWhatWasAsked
<1>1. ASSUME IInv, NEW r \in Requests, Commit(r)
      PROVE  /\ wanted[r] \subseteq granted'[on[r]]
             /\ granted'[on[r]] \subseteq asked[r]
  BY <1>1 DEF IInv, Tables, TypeOK, Types, AskedAccounted, Writing, Commit, Replacement
<1>2. IInv /\ [Next]_vars =>
        [\A r \in Requests : Commit(r) => /\ wanted[r] \subseteq granted'[on[r]]
                                          /\ granted'[on[r]] \subseteq asked[r]]_vars
  BY <1>1
<1> QED
  BY <1>2, Invariance, PTL DEF Spec, OnlyWhatWasAsked

\* No step makes somebody able to manage users or roles when nobody was.
LEMMA GovernedStep == Types /\ [Next]_vars => (Governed' => Governed)
<1> SUFFICES ASSUME Types, ~Governed, [Next]_vars PROVE ~Governed'
  OBVIOUS
<1> USE AuthorizationAssumption DEF Types, Governed, Valid, Writing, reqVars
<1>1. ASSUME NEW r \in Requests, NEW p \in Governing, Enter(r, p)
     PROVE  ~Governed'
  BY <1>1 DEF Enter, Goto, RequirePermission, Governing
<1>2. ASSUME NEW r \in Requests, NEW u \in Users, NEW o \in Roles, UpdateRole(r, u, o)
     PROVE  ~Governed'
  BY <1>2 DEF UpdateRole, Goto
<1>3. ASSUME NEW r \in Requests, NEW o \in Roles, CreateRole(r, o)
     PROVE  ~Governed'
  BY <1>3 DEF CreateRole, Goto
<1>4. ASSUME NEW r \in Requests, NEW o \in Roles, DeleteRole(r, o)
     PROVE  ~Governed'
  BY <1>4 DEF DeleteRole, Goto
<1>5. ASSUME NEW r \in Requests, NEW o \in Roles,
              NEW keys \in SUBSET Permissions, BeginDelete(r, o, keys)
     PROVE  ~Governed'
  BY <1>5 DEF BeginDelete, Goto
<1>6. ASSUME NEW r \in Requests, Delete(r)
     PROVE  ~Governed'
  BY <1>6 DEF Delete, Goto
<1>7. ASSUME NEW r \in Requests, Insert(r)
     PROVE  ~Governed'
  BY <1>7 DEF Insert, Goto
<1>8. ASSUME NEW r \in Requests, Commit(r)
     PROVE  ~Governed'
  BY <1>8 DEF Commit, Leave, Held
<1>9. ASSUME NEW r \in Requests, Abort(r)
     PROVE  ~Governed'
  BY <1>9 DEF Abort, Leave
<1>10. ASSUME NEW r \in Requests, NEW u \in Users, ReadUser(r, u)
     PROVE  ~Governed'
  BY <1>10 DEF ReadUser, Goto
<1>11. ASSUME NEW r \in Requests, NEW t \in Tokens, Issue(r, t)
     PROVE  ~Governed'
  BY <1>11 DEF Issue, Leave, Claims
<1>12. ASSUME NEW t \in Tokens, Expire(t)
     PROVE  ~Governed'
  BY <1>12 DEF Expire, Blank
<1>13. CASE UNCHANGED vars
  BY <1>13 DEF vars
<1> QED
  BY <1>1, <1>2, <1>3, <1>4, <1>5, <1>6, <1>7, <1>8, <1>9,
     <1>10, <1>11, <1>12, <1>13 DEF Next

\* Whoever may manage users or roles got it from somebody who could.
THEOREM GoverningIsHanded == Spec => RightsNeedRights
<1>1. IInv /\ [Next]_vars => [Governed' => Governed]_vars
  BY GovernedStep DEF IInv, Tables, TypeOK
<1> QED
  BY <1>1, Invariance, PTL DEF Spec, RightsNeedRights
=============================================================================
