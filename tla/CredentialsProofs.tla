------------------------- MODULE CredentialsProofs --------------------------
(***************************************************************************)
(* The safety of rotation, lock-out and revocation, for every number of    *)
(* requests, tokens, attempts and administrator's changes.                 *)
(***************************************************************************)
EXTENDS Credentials, FiniteSetTheorems, TLAPS

\* A login presents no token, a refresh one that has a row, and what a
\* refresh is about to issue replaces a token that is dead by then.
Presented ==
  \A r \in Requests :
    /\ pc[r] \in {"idle", "bad", "good"} => spending[r] = NoToken
    /\ pc[r] \in {"owner", "rotate"} => spending[r] \in Tokens /\ tok[spending[r]] # "free"
    /\ pc[r] = "issue" /\ spending[r] # NoToken =>
         tok[spending[r]] = "dead" \/ spending[r] \in missed

\* An exchanged token is not free either: nothing gives it a second life.
ParentRetired ==
  \A t \in Tokens : parent[t] # NoToken => tok[parent[t]] = "dead" \/ parent[t] \in missed

\* Logins that are going to record a failure.
Failing == {r \in Requests : pc[r] = "bad"}

\* Unlocked, the account counts every failure and is short of the limit. Once
\* it is locked, only the logins that were past the test can record one.
GuessesCounted ==
  /\ ~locked => tries <= failed /\ tries < MaxAttempts
  /\ locked => tries + Cardinality(Failing) <= MaxAttempts + Cardinality(Requests) - 1

\* What is about to be issued for credentials that have changed is as late as
\* the token it makes.
RequestsAreLate ==
  admin = "idle" =>
    \A r \in Requests :
      pc[r] \in {"good", "owner", "rotate", "issue"} /\ base[r] < epoch => r \in late

\* The inductive invariant: types, the rotation, the lock-out, the revocation.
Rotation   == Presented /\ ParentRetired
Revocation == OutdatedTokensAreLate /\ RequestsAreLate
IInv       == TypeOK /\ Rotation /\ GuessesCounted /\ Revocation

-----------------------------------------------------------------------------
\* What an administrator changes in the account's row, and the end of a lock,
\* touch no token and no request.
RowOnly == ResetPassword \/ Deactivate \/ Activate \/ Anonymize \/ LockExpires

LEMMA RowOnlyFrame ==
  RowOnly => UNCHANGED <<tokVars, reqVars, late, missed>>
BY DEF RowOnly, ResetPassword, Deactivate, Activate, Anonymize, LockExpires, histVars

\* The steps, with the changes to the row alone as one case.
LEMMA Steps ==
  ASSUME [Next]_vars
  PROVE  \/ \E r \in Requests :
              \/ LoginWrong(r) \/ LoginRight(r) \/ RegisterFailedLogin(r)
              \/ RegisterSuccessfulLogin(r) \/ RefreshOwner(r) \/ RefreshRotate(r)
              \/ Issue(r) \/ Abort(r)
              \/ \E t \in Tokens : RefreshPresent(r, t)
         \/ \E t \in Tokens : Logout(t)
         \/ RevokeAll
         \/ RowOnly
         \/ UNCHANGED vars
BY DEF Next, Login, Refresh, Manage, RowOnly

\* A step keeps the types: a rotation writes about the token it was given.
LEMMA TypeStep == TypeOK /\ Presented /\ [Next]_vars => TypeOK'
<1> SUFFICES ASSUME TypeOK, Presented, [Next]_vars PROVE TypeOK'
  OBVIOUS
<1> USE CredentialsAssumption
        DEF TypeOK, Stages, rowVars, reqVars, tokVars, histVars, Goto, Done
<1>0. 0 \in 0..MaxAttempts /\ 0 \in 0..MaxEpochs
  OBVIOUS
<1>1. ASSUME NEW r \in Requests, LoginWrong(r) PROVE TypeOK'
  BY <1>1 DEF LoginWrong
<1>2. ASSUME NEW r \in Requests, LoginRight(r) PROVE TypeOK'
  BY <1>2 DEF LoginRight
<1>3. ASSUME NEW r \in Requests, RegisterFailedLogin(r) PROVE TypeOK'
  BY <1>3 DEF RegisterFailedLogin
<1>4. ASSUME NEW r \in Requests, RegisterSuccessfulLogin(r) PROVE TypeOK'
  BY <1>0, <1>4 DEF RegisterSuccessfulLogin
<1>5. ASSUME NEW r \in Requests, NEW t \in Tokens, RefreshPresent(r, t) PROVE TypeOK'
  BY <1>5 DEF RefreshPresent
<1>6. ASSUME NEW r \in Requests, RefreshOwner(r) PROVE TypeOK'
  BY <1>6 DEF RefreshOwner
<1>7. ASSUME NEW r \in Requests, RefreshRotate(r) PROVE TypeOK'
  BY <1>7 DEF RefreshRotate, Presented
<1>8. ASSUME NEW r \in Requests, Issue(r) PROVE TypeOK'
  BY <1>8 DEF Issue
<1>9. ASSUME NEW r \in Requests, Abort(r) PROVE TypeOK'
  BY <1>9 DEF Abort
<1>10. ASSUME NEW t \in Tokens, Logout(t) PROVE TypeOK'
  BY <1>10 DEF Logout
<1>11. CASE RevokeAll
  BY <1>11 DEF RevokeAll
<1>12. CASE RowOnly
  <2>1. CASE ResetPassword \/ Deactivate \/ Anonymize
    <3>1. epoch' \in 0..MaxEpochs
      BY <2>1 DEF ResetPassword, Deactivate, Anonymize
    <3> QED
      BY <2>1, <3>1 DEF ResetPassword, Deactivate, Anonymize
  <2>2. CASE Activate
    BY <2>2 DEF Activate
  <2>3. CASE LockExpires
    BY <2>3 DEF LockExpires
  <2> QED
    BY <1>12, <2>1, <2>2, <2>3 DEF RowOnly
<1>13. CASE UNCHANGED vars
  BY <1>13 DEF vars
<1> QED
  BY <1>1, <1>2, <1>3, <1>4, <1>5, <1>6, <1>7, <1>8, <1>9, <1>10, <1>11, <1>12, <1>13, Steps

\* A step exchanges no token that stays live: only Issue names a parent, and
\* RefreshRotate has dealt with it. No step revives a dead token.
LEMMA RotationStep == TypeOK /\ Rotation /\ [Next]_vars => Rotation'
<1> SUFFICES ASSUME TypeOK, Rotation, [Next]_vars PROVE Rotation'
  OBVIOUS
<1> USE CredentialsAssumption
        DEF TypeOK, Stages, Rotation, Presented, ParentRetired,
            rowVars, reqVars, tokVars, histVars, Goto, Done
<1>1. ASSUME NEW r \in Requests, LoginWrong(r) PROVE Rotation'
  BY <1>1 DEF LoginWrong
<1>2. ASSUME NEW r \in Requests, LoginRight(r) PROVE Rotation'
  BY <1>2 DEF LoginRight
<1>3. ASSUME NEW r \in Requests, RegisterFailedLogin(r) PROVE Rotation'
  BY <1>3 DEF RegisterFailedLogin
<1>4. ASSUME NEW r \in Requests, RegisterSuccessfulLogin(r) PROVE Rotation'
  BY <1>4 DEF RegisterSuccessfulLogin
<1>5. ASSUME NEW r \in Requests, NEW t \in Tokens, RefreshPresent(r, t) PROVE Rotation'
  BY <1>5 DEF RefreshPresent
<1>6. ASSUME NEW r \in Requests, RefreshOwner(r) PROVE Rotation'
  BY <1>6 DEF RefreshOwner
<1>7. ASSUME NEW r \in Requests, RefreshRotate(r) PROVE Rotation'
  BY <1>7 DEF RefreshRotate
<1>8. ASSUME NEW r \in Requests, Issue(r) PROVE Rotation'
  BY <1>8 DEF Issue
<1>9. ASSUME NEW r \in Requests, Abort(r) PROVE Rotation'
  BY <1>9 DEF Abort
<1>10. ASSUME NEW t \in Tokens, Logout(t) PROVE Rotation'
  BY <1>10 DEF Logout
<1>11. CASE RevokeAll
  BY <1>11 DEF RevokeAll
<1>12. CASE RowOnly
  BY <1>12, RowOnlyFrame
<1>13. CASE UNCHANGED vars
  BY <1>13 DEF vars
<1> QED
  BY <1>1, <1>2, <1>3, <1>4, <1>5, <1>6, <1>7, <1>8, <1>9, <1>10, <1>11, <1>12, <1>13, Steps

\* One request fewer is about to fail, or none more.
LEMMA FailingCount ==
  ASSUME TypeOK
  PROVE  /\ Cardinality(Failing) \in Nat /\ Cardinality(Requests) \in Nat
         /\ Cardinality(Failing) <= Cardinality(Requests)
         /\ \A F \in SUBSET Failing : Cardinality(F) \in Nat /\ Cardinality(F) <= Cardinality(Failing)
         /\ \A r \in Failing : Cardinality(Failing \ {r}) = Cardinality(Failing) - 1
<1>1. IsFiniteSet(Requests) /\ Failing \in SUBSET Requests
  BY CredentialsAssumption DEF Failing
<1>2. IsFiniteSet(Failing)
  BY <1>1, FS_Subset
<1>3. \A F \in SUBSET Failing : IsFiniteSet(F) /\ Cardinality(F) <= Cardinality(Failing)
  BY <1>2, FS_Subset
<1> QED
  BY <1>1, <1>2, <1>3, FS_Subset, FS_CardinalityType, FS_RemoveElement

\* A failure locks the account at the limit, and from then on the logins that
\* may still record one only get fewer.
LEMMA GuessesStep == TypeOK /\ GuessesCounted /\ [Next]_vars => GuessesCounted'
<1> SUFFICES ASSUME TypeOK, GuessesCounted, [Next]_vars PROVE GuessesCounted'
  OBVIOUS
<1>t. /\ tries \in Nat /\ failed \in 0..MaxAttempts /\ MaxAttempts \in Nat \ {0}
      /\ locked \in BOOLEAN
  BY CredentialsAssumption DEF TypeOK
<1>1. ASSUME UNCHANGED <<failed, locked, tries>>, ~locked \/ Failing' \subseteq Failing
      PROVE  GuessesCounted'
  BY <1>1, <1>t, FailingCount DEF GuessesCounted
<1>2. ASSUME NEW r \in Requests, LoginWrong(r) PROVE GuessesCounted'
  BY <1>1, <1>2 DEF LoginWrong, rowVars, histVars
<1>3. ASSUME NEW r \in Requests, RegisterFailedLogin(r) PROVE GuessesCounted'
  <2>1. r \in Failing /\ Failing' = Failing \ {r}
    BY <1>3 DEF RegisterFailedLogin, Done, Goto, Failing, TypeOK
  <2>2. Cardinality(Failing') = Cardinality(Failing) - 1
    BY <2>1, FailingCount
  <2>3. /\ tries' = tries + 1
        /\ failed' = IF failed < MaxAttempts THEN failed + 1 ELSE MaxAttempts
        /\ locked' = (locked \/ failed + 1 >= MaxAttempts)
    BY <1>3 DEF RegisterFailedLogin
  <2> DEFINE n == Cardinality(Failing)
             m == Cardinality(Requests)
  <2>4. n \in Nat /\ m \in Nat /\ n <= m
    BY FailingCount
  <2>5. CASE locked \/ failed + 1 >= MaxAttempts
    <3>1. tries' + (n - 1) <= MaxAttempts + m - 1
      <4> HIDE DEF n, m
      <4>1. CASE locked
        <5>1. tries + n <= MaxAttempts + m - 1
          BY <4>1 DEF GuessesCounted, n, m
        <5> QED
          BY <1>t, <2>3, <2>4, <5>1
      <4>2. CASE ~locked
        <5>1. tries < MaxAttempts
          BY <4>2 DEF GuessesCounted
        <5> QED
          BY <1>t, <2>3, <2>4, <5>1
      <4> QED
        BY <1>t, <4>1, <4>2
    <3> QED
      BY <1>t, <2>2, <2>3, <2>5, <3>1 DEF GuessesCounted
  <2>6. CASE ~locked /\ ~(failed + 1 >= MaxAttempts)
    BY <1>t, <2>3, <2>6 DEF GuessesCounted
  <2> QED
    BY <1>t, <2>5, <2>6
<1>4. ASSUME NEW r \in Requests, RegisterSuccessfulLogin(r) PROVE GuessesCounted'
  BY <1>4, <1>t DEF RegisterSuccessfulLogin, GuessesCounted
<1>5. CASE LockExpires
  BY <1>5, <1>t DEF LockExpires, GuessesCounted
<1>6. ASSUME NEW r \in Requests,
             \/ LoginRight(r) \/ RefreshOwner(r) \/ RefreshRotate(r) \/ Issue(r) \/ Abort(r)
             \/ \E t \in Tokens : RefreshPresent(r, t)
      PROVE  GuessesCounted'
  <2>1. UNCHANGED <<failed, locked, tries>>
    BY <1>6 DEF LoginRight, RefreshPresent, RefreshOwner, RefreshRotate, Issue, Abort, rowVars, histVars
  <2>2. \E s \in Stages \ {"bad"} : pc' = [pc EXCEPT ![r] = s]
    BY <1>6 DEF LoginRight, RefreshPresent, RefreshOwner, RefreshRotate, Issue, Abort, Done, Goto, Stages
  <2>3. Failing' \subseteq Failing
    BY <2>2 DEF Failing, TypeOK
  <2> QED
    BY <1>1, <2>1, <2>3
<1>7. ASSUME \/ \E t \in Tokens : Logout(t)
             \/ RevokeAll \/ ResetPassword \/ Deactivate \/ Activate \/ Anonymize
             \/ UNCHANGED vars
      PROVE  GuessesCounted'
  <2>1. UNCHANGED <<failed, locked, tries, pc>>
    BY <1>7 DEF Logout, RevokeAll, ResetPassword, Deactivate, Activate, Anonymize,
                rowVars, reqVars, histVars, vars
  <2> QED
    BY <1>1, <2>1 DEF Failing
<1> QED
  BY <1>2, <1>3, <1>4, <1>5, <1>6, <1>7, Steps DEF RowOnly

\* A revocation catches what is stored and marks what is not; what a late
\* request issues is late.
LEMMA RevocationStep == TypeOK /\ Presented /\ Revocation /\ [Next]_vars => Revocation'
<1> SUFFICES ASSUME TypeOK, Presented, Revocation, [Next]_vars PROVE Revocation'
  OBVIOUS
<1> USE CredentialsAssumption
        DEF TypeOK, Stages, Revocation, OutdatedTokensAreLate, RequestsAreLate,
            rowVars, reqVars, tokVars, histVars, Goto, Done
<1>1. ASSUME NEW r \in Requests, LoginWrong(r) PROVE Revocation'
  BY <1>1 DEF LoginWrong
<1>2. ASSUME NEW r \in Requests, LoginRight(r) PROVE Revocation'
  BY <1>2 DEF LoginRight
<1>3. ASSUME NEW r \in Requests, RegisterFailedLogin(r) PROVE Revocation'
  BY <1>3 DEF RegisterFailedLogin
<1>4. ASSUME NEW r \in Requests, RegisterSuccessfulLogin(r) PROVE Revocation'
  BY <1>4 DEF RegisterSuccessfulLogin
<1>5. ASSUME NEW r \in Requests, NEW t \in Tokens, RefreshPresent(r, t) PROVE Revocation'
  BY <1>5 DEF RefreshPresent
<1>6. ASSUME NEW r \in Requests, RefreshOwner(r) PROVE Revocation'
  BY <1>6 DEF RefreshOwner
<1>7. ASSUME NEW r \in Requests, RefreshRotate(r) PROVE Revocation'
  BY <1>7 DEF RefreshRotate
<1>8. ASSUME NEW r \in Requests, Issue(r) PROVE Revocation'
  BY <1>8 DEF Issue
<1>9. ASSUME NEW r \in Requests, Abort(r) PROVE Revocation'
  BY <1>9 DEF Abort
<1>10. ASSUME NEW t \in Tokens, Logout(t) PROVE Revocation'
  BY <1>10 DEF Logout
<1>11. CASE RevokeAll
  BY <1>11 DEF RevokeAll
<1>12. CASE ResetPassword \/ Deactivate \/ Anonymize
  BY <1>12 DEF ResetPassword, Deactivate, Anonymize
<1>13. CASE Activate \/ LockExpires
  BY <1>13 DEF Activate, LockExpires
<1>14. CASE UNCHANGED vars
  BY <1>14 DEF vars
<1> QED
  BY <1>1, <1>2, <1>3, <1>4, <1>5, <1>6, <1>7, <1>8, <1>9, <1>10, <1>11, <1>12, <1>13, <1>14,
     Steps DEF RowOnly

-----------------------------------------------------------------------------
\* The invariant holds in every reachable state.
THEOREM Invariance == Spec => []IInv
<1>1. Init => IInv
  <2> SUFFICES ASSUME Init PROVE IInv
    OBVIOUS
  <2>0. 0 \in 0..MaxAttempts /\ 0 \in 0..MaxEpochs
    BY CredentialsAssumption
  <2>1. TypeOK
    BY <2>0 DEF Init, TypeOK, Stages
  <2>2. Rotation
    BY DEF Init, Rotation, Presented, ParentRetired
  <2>3. GuessesCounted
    BY CredentialsAssumption DEF Init, GuessesCounted
  <2>4. Revocation
    BY CredentialsAssumption DEF Init, Revocation, OutdatedTokensAreLate, RequestsAreLate
  <2> QED
    BY <2>1, <2>2, <2>3, <2>4 DEF IInv
<1>2. IInv /\ [Next]_vars => IInv'
  BY TypeStep, RotationStep, GuessesStep, RevocationStep DEF IInv, Rotation
<1> QED
  BY <1>1, <1>2, PTL DEF Spec

\* The account's variables keep their types: a rotation revokes the token it
\* was presented.
THEOREM TypeCorrect == Spec => []TypeOK
<1>1. IInv => TypeOK
  BY DEF IInv
<1> QED
  BY <1>1, Invariance, PTL

\* An exchanged token is dead, or handleRefresh ignored why it is not.
THEOREM ExchangedIsDead == Spec => []ParentIsDead
<1>1. IInv => ParentIsDead
  BY DEF IInv, Rotation, ParentRetired, ParentIsDead
<1> QED
  BY <1>1, Invariance, PTL

\* The lock-out holds for any number of logins at once (RegisterFailedLogin).
THEOREM LockoutHolds == Spec => []GuessesBounded
<1>1. IInv => GuessesBounded
  <2> SUFFICES ASSUME IInv PROVE GuessesBounded
    OBVIOUS
  <2>1. tries \in Nat /\ locked \in BOOLEAN /\ MaxAttempts \in Nat
    BY CredentialsAssumption DEF IInv, TypeOK
  <2>2. Cardinality(Failing) \in Nat /\ Cardinality(Requests) \in Nat
    BY FailingCount DEF IInv
  <2> QED
    BY <2>1, <2>2 DEF IInv, GuessesCounted, GuessesBounded
<1> QED
  BY <1>1, Invariance, PTL

\* After a change of credentials an older token works only if it is late.
THEOREM OutdatedLate == Spec => []OutdatedTokensAreLate
<1>1. IInv => OutdatedTokensAreLate
  BY DEF IInv, Revocation
<1> QED
  BY <1>1, Invariance, PTL
=============================================================================
