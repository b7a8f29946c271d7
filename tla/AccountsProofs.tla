--------------------------- MODULE AccountsProofs ---------------------------
(***************************************************************************)
(* The safety of set-up, deletion and MFA enrolment, for every number of   *)
(* accounts and of requests in flight.                                     *)
(***************************************************************************)
EXTENDS Accounts, FiniteSetTheorems, TLAPS

\* What the audit log names is stored, the target of an anonymisation among
\* it: the log lets none of them go.
Protected ==
  /\ audited \subseteq Stored
  /\ \A r \in Requests : pc[r] = "erase" => target[r] \in audited

\* A request that is to answer acts for an account that has been stored.
ActorInserted ==
  \A r \in Requests : pc[r] \in {"issue", "answer"} =>
    actor[r] \in Accounts /\ row[actor[r]] # "none"

\* Whoever has a token, and whoever has deleted an account, was audited.
TokenAudited ==
  bearer # {} \/ (\E a \in Accounts : row[a] = "deleted") => audited # {} \/ lost

\* No founder without a row. Each is one of the requests that had counted none.
Founding == {r \in Requests : pc[r] = "insert"}
FoundersCounted ==
  /\ founded > 0 => \E a \in Accounts : row[a] # "none"
  /\ lost \/ founded + Cardinality(Founding) <= Cardinality(Requests)

Existence == Protected /\ ActorInserted /\ TokenAudited
IInv     == TypeOK /\ Existence /\ FoundersCounted /\ MFASecretVerified

-----------------------------------------------------------------------------
\* A step keeps the types, given that what is erased is an account.
LEMMA TypeStep == TypeOK /\ Protected /\ ActorInserted /\ [Next]_vars => TypeOK'
<1> SUFFICES ASSUME TypeOK, Protected, ActorInserted, [Next]_vars PROVE TypeOK'
  OBVIOUS
<1> USE AccountsAssumption DEF TypeOK, Stages, Stored, Protected, ActorInserted, rowVars, reqVars
<1>1. ASSUME NEW r \in Requests, SetupCount(r)
      PROVE  TypeOK'
  BY <1>1 DEF SetupCount, Start
<1>2. ASSUME NEW r \in Requests, SetupCreate(r)
      PROVE  TypeOK'
  BY <1>2 DEF SetupCreate, Goto, Insert
<1>3. ASSUME NEW r \in Requests, NEW a \in Accounts, LoginRight(r, a)
      PROVE  TypeOK'
  BY <1>3 DEF LoginRight, Start
<1>4. ASSUME NEW r \in Requests, StoreRefreshToken(r)
      PROVE  TypeOK'
  BY <1>4 DEF StoreRefreshToken, Goto
<1>5. ASSUME NEW r \in Requests, Answer(r)
      PROVE  TypeOK'
  BY <1>5 DEF Answer, Done, Goto
<1>6. ASSUME NEW r \in Requests, NEW a \in Accounts, NEW b \in Accounts, UpdateRead(r, a, b)
      PROVE  TypeOK'
  BY <1>6 DEF UpdateRead, Start
<1>7. ASSUME NEW r \in Requests, NEW a \in Accounts, NEW b \in Accounts, Delete(r, a, b)
      PROVE  TypeOK'
  BY <1>7 DEF Delete, Start, Remove, Logged
<1>8. ASSUME NEW r \in Requests, UpdateProfile(r)
      PROVE  TypeOK'
  BY <1>8 DEF UpdateProfile, Done, Goto, Logged
<1>9. ASSUME NEW r \in Requests, Anonymize(r)
      PROVE  TypeOK'
  BY <1>9 DEF Anonymize, Done, Goto, Remove, Logged
<1>10. ASSUME NEW r \in Requests, NEW a \in Accounts, MFAVerifyRead(r, a)
       PROVE  TypeOK'
  BY <1>10 DEF MFAVerifyRead, Start
<1>11. ASSUME NEW r \in Requests, MFAVerifyWrite(r)
       PROVE  TypeOK'
  BY <1>11 DEF MFAVerifyWrite, Done, Goto, Logged
<1>12. ASSUME NEW r \in Requests, Abort(r)
       PROVE  TypeOK'
  BY <1>12 DEF Abort, Done, Goto
<1>13. ASSUME NEW a \in Accounts, LoginWrong(a)
       PROVE  TypeOK'
  BY <1>13 DEF LoginWrong
<1>14. ASSUME NEW a \in Accounts, CreateUser(a)
       PROVE  TypeOK'
  BY <1>14 DEF CreateUser, Insert, Logged
<1>15. ASSUME NEW a \in Accounts, MFASetup(a)
       PROVE  TypeOK'
  BY <1>15 DEF MFASetup
<1>16. CASE UNCHANGED vars
  BY <1>16 DEF vars
<1> QED
  BY <1>1, <1>2, <1>3, <1>4, <1>5, <1>6, <1>7, <1>8, <1>9,
     <1>10, <1>11, <1>12, <1>13, <1>14, <1>15, <1>16
  DEF Next, Setup, Login, Manage, Enrol

\* A step keeps stored what the log names, and audits whoever gets a token.
LEMMA ExistenceStep == TypeOK /\ Existence /\ [Next]_vars => Existence'
<1> SUFFICES ASSUME TypeOK, Existence, [Next]_vars PROVE Existence'
  OBVIOUS
<1> USE AccountsAssumption
        DEF TypeOK, Stages, Stored, Existence, Protected, ActorInserted, TokenAudited,
            rowVars, reqVars
<1>1. ASSUME NEW r \in Requests, SetupCount(r)
      PROVE  Existence'
  BY <1>1 DEF SetupCount, Start
<1>2. ASSUME NEW r \in Requests, SetupCreate(r)
      PROVE  Existence'
  BY <1>2 DEF SetupCreate, Goto, Insert
<1>3. ASSUME NEW r \in Requests, NEW a \in Accounts, LoginRight(r, a)
      PROVE  Existence'
  BY <1>3 DEF LoginRight, Start
<1>4. ASSUME NEW r \in Requests, StoreRefreshToken(r)
      PROVE  Existence'
  BY <1>4 DEF StoreRefreshToken, Goto
<1>5. ASSUME NEW r \in Requests, Answer(r)
      PROVE  Existence'
  <2>1. /\ Done(r, "answer") /\ row' = row
        /\ bearer' = bearer \cup {actor[r]}
        /\ audited' \in {audited, audited \cup ({actor[r]} \cap Stored)}
    BY <1>5 DEF Answer
  <2>2. actor[r] \in Accounts /\ row[actor[r]] # "none"
    BY <2>1 DEF Done, Goto
  <2>3. Protected' /\ ActorInserted'
    BY <2>1 DEF Done, Goto
  <2>4. audited' # {} \/ lost'
    <3>1. CASE actor[r] \in Stored
      BY <1>5, <3>1 DEF Answer
    <3>2. CASE actor[r] \notin Stored
      <4>1. row[actor[r]] = "deleted"
        BY <2>2, <3>2
      <4>2. audited # {} \/ lost
        BY <2>2, <4>1
      <4> QED
        BY <1>5, <4>2 DEF Answer
    <3> QED
      BY <3>1, <3>2
  <2> QED
    BY <2>3, <2>4
<1>6. ASSUME NEW r \in Requests, NEW a \in Accounts, NEW b \in Accounts, UpdateRead(r, a, b)
      PROVE  Existence'
  BY <1>6 DEF UpdateRead, Start
<1>7. ASSUME NEW r \in Requests, NEW a \in Accounts, NEW b \in Accounts, Delete(r, a, b)
      PROVE  Existence'
  BY <1>7 DEF Delete, Start, Remove, Logged
<1>8. ASSUME NEW r \in Requests, UpdateProfile(r)
      PROVE  Existence'
  BY <1>8 DEF UpdateProfile, Done, Goto, Logged
<1>9. ASSUME NEW r \in Requests, Anonymize(r)
      PROVE  Existence'
  BY <1>9 DEF Anonymize, Done, Goto, Remove, Logged
<1>10. ASSUME NEW r \in Requests, NEW a \in Accounts, MFAVerifyRead(r, a)
       PROVE  Existence'
  BY <1>10 DEF MFAVerifyRead, Start
<1>11. ASSUME NEW r \in Requests, MFAVerifyWrite(r)
       PROVE  Existence'
  BY <1>11 DEF MFAVerifyWrite, Done, Goto, Logged
<1>12. ASSUME NEW r \in Requests, Abort(r)
       PROVE  Existence'
  BY <1>12 DEF Abort, Done, Goto
<1>13. ASSUME NEW a \in Accounts, LoginWrong(a)
       PROVE  Existence'
  BY <1>13 DEF LoginWrong
<1>14. ASSUME NEW a \in Accounts, CreateUser(a)
       PROVE  Existence'
  BY <1>14 DEF CreateUser, Insert, Logged
<1>15. ASSUME NEW a \in Accounts, MFASetup(a)
       PROVE  Existence'
  BY <1>15 DEF MFASetup
<1>16. CASE UNCHANGED vars
  BY <1>16 DEF vars
<1> QED
  BY <1>1, <1>2, <1>3, <1>4, <1>5, <1>6, <1>7, <1>8, <1>9,
     <1>10, <1>11, <1>12, <1>13, <1>14, <1>15, <1>16
  DEF Next, Setup, Login, Manage, Enrol

\* Since set-up, there is an account that the log names, or nobody has a token
\* and no account has been deleted.
LEMMA StaysClosed == TypeOK /\ Existence => SetupStaysClosed
  BY DEF TypeOK, Existence, Protected, TokenAudited, SetupStaysClosed, Stored

\* What a step does to the number of requests about to insert a founder.
LEMMA FoundingCount ==
  ASSUME TypeOK, NEW r \in Requests
  PROVE  /\ Cardinality(Requests) \in Nat
         /\ Cardinality(Founding) \in Nat
         /\ Cardinality(Founding) <= Cardinality(Requests)
         /\ r \in Founding => Cardinality(Founding \ {r}) = Cardinality(Founding) - 1
         /\ Cardinality(Founding \ {r}) <= Cardinality(Founding)
         /\ Cardinality(Founding \ {r}) \in Nat
<1>1. IsFiniteSet(Requests) /\ Founding \in SUBSET Requests
  BY AccountsAssumption DEF Founding
<1>2. IsFiniteSet(Founding) /\ Cardinality(Founding) <= Cardinality(Requests)
  BY <1>1, FS_Subset
<1>3. Cardinality(Requests) \in Nat /\ Cardinality(Founding) \in Nat
  BY <1>1, <1>2, FS_CardinalityType
<1>4. /\ IsFiniteSet(Founding \ {r})
      /\ Cardinality(Founding \ {r}) =
           IF r \in Founding THEN Cardinality(Founding) - 1 ELSE Cardinality(Founding)
  BY <1>2, FS_RemoveElement
<1>5. Cardinality(Founding \ {r}) \in Nat
  BY <1>4, FS_CardinalityType
<1> QED
  BY <1>2, <1>3, <1>4, <1>5

\* A step makes a founder only out of a request that had counted no row, and
\* lets a request count none only before the first.
LEMMA FoundersStep ==
  TypeOK /\ Existence /\ FoundersCounted /\ [Next]_vars => FoundersCounted'
<1> SUFFICES ASSUME TypeOK, Existence, FoundersCounted, [Next]_vars
             PROVE  FoundersCounted'
  OBVIOUS
<1>a. SetupStaysClosed
  BY StaysClosed
<1> USE AccountsAssumption DEF TypeOK, Stages, Stored, FoundersCounted, rowVars, reqVars
<1>b. ASSUME founded' = founded, lost => lost', NEW r \in Requests,
             Founding' = Founding \ {r} \/ Founding' = Founding,
             \A a \in Accounts : row[a] # "none" => row'[a] # "none"
      PROVE  FoundersCounted'
  BY <1>b, FoundingCount
<1>c. ASSUME founded' = founded, lost => lost', Founding' = Founding,
             \A a \in Accounts : row[a] # "none" => row'[a] # "none"
      PROVE  FoundersCounted'
  BY <1>c
<1>1. ASSUME NEW r \in Requests, SetupCount(r)
      PROVE  FoundersCounted'
  <2>1. lost \/ founded = 0
    BY <1>1, <1>a DEF SetupCount, SetupStaysClosed
  <2>2. founded' = founded /\ lost' = lost /\ row' = row
    BY <1>1 DEF SetupCount
  <2>3. TypeOK'
    BY <1>1 DEF SetupCount, Start
  <2>4. /\ Cardinality(Founding)' <= Cardinality(Requests)
        /\ Cardinality(Founding)' \in Nat /\ Cardinality(Requests) \in Nat
    <3>1. IsFiniteSet(Requests) /\ Founding' \in SUBSET Requests
      BY DEF Founding
    <3> QED
      BY <3>1, FS_Subset, FS_CardinalityType
  <2> QED
    BY <2>1, <2>2, <2>4
<1>2. ASSUME NEW r \in Requests, SetupCreate(r)
      PROVE  FoundersCounted'
  <2>1. r \in Founding /\ Founding' = Founding \ {r}
    BY <1>2 DEF SetupCreate, Goto, Founding
  <2>2. /\ founded' = founded + 1 /\ lost' = lost
        /\ \E a \in Accounts : row'[a] # "none"
    BY <1>2 DEF SetupCreate, Insert
  <2> QED
    BY <2>1, <2>2, FoundingCount
<1>3. ASSUME NEW r \in Requests, NEW a \in Accounts, LoginRight(r, a)
      PROVE  FoundersCounted'
  <2>1. Founding' = Founding
    BY <1>3 DEF Founding, LoginRight, Start
  <2>2. /\ founded' = founded /\ (lost => lost')
        /\ \A c \in Accounts : row[c] # "none" => row'[c] # "none"
    BY <1>3 DEF LoginRight, Start
  <2> QED
    BY <1>b, <2>1, <2>2
<1>4. ASSUME NEW r \in Requests, StoreRefreshToken(r)
      PROVE  FoundersCounted'
  <2>1. Founding' = Founding
    BY <1>4 DEF Founding, StoreRefreshToken, Goto
  <2>2. /\ founded' = founded /\ (lost => lost')
        /\ \A c \in Accounts : row[c] # "none" => row'[c] # "none"
    BY <1>4 DEF StoreRefreshToken, Goto
  <2> QED
    BY <1>b, <2>1, <2>2
<1>5. ASSUME NEW r \in Requests, Answer(r)
      PROVE  FoundersCounted'
  <2>1. Founding' = Founding
    BY <1>5 DEF Founding, Answer, Done, Goto
  <2>2. /\ founded' = founded /\ (lost => lost')
        /\ \A c \in Accounts : row[c] # "none" => row'[c] # "none"
    BY <1>5 DEF Answer, Done, Goto
  <2> QED
    BY <1>b, <2>1, <2>2
<1>6. ASSUME NEW r \in Requests, NEW a \in Accounts, NEW b \in Accounts, UpdateRead(r, a, b)
      PROVE  FoundersCounted'
  <2>1. Founding' = Founding
    BY <1>6 DEF Founding, UpdateRead, Start
  <2>2. /\ founded' = founded /\ (lost => lost')
        /\ \A c \in Accounts : row[c] # "none" => row'[c] # "none"
    BY <1>6 DEF UpdateRead, Start
  <2> QED
    BY <1>b, <2>1, <2>2
<1>7. ASSUME NEW r \in Requests, NEW a \in Accounts, NEW b \in Accounts, Delete(r, a, b)
      PROVE  FoundersCounted'
  <2>1. Founding' = Founding
    BY <1>7 DEF Founding, Delete, Start, Remove, Logged
  <2>2. /\ founded' = founded /\ (lost => lost')
        /\ \A c \in Accounts : row[c] # "none" => row'[c] # "none"
    BY <1>7 DEF Delete, Start, Remove, Logged
  <2> QED
    BY <1>b, <2>1, <2>2
<1>8. ASSUME NEW r \in Requests, UpdateProfile(r)
      PROVE  FoundersCounted'
  <2>1. Founding' = Founding
    BY <1>8 DEF Founding, UpdateProfile, Done, Goto, Logged
  <2>2. /\ founded' = founded /\ (lost => lost')
        /\ \A c \in Accounts : row[c] # "none" => row'[c] # "none"
    BY <1>8 DEF UpdateProfile, Done, Goto, Logged
  <2> QED
    BY <1>b, <2>1, <2>2
<1>9. ASSUME NEW r \in Requests, Anonymize(r)
      PROVE  FoundersCounted'
  <2>1. Founding' = Founding
    BY <1>9 DEF Founding, Anonymize, Done, Goto, Remove, Logged
  <2>2. /\ founded' = founded /\ (lost => lost')
        /\ \A c \in Accounts : row[c] # "none" => row'[c] # "none"
    BY <1>9 DEF Anonymize, Done, Goto, Remove, Logged
  <2> QED
    BY <1>b, <2>1, <2>2
<1>10. ASSUME NEW r \in Requests, NEW a \in Accounts, MFAVerifyRead(r, a)
       PROVE  FoundersCounted'
  <2>1. Founding' = Founding
    BY <1>10 DEF Founding, MFAVerifyRead, Start
  <2>2. /\ founded' = founded /\ (lost => lost')
        /\ \A c \in Accounts : row[c] # "none" => row'[c] # "none"
    BY <1>10 DEF MFAVerifyRead, Start
  <2> QED
    BY <1>b, <2>1, <2>2
<1>11. ASSUME NEW r \in Requests, MFAVerifyWrite(r)
       PROVE  FoundersCounted'
  <2>1. Founding' = Founding
    BY <1>11 DEF Founding, MFAVerifyWrite, Done, Goto, Logged
  <2>2. /\ founded' = founded /\ (lost => lost')
        /\ \A c \in Accounts : row[c] # "none" => row'[c] # "none"
    BY <1>11 DEF MFAVerifyWrite, Done, Goto, Logged
  <2> QED
    BY <1>b, <2>1, <2>2
<1>12. ASSUME NEW r \in Requests, Abort(r)
       PROVE  FoundersCounted'
  <2>1. Founding' = Founding \ {r} \/ Founding' = Founding
    BY <1>12 DEF Founding, Abort, Done, Goto
  <2>2. /\ founded' = founded /\ (lost => lost')
        /\ \A c \in Accounts : row[c] # "none" => row'[c] # "none"
    BY <1>12 DEF Abort, Done, Goto
  <2> QED
    BY <1>b, <2>1, <2>2
<1>13. ASSUME NEW a \in Accounts, LoginWrong(a)
       PROVE  FoundersCounted'
  <2>1. Founding' = Founding
    BY <1>13 DEF Founding, LoginWrong
  <2>2. /\ founded' = founded /\ (lost => lost')
        /\ \A c \in Accounts : row[c] # "none" => row'[c] # "none"
    BY <1>13 DEF LoginWrong
  <2> QED
    BY <1>c, <2>1, <2>2
<1>14. ASSUME NEW a \in Accounts, CreateUser(a)
       PROVE  FoundersCounted'
  <2>1. Founding' = Founding
    BY <1>14 DEF Founding, CreateUser, Insert, Logged
  <2>2. /\ founded' = founded /\ (lost => lost')
        /\ \A c \in Accounts : row[c] # "none" => row'[c] # "none"
    BY <1>14 DEF CreateUser, Insert, Logged
  <2> QED
    BY <1>c, <2>1, <2>2
<1>15. ASSUME NEW a \in Accounts, MFASetup(a)
       PROVE  FoundersCounted'
  <2>1. Founding' = Founding
    BY <1>15 DEF Founding, MFASetup
  <2>2. /\ founded' = founded /\ (lost => lost')
        /\ \A c \in Accounts : row[c] # "none" => row'[c] # "none"
    BY <1>15 DEF MFASetup
  <2> QED
    BY <1>c, <2>1, <2>2
<1>16. CASE UNCHANGED vars
  <2>1. Founding' = Founding
    BY <1>16 DEF vars, Founding
  <2> QED
    BY <1>16, <2>1, <1>c DEF vars
<1> QED
  BY <1>1, <1>2, <1>3, <1>4, <1>5, <1>6, <1>7, <1>8, <1>9,
     <1>10, <1>11, <1>12, <1>13, <1>14, <1>15, <1>16
  DEF Next, Setup, Login, Manage, Enrol

\* A step turns MFA on with a proven secret only.
LEMMA MFAStep == TypeOK /\ ActorInserted /\ MFASecretVerified /\ [Next]_vars => MFASecretVerified'
<1> SUFFICES ASSUME TypeOK, ActorInserted, MFASecretVerified, [Next]_vars
             PROVE  MFASecretVerified'
  OBVIOUS
<1> USE AccountsAssumption DEF TypeOK, Stages, Stored, MFASecretVerified, rowVars, reqVars
<1>1. ASSUME NEW r \in Requests, SetupCount(r)
      PROVE  MFASecretVerified'
  BY <1>1 DEF SetupCount, Start
<1>2. ASSUME NEW r \in Requests, SetupCreate(r)
      PROVE  MFASecretVerified'
  BY <1>2 DEF SetupCreate, Goto, Insert
<1>3. ASSUME NEW r \in Requests, NEW a \in Accounts, LoginRight(r, a)
      PROVE  MFASecretVerified'
  BY <1>3 DEF LoginRight, Start
<1>4. ASSUME NEW r \in Requests, StoreRefreshToken(r)
      PROVE  MFASecretVerified'
  BY <1>4 DEF StoreRefreshToken, Goto
<1>5. ASSUME NEW r \in Requests, Answer(r)
      PROVE  MFASecretVerified'
  BY <1>5 DEF Answer, Done, Goto
<1>6. ASSUME NEW r \in Requests, NEW a \in Accounts, NEW b \in Accounts, UpdateRead(r, a, b)
      PROVE  MFASecretVerified'
  BY <1>6 DEF UpdateRead, Start
<1>7. ASSUME NEW r \in Requests, NEW a \in Accounts, NEW b \in Accounts, Delete(r, a, b)
      PROVE  MFASecretVerified'
  BY <1>7 DEF Delete, Start, Remove, Logged
<1>8. ASSUME NEW r \in Requests, UpdateProfile(r)
      PROVE  MFASecretVerified'
  BY <1>8 DEF UpdateProfile, Done, Goto, Logged
<1>9. ASSUME NEW r \in Requests, Anonymize(r)
      PROVE  MFASecretVerified'
  BY <1>9 DEF Anonymize, Done, Goto, Remove, Logged
<1>10. ASSUME NEW r \in Requests, NEW a \in Accounts, MFAVerifyRead(r, a)
       PROVE  MFASecretVerified'
  BY <1>10 DEF MFAVerifyRead, Start
<1>11. ASSUME NEW r \in Requests, MFAVerifyWrite(r)
       PROVE  MFASecretVerified'
  BY <1>11 DEF MFAVerifyWrite, Done, Goto, Logged
<1>12. ASSUME NEW r \in Requests, Abort(r)
       PROVE  MFASecretVerified'
  BY <1>12 DEF Abort, Done, Goto
<1>13. ASSUME NEW a \in Accounts, LoginWrong(a)
       PROVE  MFASecretVerified'
  BY <1>13 DEF LoginWrong
<1>14. ASSUME NEW a \in Accounts, CreateUser(a)
       PROVE  MFASecretVerified'
  BY <1>14 DEF CreateUser, Insert, Logged
<1>15. ASSUME NEW a \in Accounts, MFASetup(a)
       PROVE  MFASecretVerified'
  BY <1>15 DEF MFASetup
<1>16. CASE UNCHANGED vars
  BY <1>16 DEF vars
<1> QED
  BY <1>1, <1>2, <1>3, <1>4, <1>5, <1>6, <1>7, <1>8, <1>9,
     <1>10, <1>11, <1>12, <1>13, <1>14, <1>15, <1>16
  DEF Next, Setup, Login, Manage, Enrol

\* The invariant holds in every reachable state.
THEOREM Invariance == Spec => []IInv
<1>1. Init => IInv
  <2> SUFFICES ASSUME Init PROVE IInv
    OBVIOUS
  <2>1. Founding = {} /\ Cardinality(Founding) = 0
    BY FS_EmptySet DEF Init, Founding
  <2>2. Cardinality(Requests) \in Nat
    BY AccountsAssumption, FS_CardinalityType
  <2>3. TypeOK
    BY DEF Init, TypeOK, Stages
  <2>4. Existence
    BY DEF Init, Existence, Protected, ActorInserted, TokenAudited, Stored
  <2>5. FoundersCounted
    BY <2>1, <2>2 DEF Init, FoundersCounted
  <2>6. MFASecretVerified
    BY DEF Init, MFASecretVerified
  <2> QED
    BY <2>3, <2>4, <2>5, <2>6 DEF IInv
<1>2. IInv /\ [Next]_vars => IInv'
  BY TypeStep, ExistenceStep, FoundersStep, MFAStep DEF IInv, Existence
<1> QED
  BY <1>1, <1>2, PTL DEF Spec

\* The accounts' variables keep their types: a handler acts on accounts it
\* has read or inserted.
THEOREM TypeCorrect == Spec => []TypeOK
<1>1. IInv => TypeOK
  BY DEF IInv
<1> QED
  BY <1>1, Invariance, PTL

\* Set-up does not open again, whatever is deleted and by whom.
THEOREM SetupClosed == Spec => []SetupStaysClosed
<1>1. IInv => SetupStaysClosed
  BY StaysClosed DEF IInv
<1> QED
  BY <1>1, Invariance, PTL

\* OneFounder fails, but not by more than this: requests that overlap may each
\* make an administrator, and none is made later. So an instance that has been
\* set up by one request at a time has one founder.
FoundersBounded == founded <= Cardinality(Requests) \/ lost

THEOREM FoundersFew == Spec => []FoundersBounded
<1>1. IInv => FoundersBounded
  <2> SUFFICES ASSUME IInv, ~lost PROVE founded <= Cardinality(Requests)
    BY DEF FoundersBounded
  <2>1. IsFiniteSet(Requests) /\ Founding \in SUBSET Requests
    BY AccountsAssumption DEF Founding
  <2>2. Cardinality(Founding) \in Nat /\ Cardinality(Requests) \in Nat
    BY <2>1, FS_Subset, FS_CardinalityType
  <2> QED
    BY <2>2 DEF IInv, FoundersCounted, TypeOK
<1> QED
  BY <1>1, Invariance, PTL

\* MFA is on with a secret that its user has proven, after any overlap.
THEOREM MFAProven == Spec => []MFASecretVerified
<1>1. IInv => MFASecretVerified
  BY DEF IInv
<1> QED
  BY <1>1, Invariance, PTL
=============================================================================
