------------------------- MODULE RateLimiterProofs --------------------------
(***************************************************************************)
(* RateLimiter implements FixedWindow and is never worth more than twice   *)
(* its limit, for every set of clients, every limit and every window.      *)
(***************************************************************************)
EXTENDS RateLimiter, TLAPS

\* The type invariant, and what makes the mapping exact: the map holds no
\* empty bucket, and NoBucket is never mistaken for a window in progress.
IInv ==
  /\ TypeOK
  /\ \A k \in Keys : buckets[k].left >= 0 => buckets[k].count >= 1

LEMMA BucketTypes ==
  /\ NoBucket \in [count : 0..Limit, left : -1..Window]
  /\ [count |-> 1, left |-> Window] \in [count : 0..Limit, left : -1..Window]
  BY RateLimiterAssumption DEF NoBucket

\* What Allow does to the bucket of its key, and to the others.
LEMMA RequestEffect ==
  ASSUME IInv, NEW k \in Keys, Request(k)
  PROVE  /\ buckets' \in [Keys -> [count : 0..Limit, left : -1..Window]]
         /\ \A j \in Keys : j # k => buckets'[j] = buckets[j]
         /\ Expired(k) => buckets'[k] = [count |-> 1, left |-> Window] /\ Served(k)
         /\ ~Expired(k) /\ buckets[k].count < Limit =>
              /\ buckets'[k] = [count |-> buckets[k].count + 1, left |-> buckets[k].left]
              /\ Served(k)
         /\ ~Expired(k) /\ buckets[k].count >= Limit => UNCHANGED buckets /\ Refused(k)
<1> USE RateLimiterAssumption
<1>1. /\ buckets \in [Keys -> [count : 0..Limit, left : -1..Window]]
      /\ buckets[k] \in [count : 0..Limit, left : -1..Window]
      /\ buckets[k].count \in 0..Limit /\ buckets[k].left \in -1..Window
  BY DEF IInv, TypeOK
<1>2. CASE Expired(k)
  <2>1. buckets' = [buckets EXCEPT ![k] = [count |-> 1, left |-> Window]] /\ Served(k)
    BY <1>2 DEF Request
  <2> QED
    BY <1>1, <1>2, <2>1, BucketTypes
<1>3. CASE ~Expired(k) /\ buckets[k].count < Limit
  <2>1. buckets' = [buckets EXCEPT ![k].count = @ + 1] /\ Served(k)
    BY <1>1, <1>3 DEF Request
  <2>2. [buckets[k] EXCEPT !.count = @ + 1]
          = [count |-> buckets[k].count + 1, left |-> buckets[k].left]
    BY <1>1
  <2>3. [count |-> buckets[k].count + 1, left |-> buckets[k].left]
          \in [count : 0..Limit, left : -1..Window]
    BY <1>1, <1>3
  <2> QED
    BY <1>1, <1>3, <2>1, <2>2, <2>3
<1>4. CASE ~Expired(k) /\ buckets[k].count >= Limit
  <2>1. UNCHANGED buckets /\ Refused(k)
    BY <1>1, <1>4 DEF Request
  <2> QED
    BY <1>1, <1>4, <2>1
<1> QED
  BY <1>1, <1>2, <1>3, <1>4

LEMMA InvariantStep == IInv /\ [Next]_vars => IInv'
<1> SUFFICES ASSUME IInv, [Next]_vars PROVE IInv'
  OBVIOUS
<1> USE RateLimiterAssumption, BucketTypes DEF IInv, TypeOK, Ages
<1>1. ASSUME NEW k \in Keys, Request(k) PROVE IInv'
  <2>1. answer' \in [Keys -> {"none", "served", "refused"}] /\ recent' \in [Keys -> [Ages -> Nat]]
    <3>1. Served(k) \/ Refused(k)
      BY <1>1 DEF Request
    <3>2. CASE Served(k)
      <4>1. [t \in Ages |-> recent[k][t] + 1] \in [Ages -> Nat]
        OBVIOUS
      <4> QED
        BY <3>2, <4>1 DEF Served
    <3>3. CASE Refused(k)
      BY <3>3 DEF Refused
    <3> QED
      BY <3>1, <3>2, <3>3
  <2>2. ASSUME NEW j \in Keys, buckets'[j].left >= 0 PROVE buckets'[j].count >= 1
    <3>1. CASE j # k
      BY <1>1, <2>2, <3>1, RequestEffect
    <3>2. CASE j = k /\ Expired(k)
      <4>1. buckets'[k] = [count |-> 1, left |-> Window]
        BY <1>1, <3>2, RequestEffect
      <4> QED
        BY <3>2, <4>1
    <3>3. CASE j = k /\ ~Expired(k) /\ buckets[k].count < Limit
      <4>1. buckets'[k] = [count |-> buckets[k].count + 1, left |-> buckets[k].left]
        BY <1>1, <3>3, RequestEffect
      <4>2. buckets[k].count \in 0..Limit
        OBVIOUS
      <4> QED
        BY <3>3, <4>1, <4>2
    <3>4. CASE j = k /\ ~Expired(k) /\ buckets[k].count >= Limit
      <4>1. UNCHANGED buckets
        BY <1>1, <3>4, RequestEffect
      <4> QED
        BY <2>2, <4>1
    <3>5. buckets[k].count \in Int
      OBVIOUS
    <3> QED
      BY <3>1, <3>2, <3>3, <3>4, <3>5
  <2> QED
    BY <1>1, <2>1, <2>2, RequestEffect
<1>2. CASE Gc
  BY <1>2 DEF Gc, NoBucket
<1>3. CASE Tick
  <2>1. recent' \in [Keys -> [Ages -> Nat]]
    <3> SUFFICES ASSUME NEW k \in Keys, NEW t \in Ages, t # 0 PROVE recent[k][t - 1] \in Nat
      BY <1>3 DEF Tick
    <3>1. t - 1 \in Ages
      OBVIOUS
    <3> QED
      BY <3>1
  <2>2. ASSUME NEW k \in Keys
        PROVE  /\ buckets'[k] \in [count : 0..Limit, left : -1..Window]
               /\ buckets'[k].left >= 0 => buckets'[k].count >= 1
    BY <1>3 DEF Tick
  <2> QED
    BY <1>3, <2>1, <2>2 DEF Tick
<1>4. CASE UNCHANGED vars
  BY <1>4 DEF vars
<1> QED
  BY <1>1, <1>2, <1>3, <1>4 DEF Next

LEMMA InitInvariant == Init => IInv
  BY BucketTypes, RateLimiterAssumption DEF Init, IInv, TypeOK, NoBucket, Ages

\* No bucket ever counts more than the limit or outlives its window.
THEOREM TypeCorrect == Spec => []TypeOK
<1>1. IInv => TypeOK
  BY DEF IInv
<1> QED
  BY <1>1, InitInvariant, InvariantStep, PTL DEF Spec

-----------------------------------------------------------------------------
(***************************************************************************)
(* The burst: a stretch of Window ticks meets two fixed windows at most.   *)
(***************************************************************************)

\* The requests served since a window opened are those its bucket has
\* counted, and the others of the last Window ticks are of one window more.
\* A tick closes the window, so nothing was served since a closed one.
StraddledAt(k) ==
  /\ \A t \in 1..Window : recent[k][t - 1] <= recent[k][t]
  /\ buckets[k].left < 0 =>
       recent[k][0] = 0 /\ recent[k][Window] <= Limit
  /\ buckets[k].left >= 0 =>
       /\ recent[k][Window - buckets[k].left] <= buckets[k].count
       /\ recent[k][Window] <= buckets[k].count + Limit

Straddled == \A k \in Keys : StraddledAt(k)

\* A request that is served counts in its bucket and in every stretch.
LEMMA RequestStraddles ==
  ASSUME IInv, IInv', Straddled, NEW k \in Keys, Request(k)
  PROVE  Straddled'
<1> USE RateLimiterAssumption
<1>1. ASSUME NEW j \in Keys, j # k PROVE StraddledAt(j)'
  <2>1. buckets'[j] = buckets[j]
    BY <1>1, RequestEffect
  <2>2. recent'[j] = recent[j]
    BY <1>1 DEF Request, Served, Refused, IInv, TypeOK
  <2> QED
    BY <2>1, <2>2 DEF Straddled, StraddledAt
<1>2. StraddledAt(k)'
  <2>1. /\ buckets[k].left \in -1..Window /\ buckets[k].count \in 0..Limit
        /\ \A t \in 0..Window : recent[k][t] \in Nat
    BY DEF IInv, TypeOK, Ages
  <2>2. CASE Expired(k)
    <3>1. buckets'[k] = [count |-> 1, left |-> Window] /\ Served(k)
      BY <2>2, RequestEffect
    <3>2. \A t \in 0..Window : recent'[k][t] = recent[k][t] + 1
      BY <3>1 DEF Served, IInv, TypeOK, Ages
    <3>3. buckets[k].left < 0
      BY <2>1, <2>2 DEF Expired, NoBucket
    <3>4. \A t \in 1..Window : recent'[k][t - 1] <= recent'[k][t]
      BY <2>1, <3>2 DEF Straddled, StraddledAt
    <3>5. recent'[k][0] = 1 /\ recent'[k][Window] <= Limit + 1
      BY <2>1, <3>2, <3>3 DEF Straddled, StraddledAt
    <3> QED
      BY <3>1, <3>4, <3>5 DEF StraddledAt
  <2>3. CASE ~Expired(k) /\ buckets[k].count < Limit
    <3>1. /\ buckets'[k] = [count |-> buckets[k].count + 1, left |-> buckets[k].left]
          /\ Served(k)
      BY <2>3, RequestEffect
    <3>2. \A t \in 0..Window : recent'[k][t] = recent[k][t] + 1
      BY <3>1 DEF Served, IInv, TypeOK, Ages
    <3>3. buckets[k].left >= 0
      BY <2>1, <2>3 DEF Expired
    <3>4. \A t \in 1..Window : recent'[k][t - 1] <= recent'[k][t]
      BY <2>1, <3>2 DEF Straddled, StraddledAt
    <3>5. Window - buckets[k].left \in 0..Window
      BY <2>1, <3>3
    <3> QED
      BY <2>1, <3>1, <3>2, <3>3, <3>4, <3>5 DEF Straddled, StraddledAt
  <2>4. CASE ~Expired(k) /\ buckets[k].count >= Limit
    <3>1. UNCHANGED buckets /\ Refused(k)
      BY <2>4, RequestEffect
    <3> QED
      BY <3>1 DEF Refused, Straddled, StraddledAt
  <2> QED
    BY <2>1, <2>2, <2>3, <2>4
<1> QED
  BY <1>1, <1>2 DEF Straddled

\* A tick moves every stretch back by one, and closes a window of age Window.
LEMMA TickStraddles ==
  ASSUME IInv, IInv', Straddled, Tick
  PROVE  Straddled'
<1> USE RateLimiterAssumption
<1> SUFFICES ASSUME NEW k \in Keys PROVE StraddledAt(k)'
  BY DEF Straddled
<1>1. /\ buckets[k].left \in -1..Window /\ buckets[k].count \in 0..Limit
      /\ \A t \in 0..Window : recent[k][t] \in Nat
  BY DEF IInv, TypeOK, Ages
<1>2. recent'[k][0] = 0 /\ \A t \in 1..Window : recent'[k][t] = recent[k][t - 1]
  BY DEF Tick, Ages
<1>3. \A t \in 1..Window : recent'[k][t - 1] <= recent'[k][t]
  <2> SUFFICES ASSUME NEW t \in 1..Window PROVE recent'[k][t - 1] <= recent'[k][t]
    OBVIOUS
  <2>1. CASE t = 1
    BY <1>1, <1>2, <2>1
  <2>2. CASE t # 1
    <3>1. t - 1 \in 1..Window
      BY <2>2
    <3> QED
      BY <1>2, <3>1 DEF Straddled, StraddledAt
  <2> QED
    BY <2>1, <2>2
<1>4. recent'[k][Window] = recent[k][Window - 1] /\ recent'[k][Window] <= recent[k][Window]
  BY <1>2 DEF Straddled, StraddledAt
<1>5. CASE buckets[k].left < 0
  <2>1. buckets'[k] = buckets[k]
    BY <1>1, <1>5 DEF Tick
  <2> QED
    BY <1>1, <1>2, <1>3, <1>4, <1>5, <2>1 DEF Straddled, StraddledAt
<1>6. CASE buckets[k].left = 0
  <2>1. buckets'[k].left = -1
    BY <1>1, <1>6 DEF Tick
  <2>2. recent[k][Window] <= Limit
    BY <1>1, <1>6 DEF Straddled, StraddledAt
  <2> QED
    BY <1>1, <1>2, <1>3, <1>4, <2>1, <2>2 DEF StraddledAt
<1>7. CASE buckets[k].left > 0
  <2>1. buckets'[k].left = buckets[k].left - 1 /\ buckets'[k].count = buckets[k].count
    BY <1>1, <1>7 DEF Tick
  <2>2. Window - buckets'[k].left \in 1..Window
    BY <1>1, <1>7, <2>1
  <2>3. recent'[k][Window - buckets'[k].left] = recent[k][Window - buckets[k].left]
    <3>1. (Window - buckets'[k].left) - 1 = Window - buckets[k].left
      BY <1>1, <2>1
    <3> QED
      BY <1>2, <2>2, <3>1
  <2>4. /\ recent'[k][Window - buckets'[k].left] <= buckets'[k].count
        /\ recent'[k][Window] <= buckets'[k].count + Limit
    BY <1>1, <1>4, <1>7, <2>1, <2>3 DEF Straddled, StraddledAt
  <2> QED
    BY <1>1, <1>3, <1>7, <2>1, <2>4 DEF StraddledAt
<1> QED
  BY <1>1, <1>5, <1>6, <1>7

LEMMA StraddledStep == IInv /\ IInv' /\ Straddled /\ [Next]_vars => Straddled'
<1> SUFFICES ASSUME IInv, IInv', Straddled, [Next]_vars PROVE Straddled'
  OBVIOUS
<1>1. CASE Gc
  BY <1>1 DEF Gc, NoBucket, Straddled, StraddledAt
<1>2. CASE UNCHANGED vars
  BY <1>2 DEF vars, Straddled, StraddledAt
<1> QED
  BY <1>1, <1>2, RequestStraddles, TickStraddles DEF Next

\* Whatever a client does and whenever gc runs, no stretch of time as long as
\* a window serves it more than twice the limit (Limiter.Allow).
THEOREM BurstBounded == Spec => []AtMostTwice
<1>1. Init => Straddled
  <2> SUFFICES ASSUME Init, NEW k \in Keys PROVE StraddledAt(k)
    BY DEF Straddled
  <2>1. buckets[k] = NoBucket /\ \A t \in 0..Window : recent[k][t] = 0
    BY DEF Init, Ages
  <2> QED
    BY <2>1, RateLimiterAssumption DEF StraddledAt, NoBucket
<1>2. IInv /\ Straddled => AtMostTwice
  <2> SUFFICES ASSUME IInv, Straddled, NEW k \in Keys PROVE recent[k][Window] <= 2 * Limit
    BY DEF AtMostTwice
  <2>1. /\ buckets[k].left \in -1..Window /\ buckets[k].count \in 0..Limit
        /\ recent[k][Window] \in Nat
    BY RateLimiterAssumption DEF IInv, TypeOK, Ages
  <2> QED
    BY <2>1, RateLimiterAssumption DEF Straddled, StraddledAt
<1> QED
  BY <1>1, <1>2, InitInvariant, InvariantStep, StraddledStep, PTL DEF Spec

-----------------------------------------------------------------------------
(***************************************************************************)
(* The refinement: gc stutters, and every other step is a step of the      *)
(* promise.                                                                *)
(***************************************************************************)

\* The mapping, read one key at a time.
LEMMA MappedKey ==
  ASSUME IInv, NEW k \in Keys
  PROVE  /\ buckets[k].left < 0 => Expired(k)
         /\ buckets[k].left >= 0 => ~Expired(k)
         /\ Expired(k) => windowOf[k] = Promise!Closed
         /\ ~Expired(k) => windowOf[k] = [used |-> buckets[k].count, left |-> buckets[k].left]
  BY DEF IInv, TypeOK, Expired, NoBucket, windowOf, Promise!Closed

\* A pass of gc changes no window.
LEMMA GcStutters ==
  ASSUME IInv, IInv', Gc
  PROVE  windowOf' = windowOf /\ answer' = answer
<1>1. ASSUME NEW k \in Keys
      PROVE  /\ Expired(k)' <=> Expired(k)
             /\ ~Expired(k) => buckets'[k] = buckets[k]
  <2>1. buckets'[k] = IF buckets[k].left < 0 THEN NoBucket ELSE buckets[k]
    BY DEF Gc
  <2> QED
    BY <2>1, MappedKey DEF IInv, TypeOK, Expired, NoBucket
<1> QED
  BY <1>1 DEF windowOf, Gc

\* Time passes alike on both sides.
LEMMA TickMaps ==
  ASSUME IInv, IInv', Tick
  PROVE  Promise!Tick
<1>1. ASSUME NEW k \in Keys
      PROVE  windowOf'[k] = IF windowOf[k].left > 0 THEN [windowOf[k] EXCEPT !.left = @ - 1]
                                                    ELSE Promise!Closed
  <2>1. buckets[k] \in [count : 0..Limit, left : -1..Window]
    BY DEF IInv, TypeOK
  <2>2. CASE buckets[k].left > 0
    <3>1. ~Expired(k) /\ windowOf[k] = [used |-> buckets[k].count, left |-> buckets[k].left]
      BY <2>1, <2>2, MappedKey, RateLimiterAssumption
    <3>2. buckets'[k] = [count |-> buckets[k].count, left |-> buckets[k].left - 1]
      BY <2>1, <2>2, RateLimiterAssumption DEF Tick
    <3>3. ~Expired(k)'
      BY <2>1, <2>2, <3>2, RateLimiterAssumption DEF Expired, NoBucket
    <3> QED
      BY <2>2, <3>1, <3>2, <3>3 DEF windowOf
  <2>3. CASE ~(buckets[k].left > 0)
    <3>1. buckets'[k].left < 0
      BY <2>1, <2>3, RateLimiterAssumption DEF Tick
    <3>2. windowOf'[k] = Promise!Closed
      BY <3>1 DEF Expired, windowOf, Promise!Closed
    <3>3. ~(windowOf[k].left > 0)
      BY <2>1, <2>3 DEF windowOf
    <3> QED
      BY <3>2, <3>3
  <2> QED
    BY <2>2, <2>3
<1>2. windowOf' = [k \in Keys |-> windowOf'[k]]
  BY DEF windowOf
<1> QED
  BY <1>1, <1>2 DEF Promise!Tick, Tick

\* Allow opens a window, serves in it, or refuses.
LEMMA RequestMaps ==
  ASSUME IInv, IInv', NEW k \in Keys, Request(k)
  PROVE  Promise!Open(k) \/ Promise!Serve(k) \/ Promise!Refuse(k)
<1> USE RateLimiterAssumption
<1>1. /\ buckets[k] \in [count : 0..Limit, left : -1..Window]
      /\ buckets[k].count \in 0..Limit /\ buckets[k].left \in -1..Window
  BY DEF IInv, TypeOK
<1>2. ASSUME NEW n \in 1..Limit, NEW t \in 0..Window,
             buckets'[k] = [count |-> n, left |-> t],
             \A j \in Keys : j # k => buckets'[j] = buckets[j]
      PROVE  windowOf' = [windowOf EXCEPT ![k] = [used |-> n, left |-> t]]
  <2>1. windowOf'[k] = [used |-> n, left |-> t]
    BY <1>2 DEF windowOf, Expired, NoBucket
  <2>2. \A j \in Keys : j # k => windowOf'[j] = windowOf[j]
    BY <1>2 DEF windowOf, Expired
  <2>3. windowOf' = [j \in Keys |-> windowOf'[j]] /\ windowOf = [j \in Keys |-> windowOf[j]]
    BY DEF windowOf
  <2> HIDE DEF windowOf
  <2> QED
    BY <2>1, <2>2, <2>3
<1>3. CASE Expired(k)
  <2>1. Served(k)
    BY <1>3, RequestEffect
  <2>2. windowOf' = [windowOf EXCEPT ![k] = [used |-> 1, left |-> Window]]
    <3>1. /\ buckets'[k] = [count |-> 1, left |-> Window]
          /\ \A j \in Keys : j # k => buckets'[j] = buckets[j]
      BY <1>3, RequestEffect
    <3>2. 1 \in 1..Limit /\ Window \in 0..Window
      OBVIOUS
    <3> QED
      BY <1>2, <3>1, <3>2
  <2>3. windowOf[k] = Promise!Closed
    BY <1>3, MappedKey
  <2> QED
    BY <2>1, <2>2, <2>3 DEF Promise!Open, Served
<1>4. CASE ~Expired(k) /\ buckets[k].count < Limit
  <2>1. Served(k)
    BY <1>4, RequestEffect
  <2>2. windowOf[k] = [used |-> buckets[k].count, left |-> buckets[k].left] /\ buckets[k].left >= 0
    BY <1>1, <1>4, MappedKey
  <2>3. buckets[k].count + 1 \in 1..Limit /\ buckets[k].left \in 0..Window
    BY <1>1, <1>4, <2>2
  <2>4. windowOf' = [windowOf EXCEPT ![k] =
                       [used |-> buckets[k].count + 1, left |-> buckets[k].left]]
    BY <1>2, <1>4, <2>3, RequestEffect
  <2>5. windowOf' = [windowOf EXCEPT ![k].used = @ + 1]
    <3>1. [windowOf[k] EXCEPT !.used = @ + 1]
            = [used |-> buckets[k].count + 1, left |-> buckets[k].left]
      BY <2>2
    <3> QED
      BY <2>4, <3>1
  <2>6. windowOf[k] # Promise!Closed /\ windowOf[k].used < Limit
    BY <1>4, <2>2 DEF Promise!Closed
  <2> QED
    BY <2>1, <2>5, <2>6 DEF Promise!Serve, Served
<1>5. CASE ~Expired(k) /\ buckets[k].count >= Limit
  <2>1. UNCHANGED buckets /\ Refused(k)
    BY <1>5, RequestEffect
  <2>2. windowOf' = windowOf
    BY <2>1 DEF windowOf, Expired
  <2>3. windowOf[k] = [used |-> buckets[k].count, left |-> buckets[k].left]
    BY <1>5, MappedKey
  <2>4. windowOf[k].used = Limit
    BY <1>1, <1>5, <2>3
  <2> QED
    BY <2>1, <2>2, <2>4 DEF Promise!Refuse, Refused
<1> QED
  BY <1>1, <1>3, <1>4, <1>5

\* RateLimiter implements FixedWindow under windowOf: forgetting the buckets
\* that are over is invisible, whatever the limit, the window and the clients.
THEOREM PromiseKept == Spec => KeepsPromise
<1>1. Init => Promise!Init
  BY DEF Init, Promise!Init, windowOf, Expired, NoBucket, Promise!Closed
<1>2. IInv /\ IInv' /\ [Next]_vars => [Promise!Next]_(Promise!vars)
  <2> SUFFICES ASSUME IInv, IInv', [Next]_vars
               PROVE  Promise!Next \/ (windowOf' = windowOf /\ answer' = answer)
    BY DEF Promise!vars
  <2>1. CASE Tick
    BY <2>1, TickMaps DEF Promise!Next
  <2>2. CASE Gc
    BY <2>2, GcStutters
  <2>3. ASSUME NEW k \in Keys, Request(k) PROVE Promise!Next
    BY <2>3, RequestMaps DEF Promise!Next
  <2>4. CASE UNCHANGED vars
    BY <2>4 DEF vars, windowOf, Expired
  <2> QED
    BY <2>1, <2>2, <2>3, <2>4 DEF Next
<1> QED
  BY <1>1, <1>2, InitInvariant, InvariantStep, PTL DEF Spec, KeepsPromise, Promise!Spec
=============================================================================
