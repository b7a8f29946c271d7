---------------------------- MODULE RateLimiter -----------------------------
(***************************************************************************)
(* internal/ratelimit as rateLimited (server.go) uses it in front of       *)
(* setup, login and enrolment: one Limiter each, keyed by client address.  *)
(*                                                                         *)
(* Allow and one pass of gc hold Limiter.mu from end to end, so each is    *)
(* one step. Time is what Allow and gc read of it: how much of a bucket's  *)
(* window is left, windowEnd - now, in ticks; a window that is over is -1. *)
(* The ticker of gc has the window's period but no phase: gc may run at    *)
(* any time here.                                                          *)
(***************************************************************************)
EXTENDS Integers

CONSTANTS
  Keys,    \* client addresses
  Limit,   \* Limiter.limit
  Window   \* Limiter.window, in ticks

ASSUME RateLimiterAssumption == Limit \in Nat \ {0} /\ Window \in Nat \ {0}

VARIABLES
  buckets,  \* Limiter.buckets: key -> count and time left, or NoBucket
  answer,   \* "served": next(w, r) ran; "refused": 429; per key, the last one
  recent    \* history: requests served, by key, in the last 0, 1, ... ticks

vars == <<buckets, answer, recent>>

NoBucket == [count |-> 0, left |-> -1]
Ages     == 0..Window

TypeOK ==
  /\ buckets \in [Keys -> [count : 0..Limit, left : -1..Window]]
  /\ answer \in [Keys -> {"none", "served", "refused"}]
  /\ recent \in [Keys -> [Ages -> Nat]]

Init ==
  /\ buckets = [k \in Keys |-> NoBucket]
  /\ answer = [k \in Keys |-> "none"]
  /\ recent = [k \in Keys |-> [t \in Ages |-> 0]]

\* !ok || now.After(b.windowEnd)
Expired(k) == buckets[k] = NoBucket \/ buckets[k].left < 0

\* rateLimited when Allow returns true: the handler runs.
Served(k) ==
  /\ answer' = [answer EXCEPT ![k] = "served"]
  /\ recent' = [recent EXCEPT ![k] = [t \in Ages |-> recent[k][t] + 1]]

\* rateLimited when Allow returns false: 429.
Refused(k) ==
  /\ answer' = [answer EXCEPT ![k] = "refused"]
  /\ UNCHANGED recent

\* Mutant: b.count > l.limit.
RequestOneMore(k) ==
  \/ /\ Expired(k)
     /\ buckets' = [buckets EXCEPT ![k] = [count |-> 1, left |-> Window]]
     /\ Served(k)
  \/ /\ ~Expired(k)
     /\ buckets[k].count > Limit
     /\ UNCHANGED buckets
     /\ Refused(k)
  \/ /\ ~Expired(k)
     /\ buckets[k].count <= Limit
     /\ buckets' = [buckets EXCEPT ![k].count = @ + 1]
     /\ Served(k)

\* Mutant: a refused request pushes the end of the window back.
RequestPenalised(k) ==
  \/ /\ Expired(k)
     /\ buckets' = [buckets EXCEPT ![k] = [count |-> 1, left |-> Window]]
     /\ Served(k)
  \/ /\ ~Expired(k)
     /\ buckets[k].count >= Limit
     /\ buckets' = [buckets EXCEPT ![k].left = Window]
     /\ Refused(k)
  \/ /\ ~Expired(k)
     /\ buckets[k].count < Limit
     /\ buckets' = [buckets EXCEPT ![k].count = @ + 1]
     /\ Served(k)

\* A request of client k: Allow(k), then the handler or a refusal.
Request(k) ==
  \/ /\ Expired(k)
     /\ buckets' = [buckets EXCEPT ![k] = [count |-> 1, left |-> Window]]
     /\ Served(k)
  \/ /\ ~Expired(k)
     /\ buckets[k].count >= Limit
     /\ UNCHANGED buckets
     /\ Refused(k)
  \/ /\ ~Expired(k)
     /\ buckets[k].count < Limit
     /\ buckets' = [buckets EXCEPT ![k].count = @ + 1]
     /\ Served(k)

\* Mutant: starts over with an empty map.
GcAll ==
  /\ buckets' = [k \in Keys |-> NoBucket]
  /\ UNCHANGED <<answer, recent>>

\* Mutant: also drops the buckets that are full.
GcFull ==
  /\ buckets' = [k \in Keys |->
                   IF buckets[k].left < 0 \/ buckets[k].count = Limit
                     THEN NoBucket ELSE buckets[k]]
  /\ UNCHANGED <<answer, recent>>

\* One pass of gc.
Gc ==
  /\ buckets' = [k \in Keys |-> IF buckets[k].left < 0 THEN NoBucket ELSE buckets[k]]
  /\ UNCHANGED <<answer, recent>>

\* A tick of time.
Tick ==
  /\ buckets' = [k \in Keys |-> IF buckets[k].left >= 0
                                  THEN [buckets[k] EXCEPT !.left = @ - 1] ELSE buckets[k]]
  /\ recent' = [k \in Keys |-> [t \in Ages |-> IF t = 0 THEN 0 ELSE recent[k][t - 1]]]
  /\ UNCHANGED answer

Next == Tick \/ Gc \/ \E k \in Keys : Request(k)

\* Time passes. Clients are free to stop, and gc is not needed for progress.
Spec     == Init /\ [][Next]_vars
FairSpec == Spec /\ WF_vars(Tick)

-----------------------------------------------------------------------------
(***************************************************************************)
(* Properties                                                              *)
(***************************************************************************)

\* A bucket that is over and one that is gone mean the same to a client.
windowOf ==
  [k \in Keys |-> IF Expired(k) THEN [used |-> 0, left |-> -1]
                                ELSE [used |-> buckets[k].count, left |-> buckets[k].left]]

Promise == INSTANCE FixedWindow WITH window <- windowOf, Length <- Window

\* The limiter keeps FixedWindow's promise: whenever gc runs, no client can
\* tell, and a request is refused only in a window that served Limit of them.
KeepsPromise == Promise!Spec

\* What the fixed windows are worth against a burst that straddles two of
\* them: any stretch of time as long as a window serves at most 2 * Limit.
AtMostTwice ==
  \A k \in Keys : recent[k][Window] <= 2 * Limit

\* Nobody is shut out for good: a client that was refused can be served again
\* later, however often it retries in the meantime.
RefusalEnds ==
  \A k \in Keys :
    answer[k] = "refused" ~> (answer[k] # "refused" \/ Expired(k))
=============================================================================
