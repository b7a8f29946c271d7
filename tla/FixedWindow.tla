---------------------------- MODULE FixedWindow -----------------------------
(***************************************************************************)
(* What rateLimited promises its callers, whatever the memory it keeps: a  *)
(* key's first request opens a window, a window serves Limit requests and  *)
(* refuses the rest, and it is over when Length ticks have passed.         *)
(***************************************************************************)
EXTENDS Integers

CONSTANTS
  Keys,    \* client addresses
  Limit,   \* requests served in a window, at least one
  Length   \* ticks for which a window stays open, at least one

VARIABLES
  window,  \* key -> requests served and ticks left, Closed between windows
  answer   \* what the last request of a key was answered

vars == <<window, answer>>

Closed == [used |-> 0, left |-> -1]

Init ==
  /\ window = [k \in Keys |-> Closed]
  /\ answer = [k \in Keys |-> "none"]

Open(k) ==
  /\ window[k] = Closed
  /\ window' = [window EXCEPT ![k] = [used |-> 1, left |-> Length]]
  /\ answer' = [answer EXCEPT ![k] = "served"]

Serve(k) ==
  /\ window[k] # Closed
  /\ window[k].used < Limit
  /\ window' = [window EXCEPT ![k].used = @ + 1]
  /\ answer' = [answer EXCEPT ![k] = "served"]

Refuse(k) ==
  /\ window[k].used = Limit
  /\ answer' = [answer EXCEPT ![k] = "refused"]
  /\ UNCHANGED window

Tick ==
  /\ window' = [k \in Keys |-> IF window[k].left > 0
                                 THEN [window[k] EXCEPT !.left = @ - 1] ELSE Closed]
  /\ UNCHANGED answer

Next == Tick \/ \E k \in Keys : Open(k) \/ Serve(k) \/ Refuse(k)

Spec == Init /\ [][Next]_vars
=============================================================================
