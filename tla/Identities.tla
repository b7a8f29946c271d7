----------------------------- MODULE Identities -----------------------------
(***************************************************************************)
(* What enrolment promises, whatever is interrupted on the way: the        *)
(* organisation has one root for good, a token buys one certificate under  *)
(* it, and a machine that has come to hold a certificate keeps that one,   *)
(* which no other machine holds.                                           *)
(***************************************************************************)
EXTENDS Integers

CONSTANTS
  Machines,
  Tokens,    \* enrolment tokens
  Roots      \* certificates the organisation's CA might have

VARIABLES
  roots,   \* the one it has had since it was first up, if it has been
  issued,  \* the certificates the server has recorded
  held     \* machine -> the certificate it starts with, if it has one

vars == <<roots, issued, held>>

Init ==
  /\ roots = {} /\ issued = {}
  /\ held = [m \in Machines |-> {}]

Establish(r) ==
  /\ roots = {}
  /\ roots' = {r}
  /\ UNCHANGED <<issued, held>>

Issue(t) ==
  /\ \A c \in issued : c.token # t
  /\ \E r \in roots : issued' = issued \cup {[token |-> t, root |-> r]}
  /\ UNCHANGED <<roots, held>>

Adopt(m, c) ==
  /\ held[m] = {} /\ \A n \in Machines : c \notin held[n]
  /\ held' = [held EXCEPT ![m] = {c}]
  /\ UNCHANGED <<roots, issued>>

Next ==
  \/ \E r \in Roots : Establish(r)
  \/ \E t \in Tokens : Issue(t)
  \/ \E m \in Machines, c \in issued : Adopt(m, c)

Spec == Init /\ [][Next]_vars
=============================================================================
