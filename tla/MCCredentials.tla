--------------------------- MODULE MCCredentials ----------------------------
(***************************************************************************)
(* An instance of Credentials for TLC: interchangeable requests, tokens.   *)
(***************************************************************************)
EXTENDS Credentials, TLC

Symmetry == Permutations(Requests) \cup Permutations(Tokens)
=============================================================================
