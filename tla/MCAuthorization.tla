-------------------------- MODULE MCAuthorization ---------------------------
(***************************************************************************)
(* An instance of Authorization for TLC: interchangeable users, tokens and *)
(* requests.                                                               *)
(***************************************************************************)
EXTENDS Authorization, TLC

Symmetry == Permutations(Users) \cup Permutations(Tokens) \cup Permutations(Requests)
=============================================================================
