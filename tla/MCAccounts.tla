----------------------------- MODULE MCAccounts -----------------------------
(***************************************************************************)
(* An instance of Accounts for TLC: interchangeable accounts, requests.    *)
(***************************************************************************)
EXTENDS Accounts, TLC

Symmetry == Permutations(Accounts) \cup Permutations(Requests)
=============================================================================
