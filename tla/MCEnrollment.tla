---------------------------- MODULE MCEnrollment ----------------------------
(***************************************************************************)
(* An instance of Enrollment for TLC: interchangeable names.               *)
(***************************************************************************)
EXTENDS Enrollment, TLC

Symmetry == Permutations(Attempts) \cup Permutations(Tokens)
              \cup Permutations(Machines)
=============================================================================
