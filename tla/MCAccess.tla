----------------------------- MODULE MCAccess -------------------------------
(***************************************************************************)
(* Instances of ApiAccess for TLC.                                         *)
(***************************************************************************)
EXTENDS ApiAccess, TLC

CONSTANTS u1, c1, c2

CallerSymmetry == Permutations(Caller)

=============================================================================
