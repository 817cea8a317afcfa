--------------------------- MODULE MCMembership -----------------------------
(***************************************************************************)
(* Instances of Membership for TLC: the organisations and the callers.     *)
(***************************************************************************)
EXTENDS Membership, TLC

CONSTANTS u1, o1, o2, c1, c2

OneOrg == <<o1>>
TwoOrgs == <<o1, o2>>

CallerSymmetry == Permutations(Caller)

=============================================================================
