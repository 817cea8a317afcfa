-------------------------- MODULE MCInstallTokens ---------------------------
(***************************************************************************)
(* Instances of InstallTokens for TLC.                                     *)
(***************************************************************************)
EXTENDS InstallTokens

CONSTANTS c1, c2, c3

=============================================================================
