------------------------------- MODULE MCInit -------------------------------
(***************************************************************************)
(* An instance of InitFlow for TLC.  GITHUB_APP_ID stands for the keys     *)
(* with a value on one line.                                               *)
(***************************************************************************)
EXTENDS InitFlow, TLC

CONSTANTS id, pem

=============================================================================
