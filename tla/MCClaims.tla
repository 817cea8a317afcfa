------------------------------ MODULE MCClaims ------------------------------
(***************************************************************************)
(* Instances of Webhook on which the documented claims are refuted.        *)
(***************************************************************************)
EXTENDS DocumentedClaims, TLC

CONSTANTS d1, d2, u1, i1, c1

Comments(cmds) ==
  [type : {"issue_comment"}, parses : {TRUE}, action : {"created"},
   cmd : cmds, user : {u1}, issue : {i1}]

LogEvents == Comments({"log"})

=============================================================================
