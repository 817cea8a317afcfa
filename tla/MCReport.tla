------------------------------ MODULE MCReport ------------------------------
(***************************************************************************)
(* An instance of PlanReport for TLC: one command at a time, and a report. *)
(***************************************************************************)
EXTENDS WebhookChecks, PlanReport, TLC

CONSTANTS d1, d2, d3, u1, u2, i1, i2, c1

\* Well-formed commands in new comments.
Comments(cmds, users, issues) ==
  [type : {"issue_comment"}, parses : {TRUE}, action : {"created"},
   cmd : cmds, user : users, issue : issues]

\* All commands: two users' time commands, and plans on two issues.
SerialEvents == Comments({"log", "correct", "delete"}, {u1, u2}, {i1})
                  \cup Comments({"plan", "unplan"}, {u1}, {i1})
                  \cup Comments({"plan"}, {u1}, {i2})

TwentyOne == [hours |-> 0, minutes |-> 21]
Twenty == [hours |-> 0, minutes |-> 20]

DeliverySymmetry == Permutations(Delivery)

=============================================================================
