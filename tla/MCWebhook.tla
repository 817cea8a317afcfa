----------------------------- MODULE MCWebhook -----------------------------
(***************************************************************************)
(* Instances of Webhook for TLC: which events GitHub may send.             *)
(***************************************************************************)
EXTENDS WebhookChecks, TLC

CONSTANTS d1, d2, d3, d4, u1, u2, i1, i2, c1

\* Well-formed commands in new comments.
Comments(cmds, users, issues) ==
  [type : {"issue_comment"}, parses : {TRUE}, action : {"created"},
   cmd : cmds, user : users, issue : issues]

\* One user on one issue, and entries of another user and on another issue
\* that the user's commands must not touch.
TimeEvents == Comments({"log", "correct", "delete"}, {u1}, {i1})
                \cup Comments({"log"}, {u2}, {i1})
                \cup Comments({"log"}, {u1}, {i2})

\* One user, since plans belong to the issue, whoever records or removes
\* them; and a second issue, with /plan only.
PlanEvents == Comments({"plan", "unplan"}, {u1}, {i1})
                \cup Comments({"plan"}, {u1}, {i2})

\* Events that are acknowledged, or rejected, without a command: an edited
\* comment, a payload that is not JSON, an event type without a handler, a
\* comment without a command and one with a malformed command.
Plain == [type |-> "pull_request_review_comment", parses |-> TRUE,
          action |-> "created", cmd |-> "invalid", user |-> u1, issue |-> i1]
Noise == {Plain,
          [Plain EXCEPT !.cmd = "none"],
          [Plain EXCEPT !.cmd = "log", !.action = "edited"],
          [Plain EXCEPT !.cmd = "log", !.parses = FALSE],
          [Plain EXCEPT !.cmd = "log", !.type = "other"]}

TimeAndNoise == Comments({"log", "correct", "delete"}, {u1}, {i1}) \cup Noise

DeliverySymmetry == Permutations(Delivery)

=============================================================================
