-------------------------- MODULE DocumentedClaims --------------------------
(***************************************************************************)
(* What the documentation says of the commands where the code, read        *)
(* closely, does something else.  A run refutes it.                         *)
(***************************************************************************)
EXTENDS Webhook

\* docs/reference/webhook-idempotency.md:8: every command "is processed
\* exactly once even though GitHub may deliver the same event multiple times".
\* Once every request for a delivery is over and one was answered 200 (so
\* that GitHub is content), the command has been carried out or rejected, and
\* the thread says which.
AcknowledgedIsProcessed ==
  \A r \in Request :
    (req[r].pc = "ok" /\ ~Ignored(EventOf(r)) /\ Quiet)
      => comments[r[1]] # <<>>

=============================================================================
