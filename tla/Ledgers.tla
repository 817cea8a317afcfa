------------------------------ MODULE Ledgers ------------------------------
(***************************************************************************)
(* How the tables of Webhook are seen as the ledgers that the commands     *)
(* implement when they come one at a time and nothing fails.               *)
(***************************************************************************)
EXTENDS Webhook

\* A correction takes effect in the ledger when its predecessor is superseded;
\* until then its new entry is not there yet.
Settled ==
  IF \E r \in Request : req[r].pc = "supersede"
    THEN SubSeq(entries, 1, Len(entries) - 1) ELSE entries

LedgerRow(e) == [source |-> e.source, user |-> e.user, issue |-> e.issue,
                 client |-> e.client, status |-> e.status,
                 supersededBy |-> e.supersededBy]

View(table) == [k \in DOMAIN table |-> LedgerRow(table[k])]

Ledger == INSTANCE TimeLedger WITH rows <- View(Settled)

\* Commands sent one at a time behave as the atomic commands of TimeLedger:
\* on the latest active entry, once each, all or nothing.
ImplementsTimeLedger == Ledger!Spec

PlanBook == INSTANCE PlanLedger WITH rows <- plans

\* Likewise for plans.
ImplementsPlanLedger == PlanBook!Spec

=============================================================================
