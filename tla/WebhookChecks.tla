--------------------------- MODULE WebhookChecks ---------------------------
(***************************************************************************)
(* What the runs of Webhook check through other modules: the inductive     *)
(* invariants, the ledgers, and the walks over the chains.                 *)
(***************************************************************************)
EXTENDS WebhookInv, Ledgers, Chains

EntryLinks == [k \in DOMAIN entries |-> entries[k].supersededBy]
PlanLinks == [k \in DOMAIN plans |-> plans[k].supersededBy]

\* GetCorrectionChain and GetChain, asked about any row at any moment, end
\* and return that row within a chain in order of creation, however the
\* concurrent commands have overwritten superseded_by.
ChainsCanBeWalked ==
  /\ \A k \in DOMAIN entries : WalksWell(EntryLinks, k)
  /\ \A k \in DOMAIN plans : WalksWell(PlanLinks, k)

=============================================================================
