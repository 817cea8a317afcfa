----------------------------- MODULE WebhookInv -----------------------------
(***************************************************************************)
(* The inductive invariants behind the properties of Webhook: what holds   *)
(* between the goroutines' locals and the tables while requests are in     *)
(* flight.  WebhookProofs and ChainProofs prove them.                      *)
(***************************************************************************)
EXTENDS Webhook

\* Where a goroutine has not yet written the row it may create.
Uncreated == Commands \cup {"dispatch", "relabel", "insert", "replace"}

Known == deliveries \cup NoHeader
Owns(r) == req[r].pc \in Working /\ r[1] \notin NoHeader

\* The claim is a lock that is never released: past it there is at most one
\* goroutine per delivery, which alone can write for the delivery, and has
\* neither written nor answered before it gets to those steps.
ClaimInv ==
  /\ \A r \in Request : Owns(r) => r[1] \in deliveries
  /\ \A r, s \in Request : Owns(r) /\ Owns(s) /\ r[1] = s[1] => r = s
  /\ \A r \in Request : Owns(r) /\ req[r].pc \in Uncreated =>
       /\ \A k \in DOMAIN entries : entries[k].source # r[1]
       /\ \A k \in DOMAIN plans : plans[k].source # r[1]
  /\ \A r \in Request : Owns(r) => comments[r[1]] = <<>>
  /\ EffectsAreClaimed
  /\ OneRowPerDelivery
  /\ OneReplyPerDelivery

\* The step a goroutine is at determines its command, as far as the steps of
\* the time commands need it.
AtItsCommand(r) ==
  /\ req[r].pc \in Commands => req[r].pc = EventOf(r).cmd
  /\ req[r].pc \in {"relabel", "supersede"} => EventOf(r).cmd = "correct"
  /\ req[r].pc = "softdelete" => EventOf(r).cmd = "delete"

\* r has looked up an entry and will act on it.
HasPrev(r) ==
  \/ req[r].pc \in {"relabel", "supersede", "softdelete"}
  \/ req[r].pc = "insert" /\ EventOf(r).cmd = "correct"

\* That entry is the author's, on the issue, and a correction of it will have
\* its client, however long ago it was looked up.
PrevInv(r) ==
  HasPrev(r) =>
    /\ req[r].prev \in DOMAIN entries
    /\ entries[req[r].prev].user = EventOf(r).user
    /\ entries[req[r].prev].issue = EventOf(r).issue
    /\ req[r].pc # "softdelete" => entries[req[r].prev].client = req[r].client

\* A correction between Create and Supersede: its entry is later than the one
\* it corrects, alike in owner and client, and nobody's successor yet.
NewInv(r) ==
  req[r].pc = "supersede" =>
    /\ req[r].new \in DOMAIN entries
    /\ req[r].prev < req[r].new
    /\ entries[req[r].new].user = EventOf(r).user
    /\ entries[req[r].new].issue = EventOf(r).issue
    /\ entries[req[r].new].client = req[r].client
    /\ \A k \in DOMAIN entries : entries[k].supersededBy # req[r].new

ChainInv ==
  /\ \A r \in Request : AtItsCommand(r) /\ PrevInv(r) /\ NewInv(r)
  /\ \A r, s \in Request :
       /\ req[r].pc = "supersede" /\ req[s].pc = "supersede"
       /\ req[r].new = req[s].new
       => r = s
  /\ ChainKeepsOwnerAndClient
  /\ ChainsNeverMerge

\* A goroutine has found no plan before it looks for one, and acts on the
\* one it found then; by now that plan may be superseded or deleted, but it
\* still belongs to the issue.
PlanPrevInv(r) ==
  /\ req[r].pc \in {"unsent", "claim", "dispatch", "plan", "unplan"} =>
       req[r].prev = 0
  /\ req[r].pc \in {"replace", "softdeleteplan"} /\ req[r].prev # 0 =>
       /\ req[r].prev \in DOMAIN plans
       /\ plans[req[r].prev].issue = EventOf(r).issue

PlanInv ==
  /\ \A r \in Request : PlanPrevInv(r)
  /\ PlanChains
  /\ PlanStatusMatchesLink
  /\ OneActivePlan

=============================================================================
