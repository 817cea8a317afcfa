---------------------------- MODULE PlanCommands ----------------------------
(***************************************************************************)
(* /plan and /unplan (handlePlan and handleUnplan of                       *)
(* internal/webhook/handler.go) over the plan_entries table                *)
(* (internal/planentry/store.go).  ReplacePlan is one database transaction *)
(* and so one action; the lookup before it and the reply after it are      *)
(* actions of their own.  The label snapshot taken between them is data no *)
(* property here tells apart.                                              *)
(***************************************************************************)
EXTENDS WebhookDelivery

VARIABLE plans   \* plan_entries, in order of id

\* The delivery of the /unplan that closed a plan, if any.
Plan == [source : Delivery, user : User, issue : Issue,
         status : {"active", "superseded", "deleted"},
         supersededBy : Nat,
         closing : SUBSET Delivery]

PlanTypeOK == plans \in Seq(Plan)
PlanInit == plans = <<>>

\* Mutant of ActiveIn: the query forgets the issue.
ActiveAnywhere(table, i) == {k \in DOMAIN table : table[k].status = "active"}

ActiveIn(table, i) ==
  {k \in DOMAIN table : table[k].issue = i /\ table[k].status = "active"}

NewPlan(r) ==
  [source |-> r[1], user |-> EventOf(r).user, issue |-> EventOf(r).issue,
   status |-> "active", supersededBy |-> 0, closing |-> {}]

\* The first statement of ReplacePlan's transaction, for a non-nil prevID:
\* UPDATE plan_entries SET status = 'superseded' WHERE id = prev.
Retired(prev) ==
  IF prev = 0 THEN plans
  ELSE [plans EXCEPT ![prev] = [@ EXCEPT !.status = "superseded"]]

\* Mutant of Replaced: prev is not linked.
ReplacedUnlinked(r) == Append(Retired(req[r].prev), NewPlan(r))

\* The whole transaction: retire prev, insert the new plan, link prev to it.
Replaced(r) ==
  LET prev == req[r].prev
      retired == Retired(prev)
  IN  Append(IF prev = 0 THEN retired
             ELSE [retired EXCEPT ![prev] =
                     [@ EXCEPT !.supersededBy = Len(plans) + 1]],
             NewPlan(r))

\* Mutant of Conflict: there is no unique index.
NoConflict(r) == FALSE

\* uniq_active_plan rejects the INSERT when another active plan is left.
Conflict(r) == ActiveIn(Retired(req[r].prev), EventOf(r).issue) # {}

\* Mutant of Closed: the closing comment is not recorded.
ClosedWithoutComment(r) ==
  [plans EXCEPT ![req[r].prev] = [@ EXCEPT !.status = "deleted"]]

\* SoftDelete: UPDATE ... SET status, closing_comment_id WHERE id = prev.
Closed(r) ==
  [plans EXCEPT ![req[r].prev] = [@ EXCEPT !.status = "deleted",
                                           !.closing = {r[1]}]]

----------------------------------------------------------------------------
\* FindActive, of either handler.  Only /unplan needs a plan to exist.
FindPlan(r) ==
  /\ req[r].pc \in {"plan", "unplan"}
  /\ LET found == ActiveIn(plans, EventOf(r).issue)
         next  == IF req[r].pc = "plan" THEN "replace" ELSE "softdeleteplan"
     IN  IF found # {}
           THEN \E k \in found :
                  req' = [req EXCEPT ![r] = [@ EXCEPT !.pc = next, !.prev = k]]
           ELSE IF req[r].pc = "plan" THEN Goto(r, next) ELSE ReplyError(r)
  /\ UNCHANGED <<event, deliveries, comments, plans>>

FindPlanFails(r) ==
  /\ req[r].pc \in {"plan", "unplan"}
  /\ ReplyError(r)
  /\ UNCHANGED <<event, deliveries, comments, plans>>

\* Mutant of ReplacePlan: the error of the transaction is not looked at.
ReplacePlanUnchecked(r) ==
  /\ req[r].pc = "replace"
  /\ plans' = IF Conflict(r) THEN plans ELSE Replaced(r)
  /\ req' = [req EXCEPT ![r] =
       [@ EXCEPT !.pc = "post", !.new = Len(plans) + 1,
                 !.reply = IF req[r].prev = 0 THEN "planned" ELSE "replanned"]]
  /\ UNCHANGED <<event, deliveries, comments>>

\* Mutant of ReplacePlan: its first statement commits by itself.
ReplacePlanInSteps(r) ==
  /\ req[r].pc = "replace"
  /\ IF Retired(req[r].prev) # plans
       THEN plans' = Retired(req[r].prev) /\ UNCHANGED req
       ELSE /\ plans' = Replaced(r)
            /\ req' = [req EXCEPT ![r] =
                 [@ EXCEPT !.pc = "post", !.new = Len(plans) + 1,
                           !.reply = "replanned"]]
  /\ UNCHANGED <<event, deliveries, comments>>

\* ReplacePlan commits, or the unique index makes it roll back.
ReplacePlan(r) ==
  /\ req[r].pc = "replace"
  /\ IF Conflict(r)
       THEN ReplyError(r) /\ UNCHANGED plans
       ELSE /\ plans' = Replaced(r)
            /\ req' = [req EXCEPT ![r] =
                 [@ EXCEPT !.pc = "post", !.new = Len(plans) + 1,
                           !.reply = IF req[r].prev = 0
                                       THEN "planned" ELSE "replanned"]]
  /\ UNCHANGED <<event, deliveries, comments>>

\* A statement of the transaction fails and it is rolled back, or COMMIT
\* takes effect but its acknowledgement is lost.
ReplacePlanFails(r) ==
  /\ req[r].pc = "replace"
  /\ \/ UNCHANGED plans
     \/ ~Conflict(r) /\ plans' = Replaced(r)
  /\ ReplyError(r)
  /\ UNCHANGED <<event, deliveries, comments>>

SoftDeletePlan(r) ==
  /\ req[r].pc = "softdeleteplan"
  /\ plans' = Closed(r)
  /\ ReplyWith(r, "removed")
  /\ UNCHANGED <<event, deliveries, comments>>

SoftDeletePlanFails(r) ==
  /\ req[r].pc = "softdeleteplan"
  /\ plans' \in {plans, Closed(r)}
  /\ ReplyError(r)
  /\ UNCHANGED <<event, deliveries, comments>>

PlanStep(r) == FindPlan(r) \/ ReplacePlan(r) \/ SoftDeletePlan(r)

PlanFault(r) == FindPlanFails(r) \/ ReplacePlanFails(r) \/ SoftDeletePlanFails(r)

=============================================================================
