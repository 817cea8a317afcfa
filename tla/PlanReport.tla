----------------------------- MODULE PlanReport -----------------------------
(***************************************************************************)
(* Plan versus actual (ComputePlanVsActual of internal/planentry/store.go, *)
(* for the REST API, the Plans page and the dashboard) over the tables     *)
(* that the commands change at the same time.  The report takes its two    *)
(* numbers with two SELECTs and no transaction: a step each.               *)
(***************************************************************************)
EXTENDS Webhook, Minutes

CONSTANTS LogTyped, PlanTyped   \* the duration of every /log and /correct,
                                \* and of every /plan: [hours, minutes]

ASSUME TypedAssumption ==
  {LogTyped, PlanTyped} \subseteq [hours : Nat, minutes : Nat]

VARIABLE report

reportVars == <<vars, report>>

EntryMinutes == ParseDuration(LogTyped.hours, LogTyped.minutes)
PlanMinutes == ParseDuration(PlanTyped.hours, PlanTyped.minutes)

\* plan is 0 for nil.  open is not the code's: the corrections that had been
\* created but not linked when the second SELECT ran.
ReportInit ==
  report = [pc |-> "idle", issue |-> CHOOSE i \in Issue : TRUE, plan |-> 0,
            rows |-> {}, open |-> {}]

\* The first SELECT, LIMIT 1.
ActivePlan(i) == ActiveIn(plans, i)

ReadPlan(i) ==
  /\ report.pc = "idle"
  /\ \E k \in IF ActivePlan(i) = {} THEN {0} ELSE ActivePlan(i) :
       report' = [pc |-> "sum", issue |-> i, plan |-> k, rows |-> {},
                  open |-> {}]
  /\ UNCHANGED vars

\* Mutant of Counted: without status = 'active'.
CountedAll(i) == {k \in DOMAIN entries : entries[k].issue = i}

\* The rows of the second SELECT's SUM.
Counted(i) ==
  {k \in DOMAIN entries : entries[k].issue = i /\ entries[k].status = "active"}

ReadSum ==
  /\ report.pc = "sum"
  /\ report' = [report EXCEPT
       !.pc = "done",
       !.rows = Counted(report.issue),
       !.open = {<<req[r].prev, req[r].new>> :
                   r \in {q \in Request : req[q].pc = "supersede"}}]
  /\ UNCHANGED vars

\* What the report says.
Planned == IF report.plan = 0 THEN 0 ELSE PlanMinutes
Logged == EntryMinutes * Cardinality(report.rows)
Verdict == ClassifyStatus(Planned, Logged)

\* Commands come one at a time, with a report at any moment between their
\* statements.
ReportNext ==
  \/ SerialNext /\ UNCHANGED report
  \/ \E i \in Issue : ReadPlan(i)
  \/ ReadSum
ReportSpec == Init /\ ReportInit /\ [][ReportNext]_reportVars

\* The same with commands that overlap, fail and crash.
BusyNext ==
  \/ Next /\ UNCHANGED report
  \/ \E i \in Issue : ReadPlan(i)
  \/ ReadSum
BusyReportSpec == Init /\ ReportInit /\ [][BusyNext]_reportVars

----------------------------------------------------------------------------
\* A correction is never summed together with the entry it corrects, except by
\* a report that reads the table between the Create and the Supersede of that
\* /correct (handler.go:420-429, store.go:350-355).
NoChainCountedTwice ==
  \A d \in Delivery : \A c \in Answers(d) :
    /\ report.pc = "done" /\ c.kind = "corrected"
    /\ c.prev \in report.rows /\ c.new \in report.rows
    => <<c.prev, c.new>> \in report.open

\* The plan that a report reads is the last one the issue has had; and it
\* reads none only if there has been none or an /unplan has removed the last
\* one, never because that is being replaced (ReplacePlan is one transaction,
\* store.go:99-146, 333-348).
ReportsLatestPlan ==
  [][report.pc = "idle" /\ report'.pc # "idle" =>
       \A k \in DOMAIN plans :
         /\ plans[k].issue = report'.issue
         /\ \A j \in DOMAIN plans : plans[j].issue = report'.issue => j <= k
         => \/ report'.plan = k
            \/ report'.plan = 0 /\ plans[k].status = "deleted"]_reportVars

\* For plans of twenty minutes or more the verdict is the specification's:
\* within five per cent of the plan, or beyond it on either side, although the
\* code rounds the tolerance to whole minutes (store.go:368-385;
\* openspec/specs/time-planning/spec.md:108).
VerdictFollowsPercentage ==
  report.pc = "done" /\ Planned >= 20 =>
    Verdict = IF 100 * (Logged - Planned) > 5 * Planned THEN "over"
              ELSE IF 100 * (Planned - Logged) > 5 * Planned THEN "under"
              ELSE "on_target"

=============================================================================
