----------------------------- MODULE PlanLedger -----------------------------
(***************************************************************************)
(* What /plan and /unplan promise: /plan replaces the issue's active plan, *)
(* if there is one, and links it to its successor; /unplan closes it.      *)
(***************************************************************************)
EXTENDS Naturals, Sequences

CONSTANTS Delivery, User, Issue

VARIABLE rows

Active(i) == {k \in DOMAIN rows : rows[k].issue = i /\ rows[k].status = "active"}

Row(d, u, i) ==
  [source |-> d, user |-> u, issue |-> i,
   status |-> "active", supersededBy |-> 0, closing |-> {}]

Init == rows = <<>>

Plan(d, u, i) ==
  /\ \A k \in DOMAIN rows : rows[k].source # d
  /\ rows' = Append([k \in DOMAIN rows |->
                       IF k \in Active(i)
                         THEN [rows[k] EXCEPT !.status = "superseded",
                                              !.supersededBy = Len(rows) + 1]
                         ELSE rows[k]],
                    Row(d, u, i))

Unplan(d, i) ==
  \E k \in Active(i) :
    rows' = [rows EXCEPT ![k].status = "deleted", ![k].closing = {d}]

Next == \E d \in Delivery, i \in Issue :
          \/ \E u \in User : Plan(d, u, i)
          \/ Unplan(d, i)

Spec == Init /\ [][Next]_rows

=============================================================================
