----------------------------- MODULE TimeLedger -----------------------------
(***************************************************************************)
(* What /log, /correct and /delete promise: each command is one atomic     *)
(* change of the ledger, made at most once, on the author's most recent    *)
(* active row of the issue.  Webhook is checked to implement this when     *)
(* GitHub sends one request at a time and nothing fails.                   *)
(***************************************************************************)
EXTENDS Naturals, Sequences, FiniteSetsExt

CONSTANTS Delivery, User, Issue, Client, NoClient

VARIABLE rows

Applied(d) == \E k \in DOMAIN rows : rows[k].source = d

Active(u, i) ==
  {k \in DOMAIN rows :
     rows[k].user = u /\ rows[k].issue = i /\ rows[k].status = "active"}

Row(d, u, i, c) ==
  [source |-> d, user |-> u, issue |-> i, client |-> c,
   status |-> "active", supersededBy |-> 0]

Init == rows = <<>>

Log(d, u, i, c) ==
  /\ ~Applied(d)
  /\ rows' = Append(rows, Row(d, u, i, c))

Correct(d, u, i) ==
  /\ ~Applied(d)
  /\ Active(u, i) # {}
  /\ LET last == Max(Active(u, i))
     IN  rows' = Append([rows EXCEPT ![last].status = "superseded",
                                     ![last].supersededBy = Len(rows) + 1],
                        Row(d, u, i, rows[last].client))

Delete(u, i) ==
  /\ Active(u, i) # {}
  /\ rows' = [rows EXCEPT ![Max(Active(u, i))].status = "deleted"]

Next ==
  \E u \in User, i \in Issue :
    \/ \E d \in Delivery, c \in Client \cup {NoClient} : Log(d, u, i, c)
    \/ \E d \in Delivery : Correct(d, u, i)
    \/ Delete(u, i)

Spec == Init /\ [][Next]_rows

=============================================================================
