--------------------------- MODULE WebhookProofs ---------------------------
(***************************************************************************)
(* What every other proof about Webhook rests on, for every set of         *)
(* deliveries, users, issues and clients, every set of events and every    *)
(* bound on the number of attempts: lemmas on tables and on goroutines;    *)
(* type correctness; the claim, which makes deliveries idempotent; and     *)
(* plans, of which an issue has at most one that is active, and whose      *)
(* chains are sound (PlanInv is inductive).                                *)
(***************************************************************************)
EXTENDS WebhookInv, TLAPS

----------------------------------------------------------------------------
\* Tables

\* INSERT: the rows keep their places and the new one comes last.
LEMMA InsertRow ==
  ASSUME NEW S, NEW t \in Seq(S), NEW e \in S
  PROVE  /\ Append(t, e) \in Seq(S)
         /\ DOMAIN Append(t, e) = 1 .. Len(t) + 1
         /\ DOMAIN t = 1 .. Len(t)
         /\ Len(t) \in Nat
         /\ \A k \in DOMAIN t : k \in DOMAIN Append(t, e) /\ Append(t, e)[k] = t[k]
         /\ Append(t, e)[Len(t) + 1] = e
  OBVIOUS

\* The columns no UPDATE of time_entries, or of plan_entries, names.
SameFacts(a, b) ==
  /\ a.source = b.source /\ a.user = b.user /\ a.issue = b.issue
  /\ a.client = b.client /\ a.createdAt = b.createdAt

SamePlanFacts(a, b) ==
  a.source = b.source /\ a.user = b.user /\ a.issue = b.issue

\* UPDATE ... WHERE id = i: only row i changes, and none does when there is
\* no such row.
LEMMA UpdateRow ==
  ASSUME NEW S, NEW t \in Seq(S), NEW i, NEW e, i \in DOMAIN t => e \in S
  PROVE  /\ [t EXCEPT ![i] = e] \in Seq(S)
         /\ DOMAIN [t EXCEPT ![i] = e] = DOMAIN t
         /\ Len([t EXCEPT ![i] = e]) = Len(t)
         /\ \A k \in DOMAIN t :
              [t EXCEPT ![i] = e][k] = IF k = i THEN e ELSE t[k]
  <1> DEFINE u == [t EXCEPT ![i] = e]
  <1>1. t \in [1 .. Len(t) -> S] /\ Len(t) \in Nat
    OBVIOUS
  <1>2. u \in [1 .. Len(t) -> S]
    BY <1>1
  <1>3. u \in Seq(S) /\ Len(u) = Len(t)
    BY <1>1, <1>2
  <1> QED
    BY <1>1, <1>2, <1>3

\* Supersede and SoftDelete change status and superseded_by of one row.
LEMMA EntryUpdates ==
  ASSUME TimeTypeOK, NEW old \in Nat, NEW new \in Nat
  PROVE  /\ Superseded(old, new) \in Seq(Entry)
         /\ DOMAIN Superseded(old, new) = DOMAIN entries
         /\ \A k \in DOMAIN entries :
              /\ k # old => Superseded(old, new)[k] = entries[k]
              /\ SameFacts(Superseded(old, new)[k], entries[k])
              /\ k = old => /\ Superseded(old, new)[k].status = "superseded"
                            /\ Superseded(old, new)[k].supersededBy = new
         /\ SoftDeleted(old) \in Seq(Entry)
         /\ DOMAIN SoftDeleted(old) = DOMAIN entries
         /\ \A k \in DOMAIN entries :
              /\ k # old => SoftDeleted(old)[k] = entries[k]
              /\ SameFacts(SoftDeleted(old)[k], entries[k])
              /\ SoftDeleted(old)[k].supersededBy = entries[k].supersededBy
              /\ k = old => SoftDeleted(old)[k].status = "deleted"
  <1>1. \A k \in DOMAIN entries : entries[k] \in Entry
    BY DEF TimeTypeOK
  <1>2. PICK e : e = entries[old]
    OBVIOUS
  <1> DEFINE s == [e EXCEPT !.status = "superseded", !.supersededBy = new]
             d == [e EXCEPT !.status = "deleted"]
  <1>3. e \in Entry => /\ s \in Entry /\ SameFacts(s, e)
                       /\ s.status = "superseded" /\ s.supersededBy = new
    BY DEF Entry, Status, SameFacts
  <1>4. e \in Entry => /\ d \in Entry /\ SameFacts(d, e)
                       /\ d.status = "deleted" /\ d.supersededBy = e.supersededBy
    BY DEF Entry, Status, SameFacts
  <1>5. Superseded(old, new) = [entries EXCEPT ![old] = s]
    BY <1>2 DEF Superseded
  <1>6. SoftDeleted(old) = [entries EXCEPT ![old] = d]
    BY <1>2 DEF SoftDeleted
  <1>7. \A k \in DOMAIN entries : SameFacts(entries[k], entries[k])
    BY DEF SameFacts
  <1> HIDE DEF s, d
  <1>8. /\ [entries EXCEPT ![old] = s] \in Seq(Entry)
        /\ DOMAIN [entries EXCEPT ![old] = s] = DOMAIN entries
        /\ \A k \in DOMAIN entries :
             [entries EXCEPT ![old] = s][k] = IF k = old THEN s ELSE entries[k]
    BY <1>1, <1>2, <1>3, UpdateRow DEF TimeTypeOK
  <1>9. /\ [entries EXCEPT ![old] = d] \in Seq(Entry)
        /\ DOMAIN [entries EXCEPT ![old] = d] = DOMAIN entries
        /\ \A k \in DOMAIN entries :
             [entries EXCEPT ![old] = d][k] = IF k = old THEN d ELSE entries[k]
    BY <1>1, <1>2, <1>4, UpdateRow DEF TimeTypeOK
  <1> QED
    BY <1>1, <1>2, <1>3, <1>4, <1>5, <1>6, <1>7, <1>8, <1>9

\* ReplacePlan and SoftDelete change one row, and ReplacePlan adds one.
LEMMA PlanUpdates ==
  ASSUME PlanTypeOK, NEW r \in Request, WebhookTypeOK
  PROVE  /\ Closed(r) \in Seq(Plan)
         /\ DOMAIN Closed(r) = DOMAIN plans
         /\ \A k \in DOMAIN plans :
              /\ k # req[r].prev => Closed(r)[k] = plans[k]
              /\ SamePlanFacts(Closed(r)[k], plans[k])
              /\ Closed(r)[k].supersededBy = plans[k].supersededBy
              /\ k = req[r].prev => /\ Closed(r)[k].status = "deleted"
                                    /\ Closed(r)[k].closing = {r[1]}
         /\ DOMAIN plans = 1 .. Len(plans)
         /\ Len(plans) \in Nat
         /\ Replaced(r) \in Seq(Plan)
         /\ DOMAIN Replaced(r) = 1 .. Len(plans) + 1
         /\ Replaced(r)[Len(plans) + 1] = NewPlan(r)
         /\ \A k \in DOMAIN plans :
              /\ k # req[r].prev => Replaced(r)[k] = plans[k]
              /\ SamePlanFacts(Replaced(r)[k], plans[k])
              /\ Replaced(r)[k].closing = plans[k].closing
              /\ k = req[r].prev => /\ Replaced(r)[k].status = "superseded"
                                    /\ Replaced(r)[k].supersededBy = Len(plans) + 1
         /\ DOMAIN Retired(req[r].prev) = DOMAIN plans
         /\ \A k \in DOMAIN plans :
              /\ k # req[r].prev => Retired(req[r].prev)[k] = plans[k]
              /\ SamePlanFacts(Retired(req[r].prev)[k], plans[k])
  <1>1. /\ \A k \in DOMAIN plans : plans[k] \in Plan
        /\ DOMAIN plans = 1 .. Len(plans) /\ Len(plans) \in Nat
        /\ plans \in Seq(Plan)
    BY DEF PlanTypeOK
  <1>2. PICK i : i = req[r].prev
    OBVIOUS
  <1>3. PICK p : p = plans[i]
    OBVIOUS
  <1>4. PICK n : n = Len(plans) + 1
    OBVIOUS
  <1>5. /\ {r[1]} \in SUBSET Delivery
        /\ EventOf(r) \in Payload
        /\ i \in Nat /\ n \in Nat
    BY <1>1, <1>2, <1>4, EventAssumption
    DEF WebhookTypeOK, Request, EventOf, Goroutine
  <1> DEFINE c == [p EXCEPT !.status = "deleted", !.closing = {r[1]}]
             a == [p EXCEPT !.status = "superseded"]
             b == [p EXCEPT !.status = "superseded", !.supersededBy = n]
  <1>6. p \in Plan =>
          /\ c \in Plan /\ SamePlanFacts(c, p) /\ c.supersededBy = p.supersededBy
          /\ c.status = "deleted" /\ c.closing = {r[1]}
    <2> SUFFICES ASSUME p \in Plan
                 PROVE  /\ c \in Plan /\ SamePlanFacts(c, p)
                        /\ c.supersededBy = p.supersededBy
                        /\ c.status = "deleted" /\ c.closing = {r[1]}
      OBVIOUS
    <2>1. c \in Plan
      BY <1>5 DEF Plan
    <2> QED
      BY <2>1 DEF Plan, SamePlanFacts
  <1>7. p \in Plan => a \in Plan /\ SamePlanFacts(a, p)
    BY DEF Plan, SamePlanFacts
  <1>8. p \in Plan =>
          /\ b \in Plan /\ SamePlanFacts(b, p) /\ b.closing = p.closing
          /\ b.status = "superseded" /\ b.supersededBy = n
    BY <1>5 DEF Plan, SamePlanFacts
  <1>9. NewPlan(r) \in Plan
    BY <1>5 DEF NewPlan, Plan, Payload
  <1>10. \A k \in DOMAIN plans : SamePlanFacts(plans[k], plans[k])
    BY DEF SamePlanFacts
  <1>11. [a EXCEPT !.supersededBy = n] = b
    BY DEF Plan
  <1>12. Closed(r) = [plans EXCEPT ![i] = c]
    BY <1>2, <1>3 DEF Closed
  <1>13. Retired(i) = IF i = 0 THEN plans ELSE [plans EXCEPT ![i] = a]
    BY <1>3 DEF Retired
  <1> DEFINE linked == IF i = 0 THEN Retired(i)
                       ELSE [Retired(i) EXCEPT ![i] = [@ EXCEPT !.supersededBy = n]]
  <1>14. Replaced(r) = Append(linked, NewPlan(r))
    BY <1>2, <1>4 DEF Replaced
  <1>15. i \in DOMAIN plans => i # 0 /\ p \in Plan
    BY <1>1, <1>3
  <1>16. linked = IF i = 0 THEN Retired(i)
                  ELSE [Retired(i) EXCEPT ![i] = [Retired(i)[i] EXCEPT !.supersededBy = n]]
    OBVIOUS
  <1> HIDE DEF a, b, c, linked
  <1>17. /\ Closed(r) \in Seq(Plan)
         /\ DOMAIN Closed(r) = DOMAIN plans
         /\ \A k \in DOMAIN plans : Closed(r)[k] = IF k = i THEN c ELSE plans[k]
    BY <1>1, <1>6, <1>12, <1>15, UpdateRow
  <1>18. /\ Retired(i) \in Seq(Plan)
         /\ DOMAIN Retired(i) = DOMAIN plans
         /\ Len(Retired(i)) = Len(plans)
         /\ \A k \in DOMAIN plans : Retired(i)[k] = IF k = i THEN a ELSE plans[k]
    <2>1. CASE i = 0
      BY <1>1, <1>13, <2>1
    <2>2. CASE i # 0
      BY <1>1, <1>7, <1>13, <1>15, <2>2, UpdateRow
    <2> QED
      BY <2>1, <2>2
  <1>19. /\ linked \in Seq(Plan)
         /\ DOMAIN linked = DOMAIN plans
         /\ Len(linked) = Len(plans)
         /\ \A k \in DOMAIN plans : linked[k] = IF k = i THEN b ELSE plans[k]
    <2>1. CASE i = 0
      BY <1>1, <1>15, <1>16, <1>18, <2>1
    <2>2. CASE i # 0
      <3>1. PICK x : x = [Retired(i)[i] EXCEPT !.supersededBy = n]
        OBVIOUS
      <3>2. linked = [Retired(i) EXCEPT ![i] = x]
        BY <1>16, <2>2, <3>1
      <3>3. i \in DOMAIN plans => x = b
        BY <1>11, <1>18, <3>1
      <3> QED
        BY <1>1, <1>8, <1>15, <1>18, <3>2, <3>3, UpdateRow
    <2> QED
      BY <2>1, <2>2
  <1>20. /\ Replaced(r) \in Seq(Plan)
         /\ DOMAIN Replaced(r) = 1 .. Len(plans) + 1
         /\ Replaced(r)[Len(plans) + 1] = NewPlan(r)
         /\ \A k \in DOMAIN plans : Replaced(r)[k] = linked[k]
    BY <1>1, <1>9, <1>14, <1>19, InsertRow
  <1>21. \A k \in DOMAIN plans : k = i => plans[k] = p /\ p \in Plan
    BY <1>1, <1>3
  <1>22. /\ \A k \in DOMAIN plans :
              /\ k # i => Closed(r)[k] = plans[k]
              /\ SamePlanFacts(Closed(r)[k], plans[k])
              /\ Closed(r)[k].supersededBy = plans[k].supersededBy
              /\ k = i => Closed(r)[k].status = "deleted" /\ Closed(r)[k].closing = {r[1]}
         /\ \A k \in DOMAIN plans :
              /\ k # i => Retired(i)[k] = plans[k]
              /\ SamePlanFacts(Retired(i)[k], plans[k])
    BY <1>6, <1>7, <1>10, <1>17, <1>18, <1>21
  <1>23. \A k \in DOMAIN plans :
           /\ k # i => Replaced(r)[k] = plans[k]
           /\ SamePlanFacts(Replaced(r)[k], plans[k])
           /\ Replaced(r)[k].closing = plans[k].closing
           /\ k = i => /\ Replaced(r)[k].status = "superseded"
                       /\ Replaced(r)[k].supersededBy = n
    BY <1>8, <1>10, <1>19, <1>20, <1>21
  <1> QED
    BY <1>1, <1>2, <1>4, <1>17, <1>18, <1>20, <1>22, <1>23

----------------------------------------------------------------------------
\* Types

\* A goroutine's step replaces its own record and no other.
LEMMA OwnRecord ==
  ASSUME WebhookTypeOK, NEW r \in Request, NEW g \in Goroutine,
         req' = [req EXCEPT ![r] = g],
         g.pc = "post" => g.reply # "none"
  PROVE  /\ req' \in [Request -> Goroutine]
         /\ \A s \in Request : req'[s].pc = "post" => req'[s].reply # "none"
         /\ req'[r] = g
         /\ \A s \in Request : s # r => req'[s] = req[s]
  BY DEF WebhookTypeOK

LEMMA Facts ==
  ASSUME WebhookTypeOK, NEW r \in Request
  PROVE  /\ req[r] \in Goroutine
         /\ r[1] \in Delivery
         /\ EventOf(r) \in Payload
         /\ \A pc : Fresh(pc).pc = pc
         /\ Fresh("ok") \in Goroutine /\ Fresh("dead") \in Goroutine
         /\ Fresh("unauthorized") \in Goroutine /\ Fresh("failed") \in Goroutine
         /\ [Fresh("post") EXCEPT !.reply = "error"] \in Goroutine
         /\ [Fresh("post") EXCEPT !.reply = "error"].pc = "post"
         /\ [Fresh("post") EXCEPT !.reply = "error"].reply = "error"
  BY EventAssumption
  DEF WebhookTypeOK, Request, EventOf, Fresh, Goroutine, Working, Over,
      Commands, ReplyKinds

\* What a goroutine remembers of the row it created.
LEMMA Created ==
  ASSUME NEW g \in Goroutine, NEW n \in Nat, NEW kind \in ReplyKinds
  PROVE  /\ [g EXCEPT !.pc = "post", !.new = n, !.reply = kind] \in Goroutine
         /\ [g EXCEPT !.pc = "post", !.new = n, !.reply = kind].reply # "none"
         /\ [g EXCEPT !.pc = "supersede", !.new = n] \in Goroutine
         /\ [g EXCEPT !.pc = "supersede", !.new = n].pc # "post"
  <1>1. "post" \in Working /\ "supersede" \in Working /\ kind # "none"
    BY DEF Working, ReplyKinds
  <1> QED
    BY <1>1 DEF Goroutine

LEMMA Replying ==
  ASSUME NEW g \in Goroutine, NEW kind
  PROVE  /\ [g EXCEPT !.pc = "post", !.reply = kind].pc = "post"
         /\ \A n : [g EXCEPT !.pc = "post", !.new = n, !.reply = kind].pc = "post"
  BY DEF Goroutine

LEMMA ReplyMoves ==
  ASSUME NEW r \in Request, req \in [Request -> Goroutine],
         NEW kind, ReplyWith(r, kind)
  PROVE  \E g : req' = [req EXCEPT ![r] = g] /\ g.pc = "post"
  <1>1. PICK h \in Goroutine : h = req[r]
    OBVIOUS
  <1> DEFINE g == [h EXCEPT !.pc = "post", !.reply = kind]
  <1>2. g.pc = "post"
    BY <1>1 DEF Goroutine
  <1>3. req' = [req EXCEPT ![r] = g]
    BY <1>1 DEF ReplyWith
  <1> QED
    BY <1>2, <1>3

\* The fields of a goroutine's record after the steps that the handlers share.
LEMMA Records ==
  ASSUME WebhookTypeOK, NEW r \in Request
  PROVE  /\ \A pc : Goto(r, pc) =>
              /\ req'[r].pc = pc
              /\ req'[r].prev = req[r].prev
              /\ \A s \in Request : s # r => req'[s] = req[s]
         /\ \A pc : End(r, pc) =>
              /\ req'[r].pc = pc
              /\ \A s \in Request : s # r => req'[s] = req[s]
         /\ \A kind : ReplyWith(r, kind) =>
              /\ req'[r].pc = "post"
              /\ \A s \in Request : s # r => req'[s] = req[s]
         /\ ReplyError(r) =>
              /\ req'[r].pc = "post"
              /\ \A s \in Request : s # r => req'[s] = req[s]
  <1>1. PICK h \in Goroutine : h = req[r]
    BY DEF WebhookTypeOK
  <1>2. ASSUME NEW g, req' = [req EXCEPT ![r] = g]
        PROVE  req'[r] = g /\ \A s \in Request : s # r => req'[s] = req[s]
    BY <1>2 DEF WebhookTypeOK
  <1>3. ASSUME NEW pc, Goto(r, pc)
        PROVE  /\ req'[r].pc = pc /\ req'[r].prev = req[r].prev
               /\ \A s \in Request : s # r => req'[s] = req[s]
    <2> DEFINE g == [h EXCEPT !.pc = pc]
    <2>1. g.pc = pc /\ g.prev = h.prev
      BY DEF Goroutine
    <2>2. req' = [req EXCEPT ![r] = g]
      BY <1>1, <1>3 DEF Goto
    <2> HIDE DEF g
    <2> QED
      BY <1>1, <1>2, <2>1, <2>2
  <1>4. ASSUME NEW kind, ReplyWith(r, kind)
        PROVE  /\ req'[r].pc = "post"
               /\ \A s \in Request : s # r => req'[s] = req[s]
    <2> DEFINE g == [h EXCEPT !.pc = "post", !.reply = kind]
    <2>1. g.pc = "post"
      BY DEF Goroutine
    <2>2. req' = [req EXCEPT ![r] = g]
      BY <1>1, <1>4 DEF ReplyWith
    <2> HIDE DEF g
    <2> QED
      BY <1>2, <2>1, <2>2
  <1>5. ASSUME NEW pc, End(r, pc)
        PROVE  /\ req'[r].pc = pc
               /\ \A s \in Request : s # r => req'[s] = req[s]
    BY <1>2, <1>5 DEF End, Fresh
  <1>6. ASSUME ReplyError(r)
        PROVE  /\ req'[r].pc = "post"
               /\ \A s \in Request : s # r => req'[s] = req[s]
    BY <1>2, <1>6, Facts DEF ReplyError
  <1> QED
    BY <1>3, <1>4, <1>5, <1>6

\* The ways in which a goroutine's record changes without its rows.
LEMMA Moves ==
  ASSUME WebhookTypeOK, NEW r \in Request,
         UNCHANGED <<event, deliveries, comments>>,
         \/ \E pc \in (Working \ {"post"}) \cup {"claim"} : Goto(r, pc)
         \/ \E pc \in Over : End(r, pc)
         \/ \E kind \in ReplyKinds : ReplyWith(r, kind)
         \/ ReplyError(r)
  PROVE  WebhookTypeOK'
  <1>1. req[r] \in Goroutine
    BY Facts
  <1>2. ASSUME NEW pc \in (Working \ {"post"}) \cup {"claim"}, Goto(r, pc) PROVE WebhookTypeOK'
    <2>1. [req[r] EXCEPT !.pc = pc] \in Goroutine /\ pc # "post"
      BY <1>1 DEF Goroutine
    <2> QED
      BY <1>2, <2>1, OwnRecord DEF Goto, WebhookTypeOK
  <1>3. ASSUME NEW pc \in Over, End(r, pc) PROVE WebhookTypeOK'
    <2>1. Fresh(pc) \in Goroutine /\ Fresh(pc).pc # "post"
      BY Facts DEF Over
    <2> QED
      BY <1>3, <2>1, OwnRecord DEF End, WebhookTypeOK
  <1>4. ASSUME NEW kind \in ReplyKinds, ReplyWith(r, kind) PROVE WebhookTypeOK'
    <2>1. /\ [req[r] EXCEPT !.pc = "post", !.reply = kind] \in Goroutine
          /\ [req[r] EXCEPT !.pc = "post", !.reply = kind].reply # "none"
      BY <1>1 DEF Goroutine, Working, ReplyKinds
    <2> QED
      BY <1>4, <2>1, OwnRecord DEF ReplyWith, WebhookTypeOK
  <1>5. ASSUME ReplyError(r) PROVE WebhookTypeOK'
    BY <1>5, Facts, OwnRecord DEF ReplyError, WebhookTypeOK
  <1> QED
    BY <1>2, <1>3, <1>4, <1>5

LEMMA DeliveryTypes ==
  ASSUME WebhookTypeOK, NEW r \in Request,
         \/ Receive(r) \/ RejectSignature(r) \/ Claim(r) \/ ClaimFails(r)
         \/ Dispatch(r) \/ Post(r) \/ PostFails(r) \/ Crash(r)
  PROVE  WebhookTypeOK'
  <1>1. r[1] \in Delivery /\ req[r] \in Goroutine
    BY Facts
  <1>2. CASE Receive(r)
    BY <1>2, Moves DEF Receive
  <1>3. CASE RejectSignature(r)
    BY <1>3, Moves DEF RejectSignature, Over
  <1>4. CASE Claim(r) \/ ClaimFails(r)
    <2>1. deliveries' \subseteq Delivery
      BY <1>1, <1>4 DEF Claim, ClaimFails, WebhookTypeOK
    <2>2. End(r, "ok") \/ End(r, "failed") \/ Goto(r, "dispatch")
      BY <1>4 DEF Claim, ClaimFails
    <2>3. \E g \in Goroutine : req' = [req EXCEPT ![r] = g] /\ g.pc # "post"
      <3>1. /\ [req[r] EXCEPT !.pc = "dispatch"] \in Goroutine
            /\ [req[r] EXCEPT !.pc = "dispatch"].pc # "post"
        BY <1>1 DEF Goroutine, Working
      <3> QED
        BY <2>2, <3>1, Facts DEF End, Goto
    <2>4. event' = event /\ comments' = comments
      BY <1>4 DEF Claim, ClaimFails
    <2> QED
      BY <2>1, <2>3, <2>4, OwnRecord DEF WebhookTypeOK
  <1>5. CASE Dispatch(r)
    <2>1. Commands \subseteq Working \ {"post"}
      BY DEF Working, Commands
    <2> QED
      BY <1>5, <2>1, Moves DEF Dispatch, Over
  <1>6. CASE Post(r)
    <2>1. Reply(r) \in Comment
      BY <1>1, <1>6 DEF Goroutine, Comment, Reply, Post, WebhookTypeOK
    <2>2. comments' \in [Delivery -> Seq(Comment)]
      <3>1. comments[r[1]] \in Seq(Comment)
        BY <1>1 DEF WebhookTypeOK
      <3>2. Append(comments[r[1]], Reply(r)) \in Seq(Comment)
        BY <2>1, <3>1
      <3> QED
        BY <1>6, <3>2 DEF Post, WebhookTypeOK
    <2>3. Fresh("ok").pc # "post" /\ Fresh("ok") \in Goroutine
      BY Facts
    <2> QED
      BY <1>6, <2>2, <2>3, OwnRecord DEF Post, End, WebhookTypeOK
  <1>7. CASE PostFails(r)
    BY <1>7, Moves DEF PostFails, Over
  <1>8. CASE Crash(r)
    BY <1>8, Moves DEF Crash, Over
  <1> QED
    BY <1>2, <1>3, <1>4, <1>5, <1>6, <1>7, <1>8

LEMMA TimeTypes ==
  ASSUME TypeOK, NEW r \in Request, TimeStep(r) \/ TimeFault(r)
  PROVE  WebhookTypeOK' /\ TimeTypeOK'
  <1> USE DEF TypeOK
  <1>1. req[r] \in Goroutine /\ r[1] \in Delivery /\ EventOf(r) \in Payload
    BY Facts
  <1>2. Len(entries) \in Nat /\ \A k \in DOMAIN entries : k \in Nat /\ entries[k] \in Entry
    BY DEF TimeTypeOK
  <1>3. NewEntry(r) \in Entry
    BY <1>1 DEF NewEntry, Entry, Status, Payload, Goroutine
  <1>4. Append(entries, NewEntry(r)) \in Seq(Entry)
    BY <1>3 DEF TimeTypeOK
  <1>5. /\ Superseded(req[r].prev, req[r].new) \in Seq(Entry)
        /\ SoftDeleted(req[r].prev) \in Seq(Entry)
    BY <1>1, EntryUpdates DEF Goroutine
  <1>6. CASE LabelLog(r)
    <2>1. PICK c \in Client \cup {NoClient} :
            req' = [req EXCEPT ![r] = [@ EXCEPT !.pc = "insert", !.client = c,
                                                !.since = Len(entries)]]
      BY <1>6 DEF LabelLog
    <2> DEFINE g == [req[r] EXCEPT !.pc = "insert", !.client = c, !.since = Len(entries)]
    <2>2. g \in Goroutine /\ g.pc # "post"
      BY <1>1, <1>2 DEF Goroutine, Working
    <2>3. req' = [req EXCEPT ![r] = g]
      BY <2>1
    <2> QED
      BY <1>6, <2>2, <2>3, OwnRecord DEF LabelLog, WebhookTypeOK, TimeTypeOK
  <1>7. CASE FindEntry(r)
    <2>1. CASE ReplyError(r)
      BY <1>7, <2>1, Moves DEF FindEntry, TimeTypeOK
    <2>2. CASE ~ReplyError(r)
      <3>1. PICK k \in LatestActive(EventOf(r).user, EventOf(r).issue) :
              req' = [req EXCEPT ![r] =
                [@ EXCEPT !.prev = k, !.client = entries[k].client,
                          !.pc = IF req[r].pc = "correct"
                                   THEN "relabel" ELSE "softdelete"]]
        BY <1>7, <2>2 DEF FindEntry
      <3>2. k \in DOMAIN entries
        BY DEF LatestActive, ActiveEntries
      <3> DEFINE g == [req[r] EXCEPT !.prev = k, !.client = entries[k].client,
                                     !.pc = IF req[r].pc = "correct"
                                              THEN "relabel" ELSE "softdelete"]
      <3>3. g \in Goroutine /\ g.pc # "post"
        BY <1>1, <1>2, <3>2 DEF Goroutine, Working, Entry
      <3>4. req' = [req EXCEPT ![r] = g]
        BY <3>1
      <3> QED
        BY <1>7, <3>3, <3>4, OwnRecord DEF FindEntry, WebhookTypeOK, TimeTypeOK
    <2> QED
      BY <2>1, <2>2
  <1>8. CASE FindEntryFails(r)
    BY <1>8, Moves DEF FindEntryFails, TimeTypeOK
  <1>9. CASE LabelCorrection(r)
    <2> DEFINE g == [req[r] EXCEPT !.pc = "insert", !.since = Len(entries)]
    <2>1. g \in Goroutine /\ g.pc # "post"
      BY <1>1, <1>2 DEF Goroutine, Working
    <2>2. req' = [req EXCEPT ![r] = g]
      BY <1>9 DEF LabelCorrection
    <2> QED
      BY <1>9, <2>1, <2>2, OwnRecord DEF LabelCorrection, WebhookTypeOK, TimeTypeOK
  <1>10. CASE CreateEntry(r)
    <2> DEFINE a == [req[r] EXCEPT !.pc = "supersede", !.new = Len(entries) + 1]
               b == [req[r] EXCEPT !.pc = "post", !.new = Len(entries) + 1,
                                   !.reply = "logged"]
               g == IF EventOf(r).cmd = "correct" THEN a ELSE b
    <2>0. Len(entries) + 1 \in Nat /\ "logged" \in ReplyKinds
      BY <1>2 DEF ReplyKinds
    <2>1. a \in Goroutine /\ a.pc # "post"
      BY <1>1, <2>0, Created
    <2>2. b \in Goroutine /\ b.reply # "none"
      BY <1>1, <2>0, Created
    <2>3. req' = [req EXCEPT ![r] = g]
      BY <1>10 DEF CreateEntry
    <2>4. g \in Goroutine /\ (g.pc = "post" => g.reply # "none")
      BY <2>1, <2>2
    <2> QED
      BY <1>4, <1>10, <2>3, <2>4, OwnRecord DEF CreateEntry, WebhookTypeOK, TimeTypeOK
  <1>11. CASE CreateEntryFails(r)
    <2>1. entries' \in Seq(Entry)
      BY <1>4, <1>11 DEF CreateEntryFails, TimeTypeOK
    <2> QED
      BY <1>11, <2>1, Moves DEF CreateEntryFails, TimeTypeOK
  <1>12. CASE SupersedeEntry(r) \/ SupersedeEntryFails(r)
    <2>1. entries' \in Seq(Entry)
      BY <1>5, <1>12 DEF SupersedeEntry, SupersedeEntryFails, TimeTypeOK
    <2> QED
      BY <1>12, <2>1, Moves
      DEF SupersedeEntry, SupersedeEntryFails, TimeTypeOK, ReplyKinds
  <1>13. CASE SoftDeleteEntry(r) \/ SoftDeleteEntryFails(r)
    <2>1. entries' \in Seq(Entry)
      BY <1>5, <1>13 DEF SoftDeleteEntry, SoftDeleteEntryFails, TimeTypeOK
    <2> QED
      BY <1>13, <2>1, Moves
      DEF SoftDeleteEntry, SoftDeleteEntryFails, TimeTypeOK, ReplyKinds
  <1> QED
    BY <1>6, <1>7, <1>8, <1>9, <1>10, <1>11, <1>12, <1>13 DEF TimeStep, TimeFault

LEMMA PlanTypes ==
  ASSUME TypeOK, NEW r \in Request, PlanStep(r) \/ PlanFault(r)
  PROVE  WebhookTypeOK' /\ PlanTypeOK'
  <1> USE DEF TypeOK
  <1>1. req[r] \in Goroutine
    BY Facts
  <1>2. Len(plans) \in Nat /\ \A k \in DOMAIN plans : k \in Nat
    BY DEF PlanTypeOK
  <1>3. Replaced(r) \in Seq(Plan) /\ Closed(r) \in Seq(Plan)
    BY PlanUpdates
  <1>4. CASE FindPlan(r)
    <2>1. CASE ReplyError(r) \/ Goto(r, "replace") \/ Goto(r, "softdeleteplan")
      BY <1>4, <2>1, Moves DEF FindPlan, PlanTypeOK, Working
    <2>2. CASE ~(ReplyError(r) \/ Goto(r, "replace") \/ Goto(r, "softdeleteplan"))
      <3> DEFINE next == IF req[r].pc = "plan" THEN "replace" ELSE "softdeleteplan"
      <3>1. PICK k \in ActiveIn(plans, EventOf(r).issue) :
              req' = [req EXCEPT ![r] = [@ EXCEPT !.pc = next, !.prev = k]]
        BY <1>4, <2>2 DEF FindPlan
      <3> DEFINE g == [req[r] EXCEPT !.pc = next, !.prev = k]
      <3>2. g \in Goroutine /\ g.pc # "post"
        BY <1>1, <1>2 DEF Goroutine, Working, ActiveIn
      <3>3. req' = [req EXCEPT ![r] = g]
        BY <3>1
      <3> QED
        BY <1>4, <3>2, <3>3, OwnRecord DEF FindPlan, WebhookTypeOK, PlanTypeOK
    <2> QED
      BY <2>1, <2>2
  <1>5. CASE FindPlanFails(r)
    BY <1>5, Moves DEF FindPlanFails, PlanTypeOK
  <1>6. CASE ReplacePlan(r)
    <2>1. CASE Conflict(r)
      BY <1>6, <2>1, Moves DEF ReplacePlan, PlanTypeOK
    <2>2. CASE ~Conflict(r)
      <3> DEFINE g == [req[r] EXCEPT !.pc = "post", !.new = Len(plans) + 1,
                                     !.reply = IF req[r].prev = 0
                                                 THEN "planned" ELSE "replanned"]
      <3>0. /\ Len(plans) + 1 \in Nat
            /\ (IF req[r].prev = 0 THEN "planned" ELSE "replanned") \in ReplyKinds
        BY <1>2 DEF ReplyKinds
      <3>1. g \in Goroutine /\ g.reply # "none"
        BY <1>1, <3>0, Created
      <3>2. req' = [req EXCEPT ![r] = g]
        BY <1>6, <2>2 DEF ReplacePlan
      <3> QED
        BY <1>3, <1>6, <2>2, <3>1, <3>2, OwnRecord
        DEF ReplacePlan, WebhookTypeOK, PlanTypeOK
    <2> QED
      BY <2>1, <2>2
  <1>7. CASE ReplacePlanFails(r)
    <2>1. plans' \in Seq(Plan)
      BY <1>3, <1>7 DEF ReplacePlanFails, PlanTypeOK
    <2> QED
      BY <1>7, <2>1, Moves DEF ReplacePlanFails, PlanTypeOK
  <1>8. CASE SoftDeletePlan(r) \/ SoftDeletePlanFails(r)
    <2>1. plans' \in Seq(Plan)
      BY <1>3, <1>8 DEF SoftDeletePlan, SoftDeletePlanFails, PlanTypeOK
    <2> QED
      BY <1>8, <2>1, Moves
      DEF SoftDeletePlan, SoftDeletePlanFails, PlanTypeOK, ReplyKinds
  <1> QED
    BY <1>4, <1>5, <1>6, <1>7, <1>8 DEF PlanStep, PlanFault

\* Every variable of the endpoint keeps its type.
THEOREM TypeCorrect == Spec => []TypeOK
  <1>1. Init => TypeOK
    <2> SUFFICES ASSUME Init PROVE TypeOK
      OBVIOUS
    <2>1. Fresh("unsent") \in Goroutine /\ Fresh("unsent").pc # "post"
      BY DEF Fresh, Goroutine, Over
    <2>2. WebhookTypeOK
      BY <2>1 DEF Init, WebhookInit, WebhookTypeOK
    <2> QED
      BY <2>2 DEF Init, TypeOK, TimeInit, TimeTypeOK, PlanInit, PlanTypeOK
  <1>2. TypeOK /\ [Next]_vars => TypeOK'
    <2> SUFFICES ASSUME TypeOK, [Next]_vars PROVE TypeOK'
      OBVIOUS
    <2>1. CASE UNCHANGED vars
      BY <2>1
      DEF vars, TypeOK, WebhookTypeOK, TimeTypeOK, PlanTypeOK
    <2>2. ASSUME NEW r \in Request, UNCHANGED <<entries, plans>>,
                 \/ Receive(r) \/ RejectSignature(r) \/ Claim(r) \/ ClaimFails(r)
                 \/ Dispatch(r) \/ Post(r) \/ PostFails(r) \/ Crash(r)
          PROVE  TypeOK'
      BY <2>2, DeliveryTypes DEF TypeOK, TimeTypeOK, PlanTypeOK
    <2>3. ASSUME NEW r \in Request, TimeStep(r) \/ TimeFault(r), UNCHANGED plans
          PROVE  TypeOK'
      BY <2>3, TimeTypes DEF TypeOK, PlanTypeOK
    <2>4. ASSUME NEW r \in Request, PlanStep(r) \/ PlanFault(r), UNCHANGED entries
          PROVE  TypeOK'
      BY <2>4, PlanTypes DEF TypeOK, TimeTypeOK
    <2> QED
      BY <2>1, <2>2, <2>3, <2>4 DEF Next, Finished, Arrive, Step, Fault, Die
  <1> QED
    BY <1>1, <1>2, PTL DEF Spec

----------------------------------------------------------------------------
\* Idempotency

\* No row is added, and the sources of those there are do not change.
SameRows(old, new) ==
  /\ DOMAIN new = DOMAIN old
  /\ \A k \in DOMAIN old : new[k].source = old[k].source

\* One row is added, for r's delivery.
RowFor(r, old, new) ==
  \E n : /\ DOMAIN new = DOMAIN old \cup {n}
         /\ new[n].source = r[1]
         /\ \A k \in DOMAIN old : new[k].source = old[k].source

\* What every step past the claim has in common: it writes for its own
\* delivery only; a row at most once, a reply only as its last step.
Writes(r) ==
  /\ UNCHANGED <<event, deliveries>>
  /\ req[r].pc \in Working
  /\ \A s \in Request : s # r => req'[s] = req[s]
  /\ req'[r].pc \in Uncreated => req[r].pc \in Uncreated
  /\ \/ SameRows(entries, entries') /\ SameRows(plans, plans')
     \/ /\ req[r].pc \in Uncreated /\ req'[r].pc \notin Uncreated
        /\ \/ RowFor(r, entries, entries') /\ SameRows(plans, plans')
           \/ SameRows(entries, entries') /\ RowFor(r, plans, plans')
  /\ \A k \in DOMAIN plans' :
       \/ k \in DOMAIN plans /\ plans'[k].closing = plans[k].closing
       \/ plans'[k].closing \subseteq {r[1]}
  /\ \/ comments' = comments
     \/ /\ req'[r].pc \notin Working
        /\ comments' = [comments EXCEPT ![r[1]] = Append(@, Reply(r))]

LEMMA WritesKeepClaim ==
  ASSUME TypeOK, TypeOK', ClaimInv, NEW r \in Request, Writes(r)
  PROVE  ClaimInv'
  <1> DEFINE d == r[1]
  <1>1. /\ Known' = Known /\ deliveries' = deliveries
        /\ d \in Known
        /\ Uncreated \subseteq Working
    BY DEF Known, Writes, ClaimInv, Owns, Uncreated, Working
  <1>2. \A s \in Request : Owns(s)' => Owns(s)
    BY DEF Writes, Owns
  <1>3. \A s \in Request : Owns(s) /\ s # r => s[1] # d
    BY DEF ClaimInv, Owns, Writes
  <1>4. (\A s \in Request : Owns(s) => s[1] \in deliveries)'
    BY <1>1, <1>2 DEF ClaimInv
  <1>5. (\A s, t \in Request : Owns(s) /\ Owns(t) /\ s[1] = t[1] => s = t)'
    BY <1>2 DEF ClaimInv
  <1>6. ASSUME NEW s \in Request, Owns(s)', req'[s].pc \in Uncreated
        PROVE  /\ \A k \in DOMAIN entries' : entries'[k].source # s[1]
               /\ \A k \in DOMAIN plans' : plans'[k].source # s[1]
    <2>1. Owns(s) /\ req[s].pc \in Uncreated
      BY <1>2, <1>6 DEF Writes
    <2>2. /\ \A k \in DOMAIN entries : entries[k].source # s[1]
          /\ \A k \in DOMAIN plans : plans[k].source # s[1]
      BY <2>1 DEF ClaimInv
    <2>3. CASE s = r
      BY <1>6, <2>2, <2>3 DEF Writes, SameRows
    <2>4. CASE s # r
      <3>1. s[1] # r[1]
        BY <1>3, <2>1, <2>4
      <3>2. /\ SameRows(entries, entries') \/ RowFor(r, entries, entries')
            /\ SameRows(plans, plans') \/ RowFor(r, plans, plans')
        BY DEF Writes
      <3>3. \A k \in DOMAIN entries' : entries'[k].source # s[1]
        BY <2>2, <3>1, <3>2 DEF SameRows, RowFor
      <3>4. \A k \in DOMAIN plans' : plans'[k].source # s[1]
        BY <2>2, <3>1, <3>2 DEF SameRows, RowFor
      <3> QED
        BY <3>3, <3>4
    <2> QED
      BY <2>3, <2>4
  <1>0. comments \in [Delivery -> Seq(Comment)] /\ d \in Delivery
    BY DEF TypeOK, WebhookTypeOK, Request
  <1>7. (\A s \in Request : Owns(s) => comments[s[1]] = <<>>)'
    <2> SUFFICES ASSUME NEW s \in Request, Owns(s)'
                 PROVE  comments'[s[1]] = <<>>
      OBVIOUS
    <2>1. comments[s[1]] = <<>> /\ s[1] \in Delivery
      BY <1>2 DEF ClaimInv, Request
    <2>2. CASE comments' = comments
      BY <2>1, <2>2
    <2>3. CASE comments' # comments
      <3>1. s # r
        BY <2>3 DEF Writes, Owns
      <3>2. s[1] # d
        BY <1>2, <1>3, <3>1
      <3> QED
        BY <1>0, <2>1, <2>3, <3>2 DEF Writes
    <2> QED
      BY <2>2, <2>3
  <1>8. EffectsAreClaimed'
    <2>0. /\ \A k \in DOMAIN entries : entries[k].source \in Known
          /\ \A k \in DOMAIN plans : plans[k].source \in Known
      BY DEF ClaimInv, EffectsAreClaimed, Known
    <2>1. \A k \in DOMAIN entries' : entries'[k].source \in Known
      <3>1. CASE SameRows(entries, entries')
        BY <2>0, <3>1 DEF SameRows
      <3>2. CASE RowFor(r, entries, entries')
        BY <1>1, <2>0, <3>2 DEF RowFor
      <3> QED
        BY <3>1, <3>2 DEF Writes
    <2>2. \A k \in DOMAIN plans' : plans'[k].source \in Known
      <3>1. CASE SameRows(plans, plans')
        BY <2>0, <3>1 DEF SameRows
      <3>2. CASE RowFor(r, plans, plans')
        BY <1>1, <2>0, <3>2 DEF RowFor
      <3> QED
        BY <3>1, <3>2 DEF Writes
    <2>3. \A k \in DOMAIN plans' : plans'[k].closing \subseteq Known
      BY <1>1 DEF ClaimInv, EffectsAreClaimed, Known, Writes
    <2>4. \A e \in Delivery : comments'[e] # <<>> => e \in Known
      <3> SUFFICES ASSUME NEW e \in Delivery, e # d PROVE comments'[e] = comments[e]
        BY <1>1 DEF ClaimInv, EffectsAreClaimed, Known
      <3> QED
        BY <1>0 DEF Writes
    <2> QED
      BY <1>1, <2>1, <2>2, <2>3, <2>4 DEF EffectsAreClaimed, Known
  <1>9. OneRowPerDelivery'
    <2>1. CASE SameRows(entries, entries') /\ SameRows(plans, plans')
      BY <2>1 DEF ClaimInv, OneRowPerDelivery, SameRows
    <2>2. CASE RowFor(r, entries, entries') /\ SameRows(plans, plans')
               /\ req[r].pc \in Uncreated
      <3>1. d \notin NoHeader => \A k \in DOMAIN entries : entries[k].source # d
        BY <1>1, <2>2 DEF ClaimInv, Owns
      <3> QED
        BY <2>2, <3>1 DEF ClaimInv, OneRowPerDelivery, SameRows, RowFor
    <2>3. CASE SameRows(entries, entries') /\ RowFor(r, plans, plans')
               /\ req[r].pc \in Uncreated
      <3>1. d \notin NoHeader => \A k \in DOMAIN plans : plans[k].source # d
        BY <1>1, <2>3 DEF ClaimInv, Owns
      <3> QED
        BY <2>3, <3>1 DEF ClaimInv, OneRowPerDelivery, SameRows, RowFor
    <2> QED
      BY <2>1, <2>2, <2>3 DEF Writes
  <1>10. OneReplyPerDelivery'
    <2> SUFFICES ASSUME NEW e \in Delivery \ NoHeader
                 PROVE  Len(comments'[e]) <= 1
      BY DEF OneReplyPerDelivery
    <2>1. Len(comments[e]) <= 1
      BY DEF ClaimInv, OneReplyPerDelivery
    <2>2. CASE comments'[e] = comments[e]
      BY <2>1, <2>2
    <2>3. CASE comments'[e] # comments[e]
      <3>1. e = d /\ comments'[e] = Append(comments[e], Reply(r))
        BY <1>0, <2>3 DEF Writes
      <3>2. Owns(r)
        BY <3>1 DEF Writes, Owns
      <3>3. comments[e] = <<>>
        BY <3>1, <3>2 DEF ClaimInv
      <3> QED
        BY <3>1, <3>3
    <2> QED
      BY <2>2, <2>3
  <1> QED
    BY <1>4, <1>5, <1>6, <1>7, <1>8, <1>9, <1>10 DEF ClaimInv

\* A step that leaves the rows and the comments alone.
LEMMA QuietStepWrites ==
  ASSUME TypeOK, NEW r \in Request, NEW g,
         req' = [req EXCEPT ![r] = g],
         req[r].pc \in Working,
         g.pc \in Uncreated => req[r].pc \in Uncreated,
         UNCHANGED <<event, deliveries, comments, entries, plans>>
  PROVE  Writes(r)
  BY DEF TypeOK, WebhookTypeOK, Writes, SameRows

LEMMA EndsDone ==
  /\ \A pc \in Over : Fresh(pc).pc \notin Working
  /\ [Fresh("post") EXCEPT !.reply = "error"].pc = "post"
  /\ "post" \in Working /\ "post" \notin Uncreated
  /\ Uncreated \subseteq Working
  BY DEF Over, Fresh, Working, Uncreated, Commands

LEMMA DeliveryStepWrites ==
  ASSUME TypeOK, NEW r \in Request, UNCHANGED <<entries, plans>>,
         \/ Dispatch(r) \/ Post(r) \/ PostFails(r)
         \/ Crash(r) /\ req[r].pc \in Working
  PROVE  Writes(r)
  <1>1. req \in [Request -> Goroutine]
    BY DEF TypeOK, WebhookTypeOK
  <1>2. CASE Dispatch(r)
    <2>1. PICK g : req' = [req EXCEPT ![r] = g]
      BY <1>2 DEF Dispatch, End, ReplyError, Goto
    <2>2. req[r].pc \in Working /\ req[r].pc \in Uncreated
      BY <1>2 DEF Dispatch, Working, Uncreated
    <2> QED
      BY <1>2, <2>1, <2>2, QuietStepWrites DEF Dispatch
  <1>3. CASE PostFails(r)
    <2>1. req' = [req EXCEPT ![r] = Fresh("ok")] /\ req[r].pc \in Working
      BY <1>3 DEF PostFails, End, Working
    <2>2. Fresh("ok").pc \notin Uncreated
      BY EndsDone DEF Over
    <2> QED
      BY <1>3, <2>1, <2>2, QuietStepWrites DEF PostFails
  <1>4. CASE Crash(r) /\ req[r].pc \in Working
    <2>1. req' = [req EXCEPT ![r] = Fresh("dead")]
      BY <1>4 DEF Crash, End
    <2>2. Fresh("dead").pc \notin Uncreated
      BY EndsDone DEF Over
    <2> QED
      BY <1>4, <2>1, <2>2, QuietStepWrites DEF Crash
  <1>5. CASE Post(r)
    <2>1. /\ req' = [req EXCEPT ![r] = Fresh("ok")]
          /\ req[r].pc \in Working
          /\ Fresh("ok").pc \notin Working
          /\ Fresh("ok").pc \notin Uncreated
      BY <1>5, EndsDone DEF Post, End, Working, Over
    <2> QED
      BY <1>1, <1>5, <2>1 DEF Post, Writes, SameRows
  <1> QED
    BY <1>2, <1>3, <1>4, <1>5

\* The tables' operations, as far as sources are concerned.
LEMMA EntrySources ==
  ASSUME TypeOK, NEW r \in Request
  PROVE  /\ RowFor(r, entries, Append(entries, NewEntry(r)))
         /\ SameRows(entries, Superseded(req[r].prev, req[r].new))
         /\ SameRows(entries, SoftDeleted(req[r].prev))
  <1>1. \A k \in DOMAIN entries : entries[k] \in Entry
    BY DEF TypeOK, TimeTypeOK
  <1>2. req[r].prev \in Nat /\ req[r].new \in Nat
    BY DEF TypeOK, WebhookTypeOK, Goroutine
  <1>3. RowFor(r, entries, Append(entries, NewEntry(r)))
    <2> DEFINE t == Append(entries, NewEntry(r))
               n == Len(entries) + 1
    <2>1. /\ DOMAIN t = DOMAIN entries \cup {n}
          /\ t[n] = NewEntry(r)
          /\ \A k \in DOMAIN entries : t[k] = entries[k]
      BY DEF TypeOK, TimeTypeOK
    <2>2. NewEntry(r).source = r[1]
      BY DEF NewEntry
    <2> HIDE DEF t, n
    <2> QED
      BY <2>1, <2>2 DEF RowFor, t
  <1>4. \A k \in DOMAIN entries :
          /\ SameFacts(Superseded(req[r].prev, req[r].new)[k], entries[k])
          /\ SameFacts(SoftDeleted(req[r].prev)[k], entries[k])
    BY <1>2, EntryUpdates DEF TypeOK
  <1>5. /\ DOMAIN Superseded(req[r].prev, req[r].new) = DOMAIN entries
        /\ DOMAIN SoftDeleted(req[r].prev) = DOMAIN entries
    BY <1>2, EntryUpdates DEF TypeOK
  <1> QED
    BY <1>3, <1>4, <1>5 DEF SameRows, SameFacts

LEMMA PlanSources ==
  ASSUME TypeOK, NEW r \in Request
  PROVE  /\ RowFor(r, plans, Replaced(r))
         /\ SameRows(plans, Closed(r))
         /\ \A k \in DOMAIN Replaced(r) :
              \/ k \in DOMAIN plans /\ Replaced(r)[k].closing = plans[k].closing
              \/ Replaced(r)[k].closing \subseteq {r[1]}
         /\ \A k \in DOMAIN Closed(r) :
              \/ k \in DOMAIN plans /\ Closed(r)[k].closing = plans[k].closing
              \/ Closed(r)[k].closing \subseteq {r[1]}
  <1>1. \A k \in DOMAIN plans : plans[k] \in Plan
    BY DEF TypeOK, PlanTypeOK
  <1>2. NewPlan(r).source = r[1] /\ NewPlan(r).closing = {}
    BY DEF NewPlan
  <1> DEFINE t == Replaced(r)
  <1>a. /\ DOMAIN t = 1 .. Len(plans) + 1 /\ DOMAIN plans = 1 .. Len(plans)
        /\ Len(plans) \in Nat
        /\ t[Len(plans) + 1] = NewPlan(r)
        /\ \A k \in DOMAIN plans :
             SamePlanFacts(t[k], plans[k]) /\ t[k].closing = plans[k].closing
    BY PlanUpdates DEF TypeOK
  <1>3. /\ DOMAIN Replaced(r) = DOMAIN plans \cup {Len(plans) + 1}
        /\ Replaced(r)[Len(plans) + 1] = NewPlan(r)
        /\ \A k \in DOMAIN plans :
             /\ Replaced(r)[k].source = plans[k].source
             /\ Replaced(r)[k].closing = plans[k].closing
    <2> HIDE DEF t
    <2>1. DOMAIN t = DOMAIN plans \cup {Len(plans) + 1}
      BY <1>a
    <2>2. \A k \in DOMAIN plans : t[k].source = plans[k].source
      BY <1>a DEF SamePlanFacts
    <2> QED
      BY <1>a, <2>1, <2>2 DEF t
  <1>4. /\ DOMAIN Closed(r) = DOMAIN plans
        /\ \A k \in DOMAIN plans :
             /\ Closed(r)[k].source = plans[k].source
             /\ Closed(r)[k].closing \in {plans[k].closing, {r[1]}}
    BY PlanUpdates DEF TypeOK, SamePlanFacts
  <1> QED
    BY <1>2, <1>3, <1>4 DEF RowFor, SameRows

\* The steps that write a table: r's record becomes g, one table changes.
LEMMA EntryStepWrites ==
  ASSUME TypeOK, NEW r \in Request, NEW g,
         req' = [req EXCEPT ![r] = g],
         req[r].pc \in Working, g.pc \notin Uncreated,
         UNCHANGED <<event, deliveries, comments, plans>>,
         \/ SameRows(entries, entries')
         \/ req[r].pc \in Uncreated /\ RowFor(r, entries, entries')
  PROVE  Writes(r)
  BY DEF TypeOK, WebhookTypeOK, Writes, SameRows

LEMMA PlanStepWrites ==
  ASSUME TypeOK, NEW r \in Request, NEW g,
         req' = [req EXCEPT ![r] = g],
         req[r].pc \in Working, g.pc \notin Uncreated,
         UNCHANGED <<event, deliveries, comments, entries>>,
         \/ plans' = plans
         \/ plans' = Closed(r)
         \/ req[r].pc \in Uncreated /\ plans' = Replaced(r)
  PROVE  Writes(r)
  BY PlanSources DEF TypeOK, WebhookTypeOK, Writes, SameRows

LEMMA CommandStepWrites ==
  ASSUME TypeOK, NEW r \in Request,
         \/ (TimeStep(r) \/ TimeFault(r)) /\ UNCHANGED plans
         \/ (PlanStep(r) \/ PlanFault(r)) /\ UNCHANGED entries
  PROVE  Writes(r)
  <1> DEFINE error == [Fresh("post") EXCEPT !.reply = "error"]
  <1>1. /\ req \in [Request -> Goroutine] /\ req[r] \in Goroutine
        /\ error.pc \notin Uncreated
        /\ Uncreated \subseteq Working
        /\ {"post", "supersede", "softdelete", "softdeleteplan"} \subseteq Working
        /\ {"log", "correct", "delete", "plan", "unplan", "relabel", "insert",
            "replace"} \subseteq Uncreated
        /\ {"post", "supersede", "softdelete", "softdeleteplan"} \cap Uncreated = {}
    BY EndsDone
    DEF TypeOK, WebhookTypeOK, Uncreated, Working, Commands
  <1>2. CASE /\ LabelLog(r) \/ FindEntry(r) \/ FindEntryFails(r) \/ LabelCorrection(r)
             /\ UNCHANGED plans
    <2>1. \E g : req' = [req EXCEPT ![r] = g]
      BY <1>2
      DEF LabelLog, FindEntry, FindEntryFails, LabelCorrection, ReplyError
    <2>2. /\ req[r].pc \in Uncreated
          /\ UNCHANGED <<event, deliveries, comments, entries, plans>>
      BY <1>1, <1>2 DEF LabelLog, FindEntry, FindEntryFails, LabelCorrection
    <2> QED
      BY <1>1, <2>1, <2>2, QuietStepWrites
  <1>3. CASE (FindPlan(r) \/ FindPlanFails(r)) /\ UNCHANGED entries
    <2>1. \E g : req' = [req EXCEPT ![r] = g]
      BY <1>3 DEF FindPlan, FindPlanFails, ReplyError, Goto
    <2>2. /\ req[r].pc \in Uncreated
          /\ UNCHANGED <<event, deliveries, comments, entries, plans>>
      BY <1>1, <1>3 DEF FindPlan, FindPlanFails
    <2> QED
      BY <1>1, <2>1, <2>2, QuietStepWrites
  <1>4. CASE (CreateEntry(r) \/ CreateEntryFails(r)) /\ UNCHANGED plans
    <2>1. PICK g : req' = [req EXCEPT ![r] = g] /\ g.pc \in {"post", "supersede"}
      <3>1. \E g : req' = [req EXCEPT ![r] = g]
        BY <1>4 DEF CreateEntry, CreateEntryFails, ReplyError
      <3>2. req'[r].pc \in {"post", "supersede"}
        <4>1. CASE CreateEntryFails(r)
          BY <1>1, <4>1, EndsDone DEF CreateEntryFails, ReplyError
        <4>2. CASE CreateEntry(r)
          BY <1>1, <4>2 DEF CreateEntry, Goroutine
        <4> QED
          BY <1>4, <4>1, <4>2
      <3> QED
        BY <1>1, <3>1, <3>2
    <2>2. /\ req[r].pc \in Uncreated
          /\ UNCHANGED <<event, deliveries, comments, plans>>
      BY <1>1, <1>4 DEF CreateEntry, CreateEntryFails
    <2>3. SameRows(entries, entries') \/ RowFor(r, entries, entries')
      BY <1>4, EntrySources DEF CreateEntry, CreateEntryFails, SameRows
    <2> QED
      BY <1>1, <2>1, <2>2, <2>3, EntryStepWrites
  <1>5. CASE /\ \/ SupersedeEntry(r) \/ SupersedeEntryFails(r)
                \/ SoftDeleteEntry(r) \/ SoftDeleteEntryFails(r)
             /\ UNCHANGED plans
    <2>1. PICK g : req' = [req EXCEPT ![r] = g] /\ g.pc = "post"
      <3>1. \E g : req' = [req EXCEPT ![r] = g]
        BY <1>5
        DEF SupersedeEntry, SupersedeEntryFails, SoftDeleteEntry,
            SoftDeleteEntryFails, ReplyWith, ReplyError
      <3>2. req'[r].pc = "post"
        <4>1. CASE ReplyError(r)
          BY <1>1, <4>1, EndsDone DEF ReplyError
        <4>2. CASE ReplyWith(r, "corrected") \/ ReplyWith(r, "deleted")
          BY <1>1, <4>2, ReplyMoves
        <4> QED
          BY <1>5, <4>1, <4>2
          DEF SupersedeEntry, SupersedeEntryFails, SoftDeleteEntry,
              SoftDeleteEntryFails
      <3> QED
        BY <1>1, <3>1, <3>2
    <2>2. /\ req[r].pc \in Working
          /\ UNCHANGED <<event, deliveries, comments, plans>>
      BY <1>1, <1>5
      DEF SupersedeEntry, SupersedeEntryFails, SoftDeleteEntry,
          SoftDeleteEntryFails
    <2>3. SameRows(entries, entries')
      BY <1>5, EntrySources
      DEF SupersedeEntry, SupersedeEntryFails, SoftDeleteEntry,
          SoftDeleteEntryFails, SameRows
    <2> QED
      BY <1>1, <2>1, <2>2, <2>3, EntryStepWrites
  <1>6. CASE /\ \/ ReplacePlan(r) \/ ReplacePlanFails(r)
                \/ SoftDeletePlan(r) \/ SoftDeletePlanFails(r)
             /\ UNCHANGED entries
    <2>1. PICK g : req' = [req EXCEPT ![r] = g] /\ g.pc = "post"
      <3>1. \E g : req' = [req EXCEPT ![r] = g]
        BY <1>6
        DEF ReplacePlan, ReplacePlanFails, SoftDeletePlan, SoftDeletePlanFails,
            ReplyWith, ReplyError
      <3>2. req'[r].pc = "post"
        <4>1. CASE ReplyError(r)
          BY <1>1, <4>1, EndsDone DEF ReplyError
        <4>2. CASE ReplyWith(r, "removed")
          BY <1>1, <4>2, ReplyMoves
        <4>3. CASE ReplacePlan(r) /\ ~ReplyError(r)
          <5>1. PICK h \in Goroutine : h = req[r]
            BY <1>1
          <5> DEFINE g == [h EXCEPT !.pc = "post", !.new = Len(plans) + 1,
                             !.reply = IF h.prev = 0 THEN "planned"
                                                     ELSE "replanned"]
          <5>2. g.pc = "post"
            BY <5>1 DEF Goroutine
          <5>3. req' = [req EXCEPT ![r] = g]
            BY <4>3, <5>1 DEF ReplacePlan
          <5> QED
            BY <1>1, <5>2, <5>3
        <4> QED
          BY <1>6, <4>1, <4>2, <4>3
          DEF ReplacePlan, ReplacePlanFails, SoftDeletePlan, SoftDeletePlanFails
      <3> QED
        BY <1>1, <3>1, <3>2
    <2>2. /\ req[r].pc \in Working
          /\ UNCHANGED <<event, deliveries, comments, entries>>
      BY <1>1, <1>6
      DEF ReplacePlan, ReplacePlanFails, SoftDeletePlan, SoftDeletePlanFails
    <2>3. \/ plans' = plans
          \/ plans' = Closed(r)
          \/ req[r].pc \in Uncreated /\ plans' = Replaced(r)
      BY <1>1, <1>6
      DEF ReplacePlan, ReplacePlanFails, SoftDeletePlan, SoftDeletePlanFails
    <2> QED
      BY <1>1, <2>1, <2>2, <2>3, PlanStepWrites
  <1> QED
    BY <1>2, <1>3, <1>4, <1>5, <1>6 DEF TimeStep, TimeFault, PlanStep, PlanFault

\* Before the claim a goroutine has written nothing, and winning the claim
\* finds nothing written for the delivery.
LEMMA ClaimKeepsClaim ==
  ASSUME TypeOK, TypeOK', ClaimInv, NEW r \in Request,
         UNCHANGED <<event, comments, entries, plans>>,
         \/ Receive(r) \/ RejectSignature(r) \/ Claim(r) \/ ClaimFails(r)
         \/ Crash(r) /\ req[r].pc = "claim"
  PROVE  ClaimInv'
  <1> DEFINE d == r[1]
  <1>1. /\ req \in [Request -> Goroutine]
        /\ {"unsent", "claim"} \cap Working = {}
        /\ Over \cap Working = {}
        /\ \A pc \in Over : Fresh(pc).pc = pc
    BY DEF TypeOK, WebhookTypeOK, Working, Commands, Over, Fresh
  <1>2. /\ \A s \in Request : s # r => req'[s] = req[s]
        /\ ~Owns(r)
        /\ deliveries \subseteq deliveries'
    BY <1>1
    DEF Receive, RejectSignature, Claim, ClaimFails, Crash, Goto, End, Owns
  <1>3. Owns(r)' => d \notin deliveries /\ d \in deliveries'
    <2>1. CASE Receive(r)
      BY <1>1, <2>1 DEF Receive, Goto, Owns, Goroutine
    <2>2. CASE End(r, "ok") \/ End(r, "unauthorized") \/ End(r, "failed") \/ End(r, "dead")
      BY <1>1, <2>2 DEF End, Owns, Over
    <2>3. CASE Claim(r) /\ ~End(r, "ok")
      BY <2>3 DEF Claim, Owns
    <2> QED
      BY <2>1, <2>2, <2>3 DEF RejectSignature, Claim, ClaimFails, Crash
  <1>4. \A s \in Request : s # r => (Owns(s)' <=> Owns(s))
    BY <1>2 DEF Owns
  <1>5. EffectsAreClaimed'
    BY <1>2 DEF ClaimInv, EffectsAreClaimed
  <1>6. Owns(r)' => /\ \A k \in DOMAIN entries : entries[k].source # d
                    /\ \A k \in DOMAIN plans : plans[k].source # d
                    /\ comments[d] = <<>>
                    /\ \A s \in Request : Owns(s) => s[1] # d
    BY <1>3 DEF ClaimInv, EffectsAreClaimed, Owns, Request
  <1>7. (\A s \in Request : Owns(s) => s[1] \in deliveries)'
    BY <1>2, <1>3, <1>4 DEF ClaimInv
  <1>8. (\A s, t \in Request : Owns(s) /\ Owns(t) /\ s[1] = t[1] => s = t)'
    BY <1>4, <1>6 DEF ClaimInv
  <1>9. ASSUME NEW s \in Request, Owns(s)', req'[s].pc \in Uncreated
        PROVE  /\ \A k \in DOMAIN entries' : entries'[k].source # s[1]
               /\ \A k \in DOMAIN plans' : plans'[k].source # s[1]
    BY <1>2, <1>4, <1>6, <1>9 DEF ClaimInv
  <1>10. (\A s \in Request : Owns(s) => comments[s[1]] = <<>>)'
    BY <1>2, <1>4, <1>6 DEF ClaimInv
  <1> QED
    BY <1>5, <1>7, <1>8, <1>9, <1>10 DEF ClaimInv, OneRowPerDelivery, OneReplyPerDelivery

LEMMA ClaimStep ==
  ASSUME TypeOK, TypeOK', ClaimInv, [Next]_vars PROVE ClaimInv'
  <1>1. CASE UNCHANGED vars
    BY <1>1
    DEF vars, ClaimInv, Owns, EffectsAreClaimed, OneRowPerDelivery,
        OneReplyPerDelivery
  <1>2. ASSUME NEW r \in Request, Arrive(r) PROVE ClaimInv'
    BY <1>2, ClaimKeepsClaim DEF Arrive, Receive, RejectSignature
  <1>3. ASSUME NEW r \in Request, Step(r) \/ Fault(r) \/ Die(r) PROVE ClaimInv'
    <2>1. CASE (Claim(r) \/ ClaimFails(r)) /\ UNCHANGED <<entries, plans>>
      BY <2>1, ClaimKeepsClaim DEF Claim, ClaimFails
    <2>2. CASE (Dispatch(r) \/ Post(r) \/ PostFails(r)) /\ UNCHANGED <<entries, plans>>
      BY <2>2, DeliveryStepWrites, WritesKeepClaim
    <2>3. CASE Die(r)
      <3>1. req[r].pc = "claim" \/ req[r].pc \in Working
        BY <2>3 DEF Die, Crash, InFlight, TypeOK, WebhookTypeOK, Goroutine
      <3> QED
        BY <2>3, <3>1, ClaimKeepsClaim, DeliveryStepWrites, WritesKeepClaim
        DEF Die, Crash
    <2>4. CASE \/ (TimeStep(r) \/ TimeFault(r)) /\ UNCHANGED plans
               \/ (PlanStep(r) \/ PlanFault(r)) /\ UNCHANGED entries
      BY <2>4, CommandStepWrites, WritesKeepClaim
    <2> QED
      BY <1>3, <2>1, <2>2, <2>3, <2>4 DEF Step, Fault
  <1> QED
    BY <1>1, <1>2, <1>3 DEF Next, Finished

\* The claim is what makes commands idempotent: with any number of retries,
\* replicas, crashes and failing calls, a delivery has one goroutine past the
\* claim, and so at most one row and one reply.
THEOREM ClaimCorrect == Spec => []ClaimInv
  <1>1. Init => ClaimInv
    BY DEF Init, WebhookInit, TimeInit, PlanInit, ClaimInv, Owns, Fresh,
           Working, Commands, EffectsAreClaimed, OneRowPerDelivery,
           OneReplyPerDelivery
  <1>2. TypeOK /\ TypeOK' /\ ClaimInv /\ [Next]_vars => ClaimInv'
    BY ClaimStep
  <1> QED
    BY <1>1, <1>2, TypeCorrect, PTL DEF Spec

\* A delivery makes at most one row, however often it is received.
THEOREM Idempotent == Spec => []OneRowPerDelivery
  <1>1. ClaimInv => OneRowPerDelivery
    BY DEF ClaimInv
  <1> QED
    BY <1>1, ClaimCorrect, PTL

\* A delivery with the header gets at most one comment, however often it is
\* received and whatever fails, and nothing is written for a delivery that a
\* redelivery would not find claimed.
THEOREM AnsweredOnce == Spec => [](OneReplyPerDelivery /\ EffectsAreClaimed)
  <1>1. ClaimInv => OneReplyPerDelivery /\ EffectsAreClaimed
    BY DEF ClaimInv
  <1> QED
    BY <1>1, ClaimCorrect, PTL

----------------------------------------------------------------------------
\* Plans

\* Where a goroutine has not looked for a plan, and where it has.
Early == {"unsent", "claim", "dispatch", "plan", "unplan"}
Acting == {"replace", "softdeleteplan"}

\* A step of r, as far as plans are concerned.
PlanMove(r) ==
  /\ UNCHANGED event
  /\ \A s \in Request : s # r => req'[s] = req[s]
  /\ \/ req'[r].pc \notin Early \cup Acting
     \/ req[r].pc \in Early /\ req'[r].prev = req[r].prev
     \/ /\ req'[r].pc \in Acting
        /\ req'[r].prev \in ActiveIn(plans, EventOf(r).issue)
  /\ \/ plans' = plans
     \/ plans' = Closed(r) /\ req[r].pc = "softdeleteplan"
     \/ plans' = Replaced(r) /\ ~Conflict(r) /\ req[r].pc = "replace"

----------------------------------------------------------------------------
\* Every step is such a move.

LEMMA DeliveryMoves ==
  ASSUME TypeOK, NEW r \in Request, UNCHANGED plans,
         \/ Receive(r) \/ RejectSignature(r) \/ Claim(r) \/ ClaimFails(r)
         \/ Dispatch(r) \/ Post(r) \/ PostFails(r) \/ Crash(r)
  PROVE  PlanMove(r)
  <1>1. WebhookTypeOK
    BY DEF TypeOK
  <1>2. Over \cap (Early \cup Acting) = {} /\ "post" \notin Early \cup Acting
    BY DEF Over, Early, Acting
  <1>3. UNCHANGED event
    BY DEF Receive, RejectSignature, Claim, ClaimFails, Dispatch, Post, PostFails,
           Crash
  <1>4. CASE \E pc \in Over : End(r, pc)
    BY <1>1, <1>2, <1>3, <1>4, Records DEF PlanMove
  <1>5. CASE ReplyError(r)
    BY <1>1, <1>2, <1>3, <1>5, Records DEF PlanMove
  <1>6. CASE req[r].pc \in Early /\ \E pc : Goto(r, pc)
    BY <1>1, <1>3, <1>6, Records DEF PlanMove
  <1> QED
    BY <1>4, <1>5, <1>6
    DEF Receive, RejectSignature, Claim, ClaimFails, Dispatch, Post, PostFails,
        Crash, Over, Early

LEMMA TimeMoves ==
  ASSUME TypeOK, NEW r \in Request, UNCHANGED plans,
         TimeStep(r) \/ TimeFault(r)
  PROVE  PlanMove(r)
  <1>1. WebhookTypeOK /\ UNCHANGED event
    BY DEF TypeOK, TimeStep, TimeFault, LabelLog, FindEntry, LabelCorrection,
           CreateEntry, SupersedeEntry, SoftDeleteEntry, FindEntryFails,
           CreateEntryFails, SupersedeEntryFails, SoftDeleteEntryFails
  <1>2. CASE ReplyError(r) \/ \E kind : ReplyWith(r, kind)
    BY <1>1, <1>2, Records DEF PlanMove, Early, Acting
  <1>3. CASE LabelLog(r) \/ FindEntry(r) \/ LabelCorrection(r) \/ CreateEntry(r)
    <2>1. PICK h \in Goroutine : h = req[r]
      BY Facts, <1>1
    <2>2. ASSUME NEW g, req' = [req EXCEPT ![r] = g],
                 g.pc \in {"insert", "relabel", "softdelete", "supersede", "post"}
          PROVE  PlanMove(r)
      BY <1>1, <2>2 DEF WebhookTypeOK, PlanMove, Early, Acting
    <2>3. CASE LabelLog(r)
      <3>1. PICK c : req' = [req EXCEPT ![r] = [h EXCEPT !.pc = "insert",
                               !.client = c, !.since = Len(entries)]]
        BY <2>1, <2>3 DEF LabelLog
      <3>2. [h EXCEPT !.pc = "insert", !.client = c,
                      !.since = Len(entries)].pc = "insert"
        BY <2>1 DEF Goroutine
      <3> QED
        BY <2>2, <3>1, <3>2
    <2>4. CASE FindEntry(r) /\ ~ReplyError(r)
      <3> DEFINE next == IF h.pc = "correct" THEN "relabel" ELSE "softdelete"
      <3>1. PICK k : req' = [req EXCEPT ![r] = [h EXCEPT !.prev = k,
                               !.client = entries[k].client, !.pc = next]]
        BY <2>1, <2>4 DEF FindEntry
      <3> DEFINE g == [h EXCEPT !.prev = k, !.client = entries[k].client, !.pc = next]
      <3>2. g.pc \in {"relabel", "softdelete"}
        BY <2>1 DEF Goroutine
      <3>3. req' = [req EXCEPT ![r] = g]
        BY <3>1
      <3> HIDE DEF g
      <3> QED
        BY <2>2, <3>2, <3>3
    <2>5. CASE LabelCorrection(r)
      <3>1. req' = [req EXCEPT ![r] = [h EXCEPT !.pc = "insert",
                                                !.since = Len(entries)]]
        BY <2>1, <2>5 DEF LabelCorrection
      <3>2. [h EXCEPT !.pc = "insert", !.since = Len(entries)].pc = "insert"
        BY <2>1 DEF Goroutine
      <3> QED
        BY <2>2, <3>1, <3>2
    <2>6. CASE CreateEntry(r)
      <3> DEFINE n == Len(entries) + 1
                 s == [h EXCEPT !.pc = "supersede", !.new = n]
                 p == [h EXCEPT !.pc = "post", !.new = n, !.reply = "logged"]
      <3>1. req' = [req EXCEPT ![r] = s] \/ req' = [req EXCEPT ![r] = p]
        BY <2>1, <2>6 DEF CreateEntry
      <3>2. s.pc = "supersede" /\ p.pc = "post"
        BY <2>1 DEF Goroutine
      <3> QED
        BY <2>2, <3>1, <3>2
    <2> QED
      BY <1>2, <1>3, <2>3, <2>4, <2>5, <2>6
  <1> QED
    BY <1>2, <1>3
    DEF TimeStep, TimeFault, SupersedeEntry, SoftDeleteEntry, FindEntryFails,
        CreateEntryFails, SupersedeEntryFails, SoftDeleteEntryFails

LEMMA PlanCommandMoves ==
  ASSUME TypeOK, NEW r \in Request, PlanStep(r) \/ PlanFault(r)
  PROVE  PlanMove(r)
  <1>1. WebhookTypeOK /\ UNCHANGED event
    BY DEF TypeOK, PlanStep, PlanFault, FindPlan, ReplacePlan, SoftDeletePlan,
           FindPlanFails, ReplacePlanFails, SoftDeletePlanFails
  <1>2. \/ plans' = plans
        \/ plans' = Closed(r) /\ req[r].pc = "softdeleteplan"
        \/ plans' = Replaced(r) /\ ~Conflict(r) /\ req[r].pc = "replace"
    <2>1. CASE FindPlan(r) \/ FindPlanFails(r)
      BY <2>1 DEF FindPlan, FindPlanFails
    <2>2. CASE SoftDeletePlan(r) \/ SoftDeletePlanFails(r)
      BY <2>2 DEF SoftDeletePlan, SoftDeletePlanFails
    <2>3. CASE ReplacePlan(r)
      BY <2>3 DEF ReplacePlan
    <2>4. CASE ReplacePlanFails(r)
      BY <2>4 DEF ReplacePlanFails
    <2> QED
      BY <2>1, <2>2, <2>3, <2>4 DEF PlanStep, PlanFault
  <1>3. CASE ReplyError(r) \/ \E kind : ReplyWith(r, kind)
    BY <1>1, <1>2, <1>3, Records DEF PlanMove, Early, Acting
  <1>4. CASE FindPlan(r) /\ ~ReplyError(r)
    <2>1. CASE \E pc : Goto(r, pc)
      BY <1>1, <1>2, <1>4, <2>1, Records DEF PlanMove, Early, FindPlan
    <2>2. CASE ~\E pc : Goto(r, pc)
      <3>1. PICK h \in Goroutine : h = req[r]
        BY Facts, <1>1
      <3> DEFINE next == IF h.pc = "plan" THEN "replace" ELSE "softdeleteplan"
      <3>2. PICK k \in ActiveIn(plans, EventOf(r).issue) :
              req' = [req EXCEPT ![r] = [h EXCEPT !.pc = next, !.prev = k]]
        BY <1>4, <2>2, <3>1 DEF FindPlan
      <3> DEFINE g == [h EXCEPT !.pc = next, !.prev = k]
      <3>3. g.pc \in Acting /\ g.prev = k
        BY <3>1 DEF Goroutine, Acting
      <3>4. req' = [req EXCEPT ![r] = g]
        BY <3>2
      <3> HIDE DEF g
      <3> QED
        BY <1>1, <1>2, <3>2, <3>3, <3>4 DEF PlanMove, WebhookTypeOK
    <2> QED
      BY <2>1, <2>2
  <1>5. CASE ReplacePlan(r) /\ ~ReplyError(r)
    <2>1. PICK h \in Goroutine : h = req[r]
      BY Facts, <1>1
    <2> DEFINE kind == IF h.prev = 0 THEN "planned" ELSE "replanned"
               g == [h EXCEPT !.pc = "post", !.new = Len(plans) + 1, !.reply = kind]
    <2>2. g.pc = "post"
      BY <2>1 DEF Goroutine
    <2>3. req' = [req EXCEPT ![r] = g]
      BY <1>5, <2>1 DEF ReplacePlan
    <2> HIDE DEF g
    <2> QED
      BY <1>1, <1>2, <2>2, <2>3 DEF PlanMove, WebhookTypeOK, Early, Acting
  <1> QED
    BY <1>3, <1>4, <1>5
    DEF PlanStep, PlanFault, SoftDeletePlan, FindPlanFails, ReplacePlanFails,
        SoftDeletePlanFails

LEMMA EveryStepMoves ==
  ASSUME TypeOK, [Next]_vars
  PROVE  UNCHANGED vars \/ \E r \in Request : PlanMove(r)
  <1>1. ASSUME NEW r \in Request, UNCHANGED <<entries, plans>>,
               \/ Receive(r) \/ RejectSignature(r) \/ Claim(r) \/ ClaimFails(r)
               \/ Dispatch(r) \/ Post(r) \/ PostFails(r) \/ Crash(r)
        PROVE  PlanMove(r)
    BY <1>1, DeliveryMoves
  <1> QED
    BY <1>1, TimeMoves, PlanCommandMoves
    DEF Next, Finished, Arrive, Step, Fault, Die

----------------------------------------------------------------------------
\* What a move does to the table.

\* The UPDATEs, as the properties see them: the columns of an old row.
LEMMA PlanColumns ==
  ASSUME TypeOK, NEW r \in Request
  PROVE  /\ DOMAIN plans = 1 .. Len(plans) /\ Len(plans) \in Nat
         /\ \A k \in DOMAIN plans :
              plans[k].supersededBy \in Nat /\ plans[k].issue \in Issue
         /\ NewPlan(r).issue = EventOf(r).issue
         /\ NewPlan(r).status = "active"
         /\ NewPlan(r).supersededBy = 0 /\ NewPlan(r).closing = {}
  <1>1. \A k \in DOMAIN plans : plans[k] \in Plan
    BY DEF TypeOK, PlanTypeOK
  <1> QED
    BY <1>1 DEF TypeOK, PlanTypeOK, Plan, NewPlan

\* PlanChains and PlanStatusMatchesLink of any table.
Linked(t) ==
  /\ \A k \in DOMAIN t : t[k].supersededBy # 0 =>
       /\ t[k].supersededBy \in DOMAIN t
       /\ k < t[k].supersededBy
       /\ t[t[k].supersededBy].issue = t[k].issue
  /\ \A j, k \in DOMAIN t :
       t[j].supersededBy = t[k].supersededBy /\ t[j].supersededBy # 0 => j = k
  /\ \A k \in DOMAIN t :
       /\ t[k].status = "active" => t[k].supersededBy = 0 /\ t[k].closing = {}
       /\ t[k].status = "superseded" => t[k].supersededBy # 0
       /\ t[k].status = "deleted" => t[k].closing # {}

LEMMA ClosedLinked ==
  ASSUME TypeOK, NEW r \in Request, Linked(plans)
  PROVE  Linked(Closed(r))
  <1> DEFINE t == Closed(r)
  <1>1. /\ DOMAIN t = DOMAIN plans
        /\ \A k \in DOMAIN plans :
             /\ t[k].issue = plans[k].issue
             /\ t[k].supersededBy = plans[k].supersededBy
             /\ \/ t[k].status = plans[k].status /\ t[k].closing = plans[k].closing
                \/ t[k].status = "deleted" /\ t[k].closing = {r[1]}
    BY PlanUpdates DEF TypeOK, SamePlanFacts
  <1> HIDE DEF t
  <1>2. \A k \in DOMAIN t : t[k].supersededBy # 0 =>
          /\ t[k].supersededBy \in DOMAIN t
          /\ k < t[k].supersededBy
          /\ t[t[k].supersededBy].issue = t[k].issue
    BY <1>1 DEF Linked
  <1>3. \A j, k \in DOMAIN t :
          t[j].supersededBy = t[k].supersededBy /\ t[j].supersededBy # 0 => j = k
    BY <1>1 DEF Linked
  <1>4. ASSUME NEW k \in DOMAIN t
        PROVE  /\ t[k].status = "active" => t[k].supersededBy = 0 /\ t[k].closing = {}
               /\ t[k].status = "superseded" => t[k].supersededBy # 0
               /\ t[k].status = "deleted" => t[k].closing # {}
    <2>1. CASE t[k].status = plans[k].status /\ t[k].closing = plans[k].closing
      BY <1>1, <2>1 DEF Linked
    <2>2. CASE t[k].status = "deleted" /\ t[k].closing = {r[1]}
      BY <2>2
    <2> QED
      BY <1>1, <2>1, <2>2
  <1>5. Linked(t)
    BY <1>2, <1>3, <1>4 DEF Linked
  <1> QED
    BY <1>5 DEF t

\* A replacement links its predecessor to the new row, which nobody else can
\* point at: every link in use leads to an older row.
LEMMA ReplacedLinked ==
  ASSUME TypeOK, NEW r \in Request, Linked(plans),
         \/ req[r].prev \notin DOMAIN plans
         \/ plans[req[r].prev].issue = EventOf(r).issue
  PROVE  Linked(Replaced(r))
  <1> DEFINE t == Replaced(r)
             n == Len(plans) + 1
  <1>1. /\ DOMAIN t = 1 .. n /\ DOMAIN plans = 1 .. Len(plans) /\ Len(plans) \in Nat
        /\ t[n].issue = EventOf(r).issue /\ t[n].status = "active"
        /\ t[n].supersededBy = 0 /\ t[n].closing = {}
        /\ \A k \in DOMAIN plans :
             /\ t[k].issue = plans[k].issue
             /\ t[k].closing = plans[k].closing
             /\ k # req[r].prev => /\ t[k].status = plans[k].status
                                   /\ t[k].supersededBy = plans[k].supersededBy
             /\ k = req[r].prev => /\ t[k].status = "superseded"
                                   /\ t[k].supersededBy = n
    BY PlanUpdates, PlanColumns DEF TypeOK, SamePlanFacts
  <1>2. n \notin DOMAIN plans /\ n # 0 /\ DOMAIN t = DOMAIN plans \cup {n}
        /\ \A k \in DOMAIN plans : k < n
    BY <1>1
  <1>3. \A k \in DOMAIN plans : plans[k].supersededBy # n
    BY <1>2 DEF Linked
  <1> HIDE DEF t, n
  <1>4. \A k \in DOMAIN t : t[k].supersededBy # 0 =>
          /\ t[k].supersededBy \in DOMAIN t
          /\ k < t[k].supersededBy
          /\ t[t[k].supersededBy].issue = t[k].issue
    <2> SUFFICES ASSUME NEW k \in DOMAIN t, t[k].supersededBy # 0
                 PROVE  /\ t[k].supersededBy \in DOMAIN t
                        /\ k < t[k].supersededBy
                        /\ t[t[k].supersededBy].issue = t[k].issue
      OBVIOUS
    <2>1. k \in DOMAIN plans
      BY <1>1, <1>2
    <2>2. CASE k = req[r].prev
      BY <1>1, <1>2, <2>1, <2>2
    <2>3. CASE k # req[r].prev
      <3>1. PICK m : m = plans[k].supersededBy
        OBVIOUS
      <3>2. t[k].supersededBy = m
        BY <1>1, <2>1, <2>3, <3>1
      <3>3. m \in DOMAIN plans /\ k < m /\ plans[m].issue = plans[k].issue
        BY <2>1, <3>1, <3>2 DEF Linked
      <3>4. t[m].issue = plans[m].issue /\ t[k].issue = plans[k].issue
        BY <1>1, <2>1, <3>3
      <3> QED
        BY <1>2, <3>2, <3>3, <3>4
    <2> QED
      BY <2>2, <2>3
  <1>5. \A j, k \in DOMAIN t :
          t[j].supersededBy = t[k].supersededBy /\ t[j].supersededBy # 0 => j = k
    <2> DEFINE p == req[r].prev
    <2>1. \A k \in DOMAIN t : t[k].supersededBy # 0 =>
            /\ k \in DOMAIN plans
            /\ \/ k = p /\ t[k].supersededBy = n
               \/ k # p /\ t[k].supersededBy = plans[k].supersededBy
      BY <1>1, <1>2
    <2>2. \A j, k \in DOMAIN plans :
            plans[j].supersededBy = plans[k].supersededBy
              /\ plans[j].supersededBy # 0 => j = k
      BY DEF Linked
    <2> HIDE DEF p
    <2> QED
      BY <1>3, <2>1, <2>2
  <1>6. ASSUME NEW k \in DOMAIN t
        PROVE  /\ t[k].status = "active" => t[k].supersededBy = 0 /\ t[k].closing = {}
               /\ t[k].status = "superseded" => t[k].supersededBy # 0
               /\ t[k].status = "deleted" => t[k].closing # {}
    <2>1. CASE k = n
      BY <1>1, <2>1
    <2>2. CASE k \in DOMAIN plans /\ k = req[r].prev
      BY <1>1, <1>2, <2>2
    <2>3. CASE k \in DOMAIN plans /\ k # req[r].prev
      BY <1>1, <2>3 DEF Linked
    <2> QED
      BY <1>2, <2>1, <2>2, <2>3
  <1>7. Linked(t)
    BY <1>4, <1>5, <1>6 DEF Linked
  <1> QED
    BY <1>7 DEF t

\* The unique index: what is active after the transaction is the new plan, or
\* was active before on another issue.
LEMMA OneActiveKept ==
  ASSUME TypeOK, NEW r \in Request, OneActivePlan,
         \/ plans' = Closed(r)
         \/ plans' = Replaced(r) /\ ~Conflict(r)
  PROVE  OneActivePlan'
  <1> DEFINE q == Retired(req[r].prev)
             n == Len(plans) + 1
  <1>1. CASE plans' = Closed(r)
    <2>1. /\ DOMAIN plans' = DOMAIN plans
          /\ \A k \in DOMAIN plans :
               /\ plans'[k].issue = plans[k].issue
               /\ plans'[k].status = "active" => plans[k].status = "active"
      BY <1>1, PlanUpdates DEF TypeOK, SamePlanFacts
    <2> QED
      BY <2>1 DEF OneActivePlan, ActiveIn
  <1>2. CASE plans' = Replaced(r) /\ ~Conflict(r)
    <2>1. /\ DOMAIN plans' = DOMAIN plans \cup {n}
          /\ plans'[n].issue = EventOf(r).issue
          /\ DOMAIN q = DOMAIN plans
          /\ \A k \in DOMAIN plans :
               /\ plans'[k].issue = plans[k].issue /\ q[k].issue = plans[k].issue
               /\ plans'[k].status = "active" =>
                    plans[k].status = "active" /\ q[k].status = "active"
      <3> DEFINE t == Replaced(r)
      <3>1. /\ DOMAIN t = 1 .. Len(plans) + 1 /\ DOMAIN plans = 1 .. Len(plans)
            /\ Len(plans) \in Nat
            /\ t[Len(plans) + 1] = NewPlan(r)
            /\ DOMAIN q = DOMAIN plans
            /\ \A k \in DOMAIN plans :
                 /\ SamePlanFacts(t[k], plans[k]) /\ SamePlanFacts(q[k], plans[k])
                 /\ k # req[r].prev => t[k] = plans[k] /\ q[k] = plans[k]
                 /\ k = req[r].prev => t[k].status = "superseded"
        BY PlanUpdates DEF TypeOK
      <3> HIDE DEF t, q
      <3>2. DOMAIN t = DOMAIN plans \cup {n} /\ t[n].issue = EventOf(r).issue
        BY <3>1, PlanColumns
      <3>3. \A k \in DOMAIN plans :
              /\ t[k].issue = plans[k].issue /\ q[k].issue = plans[k].issue
              /\ t[k].status = "active" =>
                   plans[k].status = "active" /\ q[k].status = "active"
        BY <3>1 DEF SamePlanFacts
      <3> QED
        BY <1>2, <3>1, <3>2, <3>3 DEF t
    <2>2. \A k \in DOMAIN plans : plans'[k].status = "active" =>
            plans'[k].issue # EventOf(r).issue
      BY <1>2, <2>1 DEF Conflict, ActiveIn
    <2> HIDE DEF q, n
    <2> QED
      BY <2>1, <2>2 DEF OneActivePlan, ActiveIn
  <1> QED
    BY <1>1, <1>2

----------------------------------------------------------------------------
\* The invariant

LEMMA PlanMoveKeeps ==
  ASSUME TypeOK, PlanInv, NEW r \in Request, PlanMove(r)
  PROVE  PlanInv'
  <1>1. Linked(plans) /\ OneActivePlan /\ \A s \in Request : PlanPrevInv(s)
    BY DEF PlanInv, Linked, PlanChains, PlanStatusMatchesLink
  <1>2. /\ DOMAIN plans \subseteq DOMAIN plans'
        /\ \A k \in DOMAIN plans : plans'[k].issue = plans[k].issue
    BY PlanUpdates DEF TypeOK, PlanMove, SamePlanFacts
  <1>3. \A s \in Request : PlanPrevInv(s)'
    <2> SUFFICES ASSUME NEW s \in Request PROVE PlanPrevInv(s)'
      OBVIOUS
    <2>1. EventOf(s)' = EventOf(s)
      BY DEF PlanMove, EventOf
    <2>2. CASE s # r
      BY <1>1, <1>2, <2>1, <2>2 DEF PlanMove, PlanPrevInv
    <2>3. CASE s = r
      <3>1. CASE req'[r].pc \notin Early \cup Acting
        BY <2>3, <3>1 DEF PlanPrevInv, Early, Acting
      <3>2. CASE req[r].pc \in Early /\ req'[r].prev = req[r].prev
        BY <1>1, <2>3, <3>2 DEF PlanPrevInv, Early
      <3>3. CASE /\ req'[r].pc \in Acting
                 /\ req'[r].prev \in ActiveIn(plans, EventOf(r).issue)
        BY <1>2, <2>1, <2>3, <3>3 DEF PlanPrevInv, Acting, ActiveIn
      <3> QED
        BY <3>1, <3>2, <3>3 DEF PlanMove
    <2> QED
      BY <2>2, <2>3
  <1>4. Linked(plans')
    <2>1. req[r].pc = "replace" =>
            \/ req[r].prev \notin DOMAIN plans
            \/ plans[req[r].prev].issue = EventOf(r).issue
      BY <1>1, PlanColumns DEF PlanPrevInv
    <2> QED
      BY <1>1, <2>1, ClosedLinked, ReplacedLinked DEF PlanMove
  <1>5. OneActivePlan'
    <2>1. CASE plans' = plans
      BY <1>1, <2>1 DEF OneActivePlan
    <2> QED
      BY <1>1, <2>1, OneActiveKept DEF PlanMove
  <1> QED
    BY <1>3, <1>4, <1>5
    DEF PlanInv, Linked, PlanChains, PlanStatusMatchesLink

\* What a move may do to a plan that is there: close it.
LEMMA PlansOnlyClose ==
  ASSUME TypeOK, NEW r \in Request, PlanMove(r)
  PROVE  /\ Len(plans) \in Nat /\ DOMAIN plans = 1 .. Len(plans)
         /\ \/ DOMAIN plans' = DOMAIN plans
            \/ /\ DOMAIN plans' = 1 .. Len(plans) + 1
               /\ \A k \in DOMAIN plans :
                    plans'[k].status = "active"
                      => plans'[k].issue # plans'[Len(plans) + 1].issue
         /\ \A k \in DOMAIN plans :
              /\ plans'[k].issue = plans[k].issue
              /\ plans'[k].status = "active" => plans[k].status = "active"
  <1>1. Len(plans) \in Nat /\ DOMAIN plans = 1 .. Len(plans)
    BY PlanColumns
  <1>2. CASE plans' = plans
    BY <1>1, <1>2
  <1>3. CASE plans' = Closed(r)
    BY <1>1, <1>3, PlanUpdates DEF TypeOK, SamePlanFacts
  <1>4. CASE plans' = Replaced(r) /\ ~Conflict(r)
    <2> DEFINE q == Retired(req[r].prev)
               t == Replaced(r)
    <2>1. /\ DOMAIN t = 1 .. Len(plans) + 1
          /\ t[Len(plans) + 1] = NewPlan(r)
          /\ DOMAIN q = DOMAIN plans
          /\ \A k \in DOMAIN plans :
               /\ SamePlanFacts(t[k], plans[k]) /\ SamePlanFacts(q[k], plans[k])
               /\ k # req[r].prev => t[k] = plans[k] /\ q[k] = plans[k]
               /\ k = req[r].prev => t[k].status = "superseded"
      BY PlanUpdates DEF TypeOK
    <2>2. \A k \in DOMAIN plans :
            q[k].status = "active" => q[k].issue # EventOf(r).issue
      BY <1>4, <2>1 DEF Conflict, ActiveIn
    <2> HIDE DEF q, t
    <2>3. t[Len(plans) + 1].issue = EventOf(r).issue
      BY <2>1, PlanColumns
    <2>4. \A k \in DOMAIN plans :
            /\ t[k].issue = plans[k].issue
            /\ t[k].status = "active" =>
                 plans[k].status = "active" /\ t[k].issue # t[Len(plans) + 1].issue
      BY <2>1, <2>2, <2>3 DEF SamePlanFacts
    <2> QED
      BY <1>1, <1>4, <2>1, <2>4 DEF t
  <1> QED
    BY <1>2, <1>3, <1>4 DEF PlanMove

\* /plan and /unplan keep the book in order, however they overlap, fail or
\* crash, and however stale the plan they act on: PlanInv is inductive.
THEOREM PlansCorrect == Spec => []PlanInv
  <1>1. Init => PlanInv
    BY DEF Init, WebhookInit, TimeInit, PlanInit, PlanInv, PlanPrevInv, Fresh,
           PlanChains, PlanStatusMatchesLink, OneActivePlan, ActiveIn
  <1>2. TypeOK /\ PlanInv /\ [Next]_vars => PlanInv'
    <2>1. TypeOK /\ PlanInv /\ UNCHANGED vars => PlanInv'
      BY DEF vars, PlanInv, PlanPrevInv, PlanChains, PlanStatusMatchesLink,
             OneActivePlan, EventOf
    <2> QED
      BY <2>1, EveryStepMoves, PlanMoveKeeps
  <1> QED
    BY <1>1, <1>2, TypeCorrect, PTL DEF Spec

\* An issue never has two active plans.
THEOREM AtMostOneActivePlan == Spec => []OneActivePlan
  <1>1. PlanInv => OneActivePlan
    BY DEF PlanInv
  <1> QED
    BY <1>1, PlansCorrect, PTL

\* Replaced plans form chains in order of creation, on one issue and without
\* merging, although ReplacePlan acts on a plan found in an earlier statement.
THEOREM PlanChainsSound == Spec => []PlanChains
  <1>1. PlanInv => PlanChains
    BY DEF PlanInv
  <1> QED
    BY <1>1, PlansCorrect, PTL

\* The status of a plan tells how it ended: replaced by a later one, or removed
\* by an /unplan that the row names.
THEOREM PlanStatusSound == Spec => []PlanStatusMatchesLink
  <1>1. PlanInv => PlanStatusMatchesLink
    BY DEF PlanInv
  <1> QED
    BY <1>1, PlansCorrect, PTL

=============================================================================
