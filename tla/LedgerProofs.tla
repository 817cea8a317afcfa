---------------------------- MODULE LedgerProofs ----------------------------
(***************************************************************************)
(* Commands that come one at a time, none of which fails, implement the    *)
(* atomic commands of PlanLedger and TimeLedger, whichever they are and    *)
(* however many.  A report beside them names the latest plan, counts only  *)
(* one entry of a correction, and its durations and verdicts are exact     *)
(* within their bounds.                                                    *)
(***************************************************************************)
EXTENDS ChainProofs, PlanReport, FiniteSetTheorems

----------------------------------------------------------------------------
\* One at a time

\* Where a goroutine acts on what it has found or is about to insert.
Busy == {"relabel", "insert", "supersede", "softdelete"} \cup Acting

\* No two goroutines are in flight.
Alone == \A r, s \in Request : InFlight(r) /\ InFlight(s) => r = s

\* What the active row a command has found is to its ledger: the latest of the
\* first n entries that its author has on the issue.
LatestOf(n, k, u, i) ==
  /\ k \in ActiveEntries(u, i) /\ k <= n
  /\ \A l \in ActiveEntries(u, i) : l <= n => l <= k

\* What a goroutine has found is still so when it acts, and the entry that a
\* /correct has created is still as it was, and the last.
Turn(r) ==
  LET u == EventOf(r).user
      i == EventOf(r).issue
      n == Len(entries)
  IN  /\ req[r].pc = "replace" =>
           IF req[r].prev = 0 THEN ActiveIn(plans, i) = {}
           ELSE req[r].prev \in ActiveIn(plans, i)
      /\ req[r].pc = "softdeleteplan" => req[r].prev \in ActiveIn(plans, i)
      /\ HasPrev(r) /\ req[r].pc # "supersede" => LatestOf(n, req[r].prev, u, i)
      /\ req[r].pc = "insert" => req[r].since = n
      /\ req[r].pc = "supersede" =>
           /\ req[r].new = n /\ n \in DOMAIN entries
           /\ LatestOf(n - 1, req[r].prev, u, i)
           /\ entries[n] = [source |-> r[1], user |-> u, issue |-> i,
                            client |-> req[r].client, createdAt |-> n - 1,
                            status |-> "active", supersededBy |-> 0]

\* created_at and id give the entries the same order.
InOrder == \A k \in DOMAIN entries : entries[k].createdAt = k - 1

SerialInv ==
  /\ Alone
  /\ InOrder
  /\ \A r \in Request : Turn(r)

\* A goroutine that takes a step is in flight, or arrives.
LEMMA StepsInFlight ==
  ASSUME NEW r \in Request, Step(r)
  PROVE  InFlight(r)
  BY DEF Step, Claim, Dispatch, Post, TimeStep, LabelLog, FindEntry,
     LabelCorrection, CreateEntry, SupersedeEntry, SoftDeleteEntry, PlanStep,
     FindPlan, ReplacePlan, SoftDeletePlan, InFlight, Over

\* Whoever takes a step is alone with it.
LEMMA OneSteps ==
  ASSUME TypeOK, SerialInv, [SerialNext]_vars
  PROVE  \/ UNCHANGED vars
         \/ \E r \in Request :
              /\ Arrive(r) \/ Step(r)
              /\ \A s \in Request : s # r => req'[s] = req[s] /\ ~InFlight(s)
  <1>1. ASSUME NEW r \in Request, Arrive(r) \/ Step(r)
        PROVE  \A s \in Request : s # r => req'[s] = req[s]
    <2>1. ReplyMove(r)
      BY <1>1, DeliveryReplies, TimeReplies, PlanReplies DEF Arrive, Step
    <2> QED
      BY <2>1 DEF ReplyMove
  <1>2. ASSUME NEW r \in Request, Quiet /\ Arrive(r)
        PROVE  \A s \in Request : s # r => ~InFlight(s)
    BY <1>2 DEF Quiet
  <1>3. ASSUME NEW r \in Request, Step(r)
        PROVE  \A s \in Request : s # r => ~InFlight(s)
    BY <1>3, StepsInFlight DEF SerialInv, Alone
  <1> QED
    BY <1>1, <1>2, <1>3 DEF SerialNext, Finished

----------------------------------------------------------------------------
\* What a step does to the goroutine that takes it and to the tables

\* The SELECTs and the steps between them, which leave the tables alone.
Prepares(r) ==
  /\ UNCHANGED <<entries, plans>>
  /\ \/ req'[r].pc \notin Busy
     \/ req[r].pc = "log" /\ req'[r].pc = "insert" /\ req'[r].since = Len(entries)
     \/ /\ req'[r].pc \in {"relabel", "softdelete"}
        /\ req'[r].prev \in LatestActive(EventOf(r).user, EventOf(r).issue)
     \/ /\ req[r].pc = "relabel" /\ req'[r].pc = "insert"
        /\ req'[r].since = Len(entries) /\ req'[r].prev = req[r].prev
     \/ /\ req[r].pc = "plan" /\ req'[r].pc = "replace"
        /\ req'[r].prev = req[r].prev /\ ActiveIn(plans, EventOf(r).issue) = {}
     \/ /\ req'[r].pc \in Acting
        /\ req'[r].prev \in ActiveIn(plans, EventOf(r).issue)

\* CreateEntry, of a /log or of a /correct.
Inserts(r) ==
  /\ req[r].pc = "insert"
  /\ entries' = Append(entries, NewEntry(r)) /\ plans' = plans
  /\ \/ req'[r].pc = "post" /\ EventOf(r).cmd # "correct"
     \/ /\ req'[r].pc = "supersede" /\ EventOf(r).cmd = "correct"
        /\ req'[r].new = Len(entries) + 1
        /\ req'[r].prev = req[r].prev /\ req'[r].client = req[r].client

\* The UPDATEs, after which the reply is due.
Updates(r) ==
  /\ req'[r].pc = "post"
  /\ \/ /\ req[r].pc = "supersede" /\ plans' = plans
        /\ entries' = Superseded(req[r].prev, req[r].new)
     \/ /\ req[r].pc = "softdelete" /\ plans' = plans
        /\ entries' = SoftDeleted(req[r].prev)
     \/ /\ req[r].pc = "replace" /\ entries' = entries
        /\ plans' = IF Conflict(r) THEN plans ELSE Replaced(r)
     \/ /\ req[r].pc = "softdeleteplan" /\ entries' = entries
        /\ plans' = Closed(r)

\* Every step is one of these.
Acts(r) ==
  /\ UNCHANGED event
  /\ \/ Prepares(r) /\ req[r].pc # "supersede"
     \/ Inserts(r)
     \/ Updates(r)

LEMMA DeliveryActs ==
  ASSUME TypeOK, NEW r \in Request, UNCHANGED <<entries, plans>>,
         \/ Receive(r) \/ RejectSignature(r) \/ Claim(r) \/ Dispatch(r) \/ Post(r)
  PROVE  Acts(r)
  <1>1. WebhookTypeOK
    BY DEF TypeOK
  <1>2. Over \cap Busy = {} /\ Commands \cap Busy = {}
    BY DEF Over, Commands, Busy, Acting
  <1>3. UNCHANGED event /\ req[r].pc # "supersede"
    BY DEF Receive, RejectSignature, Claim, Dispatch, Post
  <1>4. CASE \E pc \in Over : End(r, pc)
    BY <1>1, <1>2, <1>3, <1>4, Records DEF Acts, Prepares
  <1>5. CASE ReplyError(r)
    BY <1>1, <1>3, <1>5, Records DEF Acts, Prepares, Busy, Acting
  <1>6. CASE \E pc \in Commands \cup {"claim", "dispatch"} : Goto(r, pc)
    <2>1. req'[r].pc \notin Busy
      BY <1>1, <1>2, <1>6, Records DEF Busy, Acting
    <2> QED
      BY <1>3, <2>1 DEF Acts, Prepares
  <1> QED
    BY <1>4, <1>5, <1>6
    DEF Receive, RejectSignature, Claim, Dispatch, Post, Over

LEMMA TimeActs ==
  ASSUME TypeOK, NEW r \in Request, TimeStep(r), UNCHANGED plans
  PROVE  Acts(r)
  <1>1. WebhookTypeOK /\ UNCHANGED event
    BY DEF TypeOK, TimeStep, LabelLog, FindEntry, LabelCorrection, CreateEntry,
           SupersedeEntry, SoftDeleteEntry
  <1>2. PICK h \in Goroutine : h = req[r]
    BY <1>1, Facts
  <1>3. ASSUME NEW g, req' = [req EXCEPT ![r] = g]
        PROVE  req'[r] = g
    BY <1>1, <1>3 DEF WebhookTypeOK
  <1>4. CASE LabelLog(r)
    <2>1. PICK c : req' = [req EXCEPT ![r] = [h EXCEPT !.pc = "insert",
                             !.client = c, !.since = Len(entries)]]
      BY <1>2, <1>4 DEF LabelLog
    <2> DEFINE g == [h EXCEPT !.pc = "insert", !.client = c, !.since = Len(entries)]
    <2>2. g.pc = "insert" /\ g.since = Len(entries)
      BY DEF Goroutine
    <2>3. req' = [req EXCEPT ![r] = g]
      BY <2>1
    <2> HIDE DEF g
    <2> QED
      BY <1>1, <1>3, <1>4, <2>2, <2>3 DEF Acts, Prepares, LabelLog
  <1>5. CASE FindEntry(r)
    <2>1. CASE ReplyError(r)
      BY <1>1, <1>5, <2>1, Records DEF Acts, Prepares, FindEntry, Busy, Acting
    <2>2. CASE ~ReplyError(r)
      <3> DEFINE next == IF h.pc = "correct" THEN "relabel" ELSE "softdelete"
      <3>1. PICK k \in LatestActive(EventOf(r).user, EventOf(r).issue) :
              req' = [req EXCEPT ![r] = [h EXCEPT !.prev = k,
                        !.client = entries[k].client, !.pc = next]]
        BY <1>2, <1>5, <2>2 DEF FindEntry
      <3> DEFINE g == [h EXCEPT !.prev = k, !.client = entries[k].client, !.pc = next]
      <3>2. g.pc \in {"relabel", "softdelete"} /\ g.prev = k
        BY DEF Goroutine
      <3>3. req' = [req EXCEPT ![r] = g]
        BY <3>1
      <3> HIDE DEF g
      <3> QED
        BY <1>1, <1>3, <1>5, <3>2, <3>3 DEF Acts, Prepares, FindEntry
    <2> QED
      BY <2>1, <2>2
  <1>6. CASE LabelCorrection(r)
    <2> DEFINE g == [h EXCEPT !.pc = "insert", !.since = Len(entries)]
    <2>1. req' = [req EXCEPT ![r] = g]
      BY <1>2, <1>6 DEF LabelCorrection
    <2>2. g.pc = "insert" /\ g.since = Len(entries) /\ g.prev = h.prev
      BY DEF Goroutine
    <2> HIDE DEF g
    <2> QED
      BY <1>1, <1>2, <1>3, <1>6, <2>1, <2>2 DEF Acts, Prepares, LabelCorrection
  <1>7. CASE CreateEntry(r)
    <2> DEFINE n == Len(entries) + 1
               s == [h EXCEPT !.pc = "supersede", !.new = n]
               p == [h EXCEPT !.pc = "post", !.new = n, !.reply = "logged"]
               g == IF EventOf(r).cmd = "correct" THEN s ELSE p
    <2>1. req' = [req EXCEPT ![r] = g]
      BY <1>2, <1>7 DEF CreateEntry
    <2>2. /\ s.pc = "supersede" /\ s.new = n /\ s.prev = h.prev /\ s.client = h.client
          /\ p.pc = "post"
      BY DEF Goroutine
    <2>3. req'[r] = g
      BY <1>3, <2>1
    <2> HIDE DEF s, p
    <2> QED
      BY <1>1, <1>2, <1>7, <2>2, <2>3 DEF Acts, Inserts, CreateEntry
  <1>8. CASE SupersedeEntry(r) \/ SoftDeleteEntry(r)
    <2>1. req'[r].pc = "post"
      BY <1>1, <1>8, Records DEF SupersedeEntry, SoftDeleteEntry
    <2> QED
      BY <1>1, <1>8, <2>1 DEF Acts, Updates, SupersedeEntry, SoftDeleteEntry
  <1> QED
    BY <1>4, <1>5, <1>6, <1>7, <1>8 DEF TimeStep

LEMMA PlanActs ==
  ASSUME TypeOK, NEW r \in Request, PlanStep(r), UNCHANGED entries
  PROVE  Acts(r)
  <1>1. WebhookTypeOK /\ UNCHANGED event
    BY DEF TypeOK, PlanStep, FindPlan, ReplacePlan, SoftDeletePlan
  <1>2. PICK h \in Goroutine : h = req[r]
    BY <1>1, Facts
  <1>3. ASSUME NEW g, req' = [req EXCEPT ![r] = g]
        PROVE  req'[r] = g
    BY <1>1, <1>3 DEF WebhookTypeOK
  <1>4. CASE FindPlan(r)
    <2> DEFINE found == ActiveIn(plans, EventOf(r).issue)
               next == IF h.pc = "plan" THEN "replace" ELSE "softdeleteplan"
    <2>1. CASE ReplyError(r)
      BY <1>1, <1>4, <2>1, Records DEF Acts, Prepares, FindPlan, Busy, Acting
    <2>2. CASE found = {} /\ h.pc = "plan" /\ Goto(r, "replace")
      BY <1>1, <1>2, <1>4, <2>2, Records DEF Acts, Prepares, FindPlan
    <2>3. CASE \E k \in found :
                 req' = [req EXCEPT ![r] = [h EXCEPT !.pc = next, !.prev = k]]
      <3>1. PICK k \in found :
              req' = [req EXCEPT ![r] = [h EXCEPT !.pc = next, !.prev = k]]
        BY <2>3
      <3> DEFINE g == [h EXCEPT !.pc = next, !.prev = k]
      <3>2. g.pc \in Acting /\ g.prev = k
        BY DEF Goroutine, Acting
      <3>3. req' = [req EXCEPT ![r] = g]
        BY <3>1
      <3> HIDE DEF g
      <3> QED
        BY <1>1, <1>3, <1>4, <3>2, <3>3 DEF Acts, Prepares, FindPlan
    <2>4. \/ ReplyError(r)
          \/ found = {} /\ h.pc = "plan" /\ Goto(r, "replace")
          \/ \E k \in found :
               req' = [req EXCEPT ![r] = [h EXCEPT !.pc = next, !.prev = k]]
      BY <1>2, <1>4 DEF FindPlan
    <2> QED
      BY <2>1, <2>2, <2>3, <2>4
  <1>5. CASE ReplacePlan(r)
    <2>1. CASE ReplyError(r) /\ Conflict(r)
      <3>1. req'[r].pc = "post"
        BY <1>1, <2>1, Records
      <3> QED
        BY <1>1, <1>5, <2>1, <3>1 DEF Acts, Updates, ReplacePlan
    <2>2. CASE ~Conflict(r)
      <3> DEFINE kind == IF h.prev = 0 THEN "planned" ELSE "replanned"
                 g == [h EXCEPT !.pc = "post", !.new = Len(plans) + 1, !.reply = kind]
      <3>1. g.pc = "post"
        BY DEF Goroutine
      <3>2. req' = [req EXCEPT ![r] = g]
        BY <1>2, <1>5, <2>2 DEF ReplacePlan
      <3> HIDE DEF g
      <3>3. req'[r].pc = "post"
        BY <1>3, <3>1, <3>2
      <3> QED
        BY <1>1, <1>5, <2>2, <3>3 DEF Acts, Updates, ReplacePlan
    <2> QED
      BY <1>5, <2>1, <2>2 DEF ReplacePlan
  <1>6. CASE SoftDeletePlan(r)
    <2>1. req'[r].pc = "post"
      BY <1>1, <1>6, Records DEF SoftDeletePlan
    <2> QED
      BY <1>1, <1>6, <2>1 DEF Acts, Updates, SoftDeletePlan
  <1> QED
    BY <1>4, <1>5, <1>6 DEF PlanStep

LEMMA OneActs ==
  ASSUME TypeOK, SerialInv, [SerialNext]_vars
  PROVE  \/ UNCHANGED vars
         \/ \E r \in Request :
              /\ Acts(r)
              /\ \A s \in Request : s # r => req'[s] = req[s] /\ ~InFlight(s)
  BY OneSteps, DeliveryActs, TimeActs, PlanActs DEF Arrive, Step

----------------------------------------------------------------------------
\* What was found is still so

LEMMA TurnInit == Init => SerialInv
  BY DEF Init, WebhookInit, TimeInit, PlanInit, SerialInv, Alone, InFlight,
         InOrder, Turn, HasPrev, Fresh

\* The entry that FindLatestActive returns is the latest in the ledger.
LEMMA LatestFound ==
  ASSUME TypeOK, InOrder, NEW u, NEW i, NEW k \in LatestActive(u, i)
  PROVE  LatestOf(Len(entries), k, u, i)
  BY DEF TypeOK, TimeTypeOK, InOrder, LatestActive, ActiveEntries, LatestOf

\* What a SELECT returns is so when it returns, and r alone could change it.
LEMMA PreparedTurn ==
  ASSUME TypeOK, TypeOK', ChainInv, PlanInv, SerialInv,
         NEW r \in Request, UNCHANGED event, Prepares(r)
  PROVE  Turn(r)'
  <1> DEFINE u == EventOf(r).user
             i == EventOf(r).issue
  <1>1. UNCHANGED <<entries, plans>> /\ EventOf(r)' = EventOf(r)
    BY DEF Prepares, EventOf
  <1>2. ActiveIn(plans, i)' = ActiveIn(plans, i) /\ 0 \notin ActiveIn(plans, i)
    BY <1>1 DEF TypeOK, PlanTypeOK, ActiveIn
  <1>3. \A n, k : LatestOf(n, k, u, i)' <=> LatestOf(n, k, u, i)
    BY <1>1 DEF LatestOf, ActiveEntries
  <1>4. Len(entries)' = Len(entries)
    BY <1>1
  <1>5. CASE req'[r].pc \notin Busy
    BY <1>5 DEF Turn, HasPrev, Busy, Acting
  <1>6. CASE req[r].pc = "log" /\ req'[r].pc = "insert" /\ req'[r].since = Len(entries)
    <2>1. EventOf(r).cmd = "log"
      BY <1>6 DEF ChainInv, AtItsCommand, Commands
    <2> QED
      BY <1>1, <1>4, <1>6, <2>1 DEF Turn, HasPrev
  <1>7. CASE /\ req'[r].pc \in {"relabel", "softdelete"}
             /\ req'[r].prev \in LatestActive(u, i)
    <2>1. LatestOf(Len(entries), req'[r].prev, u, i)
      BY <1>7, LatestFound DEF SerialInv
    <2> QED
      BY <1>1, <1>3, <1>4, <1>7, <2>1 DEF Turn
  <1>8. CASE /\ req[r].pc = "relabel" /\ req'[r].pc = "insert"
             /\ req'[r].since = Len(entries) /\ req'[r].prev = req[r].prev
    <2>1. LatestOf(Len(entries), req[r].prev, u, i)
      BY <1>8 DEF SerialInv, Turn, HasPrev
    <2> QED
      BY <1>1, <1>3, <1>4, <1>8, <2>1 DEF Turn
  <1>9. CASE /\ req[r].pc = "plan" /\ req'[r].pc = "replace"
             /\ req'[r].prev = req[r].prev /\ ActiveIn(plans, i) = {}
    <2>1. req[r].prev = 0
      BY <1>9 DEF PlanInv, PlanPrevInv
    <2> QED
      BY <1>1, <1>2, <1>9, <2>1 DEF Turn, HasPrev
  <1>10. CASE req'[r].pc \in Acting /\ req'[r].prev \in ActiveIn(plans, i)
    BY <1>1, <1>2, <1>10 DEF Turn, HasPrev, Acting
  <1> QED
    BY <1>5, <1>6, <1>7, <1>8, <1>9, <1>10 DEF Prepares

\* CreateEntry appends a row with the client chosen for it, numbered and dated
\* in turn.
LEMMA InsertedTurn ==
  ASSUME TypeOK, TypeOK', SerialInv, NEW r \in Request, UNCHANGED event, Inserts(r)
  PROVE  Turn(r)' /\ InOrder'
  <1> DEFINE u == EventOf(r).user
             i == EventOf(r).issue
  <1>1. PICK n : n = Len(entries)
    OBVIOUS
  <1>2. /\ entries' \in Seq(Entry) /\ entries \in Seq(Entry) /\ n \in Nat
        /\ DOMAIN entries = 1 .. n /\ DOMAIN entries' = 1 .. n + 1
        /\ Len(entries') = n + 1
        /\ entries'[n + 1] = NewEntry(r)
        /\ \A k \in 1 .. n : entries'[k] = entries[k]
    <2>1. entries \in Seq(Entry) /\ entries' \in Seq(Entry)
      BY DEF TypeOK, TimeTypeOK
    <2>2. entries' = Append(entries, NewEntry(r))
      BY DEF Inserts
    <2> QED
      BY <1>1, <2>1, <2>2
  <1>3. EventOf(r)' = EventOf(r)
    BY DEF EventOf
  <1>4. req[r].since = n
    BY <1>1 DEF SerialInv, Turn, Inserts
  <1>5. InOrder'
    <2>1. entries'[n + 1].createdAt = n
      BY <1>2, <1>4 DEF NewEntry
    <2>2. \A k \in 1 .. n : entries'[k].createdAt = k - 1
      BY <1>2 DEF SerialInv, InOrder
    <2> QED
      BY <1>2, <2>1, <2>2 DEF InOrder
  <1>6. CASE req'[r].pc = "post"
    BY <1>5, <1>6 DEF Turn, HasPrev
  <1>7. CASE /\ req'[r].pc = "supersede" /\ EventOf(r).cmd = "correct"
             /\ req'[r].new = n + 1
             /\ req'[r].prev = req[r].prev /\ req'[r].client = req[r].client
    <2>1. LatestOf(n, req[r].prev, u, i)
      BY <1>1, <1>7 DEF SerialInv, Turn, HasPrev, Inserts
    <2>2. \A k \in 1 .. n : k \in ActiveEntries(u, i)' <=> k \in ActiveEntries(u, i)
      BY <1>2, <1>3 DEF ActiveEntries
    <2>3. ActiveEntries(u, i)' \subseteq 1 .. n + 1 /\ ActiveEntries(u, i) \subseteq 1 .. n
      BY <1>2 DEF ActiveEntries
    <2>4. LatestOf(n, req[r].prev, u, i)'
      <3>1. PICK k : k = req[r].prev
        OBVIOUS
      <3>2. req'[r].prev = k /\ k \in ActiveEntries(u, i)
        BY <1>7, <2>1, <3>1 DEF LatestOf
      <3>3. /\ k \in ActiveEntries(u, i)' /\ k <= n
            /\ \A l \in ActiveEntries(u, i)' : l <= n => l <= k
        BY <1>2, <2>1, <2>2, <2>3, <3>1, <3>2 DEF LatestOf
      <3> QED
        BY <3>1, <3>2, <3>3 DEF LatestOf
    <2>5. NewEntry(r) = [source |-> r[1], user |-> u, issue |-> i,
                         client |-> req'[r].client, createdAt |-> n,
                         status |-> "active", supersededBy |-> 0]
      BY <1>4, <1>7 DEF NewEntry
    <2>6. Len(entries)' = n + 1 /\ n + 1 - 1 = n /\ n + 1 \in DOMAIN entries'
      BY <1>2
    <2> QED
      BY <1>2, <1>3, <1>5, <1>7, <2>4, <2>5, <2>6 DEF Turn, HasPrev
  <1> QED
    BY <1>1, <1>6, <1>7 DEF Inserts

\* The UPDATEs leave created_at alone, and nothing to be found.
LEMMA UpdatedTurn ==
  ASSUME TypeOK, SerialInv, NEW r \in Request, Updates(r)
  PROVE  Turn(r)' /\ InOrder'
  <1>1. req[r].prev \in Nat /\ req[r].new \in Nat
    BY DEF TypeOK, WebhookTypeOK, Goroutine
  <1>2. /\ DOMAIN entries' = DOMAIN entries
        /\ \A k \in DOMAIN entries : entries'[k].createdAt = entries[k].createdAt
    BY <1>1, EntryUpdates DEF TypeOK, Updates, SameFacts
  <1> QED
    BY <1>2 DEF Updates, Turn, HasPrev, SerialInv, InOrder

\* Every step of serial commands keeps what was found up to date.
LEMMA SerialKept ==
  ASSUME TypeOK, TypeOK', ChainInv, PlanInv, SerialInv, [SerialNext]_vars
  PROVE  SerialInv'
  <1>1. CASE UNCHANGED vars
    BY <1>1 DEF vars, SerialInv, Alone, InFlight, InOrder, Turn, HasPrev, LatestOf,
                ActiveEntries, ActiveIn, EventOf
  <1>2. ASSUME NEW r \in Request, Acts(r),
               \A s \in Request : s # r => req'[s] = req[s] /\ ~InFlight(s)
        PROVE  SerialInv'
    <2>1. \A s \in Request : s # r => ~InFlight(s)'
      BY <1>2 DEF InFlight
    <2>2. \A s \in Request : ~InFlight(s)' => Turn(s)'
      BY DEF InFlight, Over, Turn, HasPrev
    <2>3. Turn(r)' /\ InOrder'
      <3>1. CASE Prepares(r)
        BY <1>2, <3>1, PreparedTurn DEF Acts, Prepares, SerialInv, InOrder
      <3> QED
        BY <1>2, <3>1, InsertedTurn, UpdatedTurn DEF Acts
    <2> QED
      BY <2>1, <2>2, <2>3 DEF SerialInv, Alone
  <1> QED
    BY <1>1, <1>2, OneActs

----------------------------------------------------------------------------
\* Plans

\* A table that has one row more than f, and f's rows before it.
LEMMA AppendedTo ==
  ASSUME NEW S, NEW t \in Seq(S), NEW n \in Nat, DOMAIN t = 1 .. n + 1,
         NEW f \in [1 .. n -> S], \A k \in 1 .. n : f[k] = t[k]
  PROVE  t = Append(f, t[n + 1])
  <1>1. f \in Seq(S) /\ Len(f) = n
    OBVIOUS
  <1>2. Len(t) = n + 1 /\ t \in [1 .. n + 1 -> S]
    OBVIOUS
  <1>3. t[n + 1] \in S
    BY <1>2
  <1> DEFINE a == Append(f, t[n + 1])
  <1>4. /\ a \in Seq(S) /\ DOMAIN a = 1 .. n + 1 /\ a[n + 1] = t[n + 1]
        /\ \A k \in 1 .. n : a[k] = f[k]
    BY <1>1, <1>3, InsertRow
  <1> HIDE DEF a
  <1>5. a \in [1 .. n + 1 -> S]
    BY <1>4
  <1>6. \A k \in 1 .. n + 1 : a[k] = t[k]
    BY <1>4
  <1> QED
    BY <1>2, <1>5, <1>6 DEF a

LEMMA SamePlan ==
  ASSUME NEW a \in Plan, NEW b \in Plan, SamePlanFacts(a, b),
         a.status = b.status, a.supersededBy = b.supersededBy, a.closing = b.closing
  PROVE  a = b
  BY DEF Plan, SamePlanFacts

\* ReplacePlan is the atomic /plan: what it replaces is the active plan.
LEMMA ReplacePlanRefines ==
  ASSUME NoHeader = {}, TypeOK, TypeOK', ClaimInv, PlanInv, SerialInv,
         NEW r \in Request, req[r].pc = "replace",
         plans' = IF Conflict(r) THEN plans ELSE Replaced(r)
  PROVE  PlanBook!Plan(r[1], EventOf(r).user, EventOf(r).issue) \/ plans' = plans
  <1> DEFINE d == r[1]
             u == EventOf(r).user
             i == EventOf(r).issue
             next == [k \in DOMAIN plans |->
                        IF k \in PlanBook!Active(i)
                          THEN [plans[k] EXCEPT !.status = "superseded",
                                                !.supersededBy = Len(plans) + 1]
                          ELSE plans[k]]
  <1> SUFFICES ASSUME plans' = Replaced(r) PROVE PlanBook!Plan(d, u, i)
    OBVIOUS
  <1>1. PICK n \in Nat : n = Len(plans)
    BY DEF TypeOK, PlanTypeOK
  <1>2. /\ plans \in Seq(Plan) /\ DOMAIN plans = 1 .. n
        /\ Replaced(r) \in Seq(Plan) /\ DOMAIN Replaced(r) = 1 .. n + 1
        /\ Replaced(r)[n + 1] = NewPlan(r)
        /\ \A k \in 1 .. n :
             /\ Replaced(r)[k] \in Plan
             /\ k # req[r].prev => Replaced(r)[k] = plans[k]
             /\ SamePlanFacts(Replaced(r)[k], plans[k])
             /\ Replaced(r)[k].closing = plans[k].closing
             /\ k = req[r].prev => /\ Replaced(r)[k].status = "superseded"
                                   /\ Replaced(r)[k].supersededBy = n + 1
    <2>1. \A k \in DOMAIN Replaced(r) : Replaced(r)[k] \in Plan
      BY PlanUpdates DEF TypeOK
    <2>2. PICK t : t = Replaced(r)
      OBVIOUS
    <2>3. /\ plans \in Seq(Plan) /\ DOMAIN plans = 1 .. n
          /\ t \in Seq(Plan) /\ DOMAIN t = 1 .. n + 1
          /\ t[n + 1] = NewPlan(r)
      BY <1>1, <2>2, PlanUpdates DEF TypeOK, PlanTypeOK
    <2>4. \A k \in DOMAIN plans :
            /\ k # req[r].prev => t[k] = plans[k]
            /\ SamePlanFacts(t[k], plans[k])
            /\ t[k].closing = plans[k].closing
            /\ k = req[r].prev => t[k].status = "superseded" /\ t[k].supersededBy = n + 1
      BY <1>1, <2>2, PlanUpdates DEF TypeOK
    <2>5. \A k \in 1 .. n : t[k] \in Plan
      BY <2>1, <2>2, <2>3
    <2> QED
      BY <2>2, <2>3, <2>4, <2>5
  <1>3. \A k \in 1 .. n : k \in PlanBook!Active(i) <=> k = req[r].prev
    <2>1. PlanBook!Active(i) = ActiveIn(plans, i)
      BY DEF PlanBook!Active, ActiveIn
    <2>2. CASE req[r].prev = 0
      <3>1. ActiveIn(plans, i) = {}
        BY <2>2 DEF SerialInv, Turn
      <3>2. \A k \in 1 .. n : k # 0
        OBVIOUS
      <3> QED
        BY <2>1, <2>2, <3>1, <3>2
    <2>3. CASE req[r].prev # 0
      <3>1. req[r].prev \in ActiveIn(plans, i)
        BY <2>3 DEF SerialInv, Turn
      <3>2. \A j, k \in ActiveIn(plans, i) : j = k
        BY Facts DEF PlanInv, OneActivePlan, TypeOK, Payload
      <3> QED
        BY <2>1, <3>1, <3>2
    <2> QED
      BY <2>2, <2>3
  <1>4. \A k \in 1 .. n : next[k] = Replaced(r)[k]
    <2> SUFFICES ASSUME NEW k \in 1 .. n PROVE next[k] = Replaced(r)[k]
      OBVIOUS
    <2>1. PICK p : p = plans[k]
      OBVIOUS
    <2>6. PICK m \in Nat : m = n + 1
      OBVIOUS
    <2> DEFINE b == [p EXCEPT !.status = "superseded", !.supersededBy = m]
    <2>2. p \in Plan
      BY <1>2, <2>1
    <2>3. /\ b \in Plan /\ SamePlanFacts(b, p) /\ b.closing = p.closing
          /\ b.status = "superseded" /\ b.supersededBy = n + 1
      BY <2>2, <2>6 DEF Plan, SamePlanFacts
    <2>4. next[k] = IF k = req[r].prev THEN b ELSE p
      BY <1>1, <1>2, <1>3, <2>1, <2>6
    <2> HIDE DEF b, next
    <2>5. k = req[r].prev => b = Replaced(r)[k]
      <3>1. PICK x : x = Replaced(r)[k]
        OBVIOUS
      <3> QED
        BY <1>2, <2>1, <2>3, <3>1, SamePlan DEF SamePlanFacts
    <2> QED
      BY <1>2, <2>1, <2>4, <2>5
  <1>5. next \in [1 .. n -> Plan]
    BY <1>2, <1>4
  <1>6. NewPlan(r) = PlanBook!Row(d, u, i)
    BY DEF NewPlan, PlanBook!Row
  <1>7. Replaced(r) = Append(next, NewPlan(r))
    <2> HIDE DEF next
    <2> QED
      BY <1>2, <1>4, <1>5, AppendedTo
  <1>8. \A k \in DOMAIN plans : plans[k].source # d
    BY DEF ClaimInv, Owns, Uncreated, Working
  <1> QED
    BY <1>6, <1>7, <1>8 DEF PlanBook!Plan

\* Two columns of a row are updated at once.
LEMMA TwoColumns ==
  ASSUME NEW S, NEW t \in Seq(S), NEW k \in DOMAIN t, NEW v, NEW w
  PROVE  /\ [t EXCEPT ![k].status = v, ![k].closing = w]
              = [t EXCEPT ![k] = [@ EXCEPT !.status = v, !.closing = w]]
         /\ [t EXCEPT ![k].status = v, ![k].supersededBy = w]
              = [t EXCEPT ![k] = [@ EXCEPT !.status = v, !.supersededBy = w]]
  OBVIOUS

\* SoftDelete is the atomic /unplan.
LEMMA SoftDeletePlanRefines ==
  ASSUME TypeOK, SerialInv, NEW r \in Request, req[r].pc = "softdeleteplan",
         plans' = Closed(r)
  PROVE  PlanBook!Unplan(r[1], EventOf(r).issue)
  <1>1. PICK k : k = req[r].prev
    OBVIOUS
  <1>2. k \in ActiveIn(plans, EventOf(r).issue)
    BY <1>1 DEF SerialInv, Turn
  <1>3. k \in PlanBook!Active(EventOf(r).issue)
    BY <1>2 DEF PlanBook!Active, ActiveIn
  <1>4. plans' = [plans EXCEPT ![k].status = "deleted", ![k].closing = {r[1]}]
    BY <1>1, <1>2, TwoColumns DEF Closed, TypeOK, PlanTypeOK, ActiveIn
  <1> QED
    BY <1>3, <1>4 DEF PlanBook!Unplan

\* Every step of serial commands is a /plan, an /unplan, or invisible.
LEMMA PlanBookStep ==
  ASSUME NoHeader = {}, TypeOK, TypeOK', ClaimInv, PlanInv, SerialInv,
         [SerialNext]_vars
  PROVE  [PlanBook!Next]_plans
  <1>1. CASE UNCHANGED vars
    BY <1>1 DEF vars
  <1>2. ASSUME NEW r \in Request, Acts(r)
        PROVE  [PlanBook!Next]_plans
    <2>1. r[1] \in Delivery /\ EventOf(r).user \in User /\ EventOf(r).issue \in Issue
      BY Facts DEF TypeOK, Payload
    <2>2. CASE Prepares(r) \/ Inserts(r)
      BY <2>2 DEF Prepares, Inserts
    <2>3. CASE Updates(r)
      BY <2>1, <2>3, ReplacePlanRefines, SoftDeletePlanRefines
      DEF Updates, PlanBook!Next
    <2> QED
      BY <1>2, <2>2, <2>3 DEF Acts
  <1> QED
    BY <1>1, <1>2, OneActs

\* Serial behaviours are behaviours.
LEMMA SerialIsSpec == SerialSpec => Spec
  <1>1. [SerialNext]_vars => [Next]_vars
    BY DEF SerialNext, Next
  <1> QED
    BY <1>1, PTL DEF SerialSpec, Spec

\* Reports only read, so what is shown of SerialSpec holds beside them.
LEMMA ReportsOnlyRead == ReportSpec => SerialSpec
  <1>1. [ReportNext]_reportVars => [SerialNext]_vars
    BY DEF ReportNext, ReadPlan, ReadSum, reportVars
  <1> QED
    BY <1>1, PTL DEF ReportSpec, SerialSpec

\* At any time at most one goroutine is in flight, and what it has found is
\* still so: handler.go's lookups are not stale when commands do not overlap.
THEOREM NothingStale == SerialSpec => []SerialInv
  <1>1. TypeOK /\ TypeOK' /\ ChainInv /\ PlanInv /\ SerialInv /\ [SerialNext]_vars
          => SerialInv'
    BY SerialKept
  <1>2. SerialSpec => [](TypeOK /\ ChainInv /\ PlanInv)
    BY SerialIsSpec, TypeCorrect, CorrectionsCorrect, PlansCorrect, PTL
  <1> QED
    BY <1>1, <1>2, TurnInit, PTL DEF SerialSpec

\* One at a time and without a failure, /plan and /unplan are atomic commands
\* of PlanLedger (handlePlan, handleUnplan), if every delivery has its header.
THEOREM PlansRefine ==
  ASSUME NoHeader = {}
  PROVE  SerialSpec => ImplementsPlanLedger
  <1>1. Init => PlanBook!Init
    BY DEF Init, PlanInit, PlanBook!Init
  <1>2. /\ TypeOK /\ TypeOK' /\ ClaimInv /\ PlanInv /\ SerialInv /\ [SerialNext]_vars
        => [PlanBook!Next]_plans
    BY PlanBookStep
  <1>3. SerialSpec => [](TypeOK /\ ClaimInv /\ PlanInv /\ SerialInv)
    BY SerialIsSpec, TypeCorrect, ClaimCorrect, PlansCorrect, NothingStale, PTL
  <1> QED
    BY <1>1, <1>2, <1>3, PTL DEF SerialSpec, ImplementsPlanLedger, PlanBook!Spec

----------------------------------------------------------------------------
\* Time entries

LedgerRows == [source : Delivery, user : User, issue : Issue,
               client : Client \cup {NoClient}, status : Status,
               supersededBy : Nat]

LEMMA SameLedgerRow ==
  ASSUME NEW a \in LedgerRows, NEW b \in LedgerRows,
         a.source = b.source, a.user = b.user, a.issue = b.issue,
         a.client = b.client, a.status = b.status, a.supersededBy = b.supersededBy
  PROVE  a = b
  BY DEF LedgerRows

\* The columns of a row that the ledger shows.
LEMMA RowSeen ==
  ASSUME NEW e \in Entry
  PROVE  /\ LedgerRow(e) \in LedgerRows
         /\ LedgerRow(e).source = e.source /\ LedgerRow(e).user = e.user
         /\ LedgerRow(e).issue = e.issue /\ LedgerRow(e).client = e.client
         /\ LedgerRow(e).status = e.status
         /\ LedgerRow(e).supersededBy = e.supersededBy
  BY DEF Entry, LedgerRow, LedgerRows

\* The ledger has the table's rows, seen, in the same order.
LEMMA TableSeen ==
  ASSUME NEW t \in Seq(Entry)
  PROVE  /\ View(t) \in Seq(LedgerRows) /\ Len(View(t)) = Len(t) /\ Len(t) \in Nat
         /\ DOMAIN View(t) = 1 .. Len(t) /\ DOMAIN t = 1 .. Len(t)
         /\ \A k \in 1 .. Len(t) : View(t)[k] = LedgerRow(t[k]) /\ t[k] \in Entry
  <1>1. Len(t) \in Nat /\ DOMAIN t = 1 .. Len(t) /\ \A k \in 1 .. Len(t) : t[k] \in Entry
    OBVIOUS
  <1>2. View(t) \in [1 .. Len(t) -> LedgerRows]
    BY <1>1, RowSeen DEF View
  <1> QED
    BY <1>1, <1>2 DEF View

\* An UPDATE seen in the ledger is the UPDATE of the row seen.
LEMMA UpdateSeen ==
  ASSUME NEW e \in Entry, NEW n \in Nat
  PROVE  /\ [LedgerRow(e) EXCEPT !.status = "superseded", !.supersededBy = n]
              = LedgerRow([e EXCEPT !.status = "superseded", !.supersededBy = n])
         /\ [LedgerRow(e) EXCEPT !.status = "deleted"]
              = LedgerRow([e EXCEPT !.status = "deleted"])
         /\ [e EXCEPT !.status = "superseded", !.supersededBy = n] \in Entry
         /\ [e EXCEPT !.status = "deleted"] \in Entry
  <1> DEFINE s == [e EXCEPT !.status = "superseded", !.supersededBy = n]
             d == [e EXCEPT !.status = "deleted"]
  <1>1. PICK w \in LedgerRows : w = LedgerRow(e)
    BY RowSeen
  <1> DEFINE ws == [w EXCEPT !.status = "superseded", !.supersededBy = n]
             wd == [w EXCEPT !.status = "deleted"]
  <1>2. /\ s \in Entry /\ SameFacts(s, e)
        /\ s.status = "superseded" /\ s.supersededBy = n
        /\ d \in Entry /\ SameFacts(d, e)
        /\ d.status = "deleted" /\ d.supersededBy = e.supersededBy
    BY DEF Entry, Status, SameFacts
  <1>3. /\ ws \in LedgerRows /\ ws.status = "superseded" /\ ws.supersededBy = n
        /\ ws.source = w.source /\ ws.user = w.user /\ ws.issue = w.issue
        /\ ws.client = w.client
    BY DEF LedgerRows, Status
  <1>4. /\ wd \in LedgerRows /\ wd.status = "deleted"
        /\ wd.supersededBy = w.supersededBy
        /\ wd.source = w.source /\ wd.user = w.user /\ wd.issue = w.issue
        /\ wd.client = w.client
    BY DEF LedgerRows, Status
  <1> HIDE DEF s, d, ws, wd
  <1>5. ws = LedgerRow(s)
    BY <1>1, <1>2, <1>3, RowSeen, SameLedgerRow DEF SameFacts
  <1>6. wd = LedgerRow(d)
    BY <1>1, <1>2, <1>4, RowSeen, SameLedgerRow DEF SameFacts
  <1> QED
    BY <1>1, <1>2, <1>5, <1>6 DEF s, d, ws, wd

\* The entry the goroutine has found is the ledger's latest.
LEMMA LatestSeen ==
  ASSUME NEW t \in Seq(Entry), NEW n \in Nat, n <= Len(entries), entries \in Seq(Entry),
         t = SubSeq(entries, 1, n), Settled = t,
         NEW u, NEW i, NEW m, LatestOf(n, m, u, i)
  PROVE  /\ Len(t) = n /\ m \in 1 .. n
         /\ Ledger!Active(u, i) # {} /\ Ledger!Max(Ledger!Active(u, i)) = m
  <1>1. Len(t) = n /\ \A k \in 1 .. n : t[k] = entries[k] /\ k \in DOMAIN entries
    OBVIOUS
  <1>2. Ledger!Active(u, i) = {k \in 1 .. n : k \in ActiveEntries(u, i)}
    <2>1. \A k \in 1 .. n : /\ View(t)[k].user = entries[k].user
                           /\ View(t)[k].issue = entries[k].issue
                           /\ View(t)[k].status = entries[k].status
      <3> SUFFICES ASSUME NEW k \in 1 .. n
                   PROVE  /\ View(t)[k].user = entries[k].user
                          /\ View(t)[k].issue = entries[k].issue
                          /\ View(t)[k].status = entries[k].status
        OBVIOUS
      <3>1. PICK e \in Entry : e = entries[k]
        BY <1>1
      <3>2. View(t)[k] = LedgerRow(e)
        BY <1>1, <3>1, TableSeen
      <3> QED
        BY <3>1, <3>2, RowSeen
    <2>2. DOMAIN View(t) = 1 .. n
      BY <1>1, TableSeen
    <2> QED
      BY <1>1, <2>1, <2>2 DEF Ledger!Active, ActiveEntries
  <1>3. m \in 1 .. n /\ m \in ActiveEntries(u, i)
    BY <1>1 DEF LatestOf, ActiveEntries
  <1>4. \A k \in Ledger!Active(u, i) : m >= k
    BY <1>2, <1>3 DEF LatestOf
  <1>5. m \in Ledger!Active(u, i) /\ Ledger!Active(u, i) \subseteq Nat
    BY <1>2, <1>3
  <1>6. \A x \in Ledger!Active(u, i) :
          (\A y \in Ledger!Active(u, i) : x >= y) => x = m
    BY <1>4, <1>5
  <1> QED
    BY <1>1, <1>3, <1>4, <1>5, <1>6 DEF Ledger!Max

\* The row that Create inserts is the one the ledger's commands append.
LEMMA NewEntrySeen ==
  ASSUME NEW r \in Request
  PROVE  LedgerRow(NewEntry(r))
           = Ledger!Row(r[1], EventOf(r).user, EventOf(r).issue, req[r].client)
  BY DEF LedgerRow, NewEntry, Ledger!Row

\* Create of a /log is the atomic /log.
LEMMA LogRefines ==
  ASSUME NoHeader = {}, TypeOK, TypeOK', ClaimInv, NEW r \in Request,
         req[r].pc = "insert", entries' = Append(entries, NewEntry(r)),
         Settled = entries, Settled' = entries'
  PROVE  Ledger!Log(r[1], EventOf(r).user, EventOf(r).issue, req[r].client)
  <1>1. PICK n \in Nat : n = Len(entries)
    BY DEF TypeOK, TimeTypeOK
  <1>2. PICK t \in Seq(Entry) : t = entries'
    BY DEF TypeOK, TimeTypeOK
  <1>3. /\ entries \in Seq(Entry) /\ DOMAIN entries = 1 .. n /\ Len(t) = n + 1
        /\ t[n + 1] = NewEntry(r) /\ \A k \in 1 .. n : t[k] = entries[k]
    BY <1>1, <1>2 DEF TypeOK, TimeTypeOK
  <1>4. PICK old : old = View(entries)
    OBVIOUS
  <1>5. PICK new : new = View(t)
    OBVIOUS
  <1>6. /\ old \in [1 .. n -> LedgerRows]
        /\ \A k \in 1 .. n : old[k] = LedgerRow(entries[k])
    BY <1>1, <1>3, <1>4, TableSeen
  <1>7. /\ new \in Seq(LedgerRows) /\ DOMAIN new = 1 .. n + 1
        /\ \A k \in 1 .. n + 1 : new[k] = LedgerRow(t[k])
    BY <1>3, <1>5, TableSeen
  <1>8. new = Append(old, LedgerRow(NewEntry(r)))
    <2>1. \A k \in 1 .. n : old[k] = new[k]
      BY <1>3, <1>6, <1>7
    <2>2. new = Append(old, new[n + 1])
      BY <1>6, <1>7, <2>1, AppendedTo
    <2> QED
      BY <1>3, <1>7, <2>2
  <1>9. View(Settled) = old /\ View(Settled)' = new
    BY <1>2, <1>4, <1>5 DEF View
  <1>10. \A k \in DOMAIN View(Settled) : View(Settled)[k].source # r[1]
    <2>1. \A k \in DOMAIN entries : entries[k].source # r[1]
      BY DEF ClaimInv, Owns, Uncreated, Working
    <2>2. \A k \in 1 .. n : entries[k] \in Entry
      BY <1>3
    <2>3. DOMAIN old = 1 .. n
      BY <1>6
    <2> QED
      BY <1>3, <1>6, <1>9, <2>1, <2>2, <2>3, RowSeen
  <1> QED
    BY <1>8, <1>9, <1>10, NewEntrySeen DEF Ledger!Log, Ledger!Applied

\* Supersede completes the atomic /correct.
LEMMA CorrectRefines ==
  ASSUME NoHeader = {}, TypeOK, TypeOK', ClaimInv, ChainInv, SerialInv,
         NEW r \in Request, req[r].pc = "supersede",
         entries' = Superseded(req[r].prev, req[r].new),
         Settled = SubSeq(entries, 1, Len(entries) - 1), Settled' = entries'
  PROVE  Ledger!Correct(r[1], EventOf(r).user, EventOf(r).issue)
  <1> DEFINE u == EventOf(r).user
             i == EventOf(r).issue
  <1>1. PICK n \in Nat \ {0} : n = Len(entries)
    <2>1. Len(entries) \in DOMAIN entries
      BY DEF SerialInv, Turn
    <2> QED
      BY <2>1 DEF TypeOK, TimeTypeOK
  <1>2. PICK l \in Nat : l = n - 1
    OBVIOUS
  <1>3. PICK t \in Seq(Entry) : t = SubSeq(entries, 1, l)
    <2>1. entries \in Seq(Entry) /\ l \in Nat /\ l <= Len(entries)
      BY <1>1, <1>2 DEF TypeOK, TimeTypeOK
    <2>2. SubSeq(entries, 1, l) \in Seq(Entry)
      <3>1. \A k \in 1 .. l : entries[k] \in Entry
        BY <2>1
      <3>2. SubSeq(entries, 1, l) = [k \in 1 .. l |-> entries[k]]
        BY <2>1
      <3> QED
        BY <2>1, <3>1, <3>2
    <2> QED
      BY <2>2
  <1>4. PICK m : m = req[r].prev
    OBVIOUS
  <1>5. /\ req[r].new = n /\ LatestOf(l, m, u, i) /\ n \in DOMAIN entries
        /\ entries[n] = [source |-> r[1], user |-> u, issue |-> i,
                          client |-> req[r].client, createdAt |-> l,
                          status |-> "active", supersededBy |-> 0]
    BY <1>1, <1>2, <1>4 DEF SerialInv, Turn
  <1>6. Settled = t
    BY <1>1, <1>2, <1>3
  <1>7. entries \in Seq(Entry) /\ l <= Len(entries)
    BY <1>1, <1>2 DEF TypeOK, TimeTypeOK
  <1>8. /\ Len(t) = l /\ m \in 1 .. l
        /\ Ledger!Active(u, i) # {} /\ Ledger!Max(Ledger!Active(u, i)) = m
    BY <1>3, <1>5, <1>6, <1>7, LatestSeen
  <1>9. PICK s \in Seq(Entry) : s = entries'
    BY DEF TypeOK, TimeTypeOK
  <1>10. PICK e \in Entry : e = entries[m]
    BY <1>1, <1>2, <1>7, <1>8
  <1> DEFINE x == [e EXCEPT !.status = "superseded", !.supersededBy = n]
  <1>11. /\ Len(s) = n /\ s[n] = entries[n] /\ s[m] = x
         /\ \A k \in 1 .. l : k # m => s[k] = entries[k]
    <2>1. s = [entries EXCEPT ![m] = x]
      BY <1>4, <1>5, <1>9, <1>10 DEF Superseded
    <2>2. x \in Entry
      BY UpdateSeen
    <2> HIDE DEF x
    <2>3. /\ Len([entries EXCEPT ![m] = x]) = Len(entries)
          /\ \A k \in DOMAIN entries :
               [entries EXCEPT ![m] = x][k] = IF k = m THEN x ELSE entries[k]
      BY <1>7, <2>2, UpdateRow
    <2>4. DOMAIN entries = 1 .. n /\ m # n /\ 1 .. l \subseteq 1 .. n /\ n \in 1 .. n
      BY <1>1, <1>2, <1>7, <1>8
    <2> QED
      BY <1>1, <1>8, <2>1, <2>3, <2>4
  <1>12. \A k \in 1 .. l : t[k] = entries[k]
    BY <1>3, <1>7, <1>8
  <1>13. PICK old : old = View(t)
    OBVIOUS
  <1>14. PICK new : new = View(s)
    OBVIOUS
  <1>15. /\ old \in Seq(LedgerRows) /\ Len(old) = l /\ DOMAIN old = 1 .. l
         /\ \A k \in 1 .. l : old[k] = LedgerRow(entries[k])
    BY <1>8, <1>12, <1>13, TableSeen
  <1>16. /\ new \in Seq(LedgerRows) /\ DOMAIN new = 1 .. l + 1
         /\ \A k \in 1 .. l + 1 : new[k] = LedgerRow(s[k])
    BY <1>2, <1>11, <1>14, TableSeen
  <1> DEFINE y == [old[m] EXCEPT !.status = "superseded", !.supersededBy = n]
             f == [old EXCEPT ![m] = y]
  <1>17. y = LedgerRow(x) /\ y \in LedgerRows
    <2>1. old[m] = LedgerRow(e)
      BY <1>8, <1>10, <1>15
    <2>2. /\ [LedgerRow(e) EXCEPT !.status = "superseded", !.supersededBy = n]
               = LedgerRow(x)
          /\ x \in Entry
      <3>1. e \in Entry /\ n \in Nat
        OBVIOUS
      <3> QED
        BY <3>1, UpdateSeen
    <2>3. y = [LedgerRow(e) EXCEPT !.status = "superseded", !.supersededBy = n]
      BY <2>1
    <2> HIDE DEF x, y
    <2> QED
      BY <2>2, <2>3, RowSeen
  <1>18. /\ f \in [1 .. l -> LedgerRows]
         /\ \A k \in 1 .. l : f[k] = new[k]
    <2> HIDE DEF y, x
    <2>1. old \in [1 .. l -> LedgerRows]
      BY <1>15
    <2>2. f \in [1 .. l -> LedgerRows] /\ \A k \in 1 .. l : f[k] = IF k = m THEN y ELSE old[k]
      BY <1>8, <1>17, <2>1
    <2>3. \A k \in 1 .. l : k \in 1 .. l + 1
      OBVIOUS
    <2> QED
      BY <1>8, <1>11, <1>15, <1>16, <1>17, <2>2, <2>3
  <1>19. new = Append(f, Ledger!Row(r[1], u, i, old[m].client))
    <2>1. new = Append(f, new[l + 1])
      <3> HIDE DEF f
      <3> QED
        BY <1>16, <1>18, AppendedTo
    <2>2. new[l + 1] = LedgerRow(entries[n])
      BY <1>2, <1>11, <1>16
    <2>3. old[m].client = req[r].client
      <3>1. old[m].client = e.client
        BY <1>8, <1>10, <1>15, RowSeen
      <3> QED
        BY <1>4, <1>10, <3>1 DEF ChainInv, PrevInv, HasPrev
    <2>4. LedgerRow(entries[n]) = Ledger!Row(r[1], u, i, req[r].client)
      BY <1>5 DEF LedgerRow, Ledger!Row
    <2> QED
      BY <2>1, <2>2, <2>3, <2>4
  <1>20. f = [old EXCEPT ![m].status = "superseded", ![m].supersededBy = Len(old) + 1]
    <2>1. n = Len(old) + 1 /\ m \in DOMAIN old
      BY <1>2, <1>8, <1>15
    <2>2. f = [old EXCEPT ![m].status = "superseded", ![m].supersededBy = n]
      BY <1>15, <2>1, TwoColumns
    <2> HIDE DEF f
    <2> QED
      BY <2>1, <2>2
  <1>21. View(Settled) = old /\ View(Settled)' = new
    BY <1>6, <1>9, <1>13, <1>14 DEF View
  <1>22. ~Ledger!Applied(r[1])
    <2>1. \A k \in 1 .. l : entries[k].source # r[1]
      <3>1. entries[n].source = r[1]
        BY <1>5
      <3>2. \A k \in 1 .. l : k \in DOMAIN entries /\ k # n
        BY <1>1, <1>2, <1>7
      <3> QED
        BY <1>5, <3>1, <3>2 DEF ClaimInv, OneRowPerDelivery
    <2>2. \A k \in 1 .. l : entries[k] \in Entry
      BY <1>1, <1>2, <1>7
    <2>3. \A k \in 1 .. l : old[k].source # r[1]
      BY <1>15, <2>1, <2>2, RowSeen
    <2> QED
      BY <1>15, <1>21, <2>3 DEF Ledger!Applied
  <1> QED
    BY <1>8, <1>19, <1>20, <1>21, <1>22 DEF Ledger!Correct

\* SoftDelete is the atomic /delete.
LEMMA DeleteRefines ==
  ASSUME TypeOK, TypeOK', SerialInv, NEW r \in Request, req[r].pc = "softdelete",
         entries' = SoftDeleted(req[r].prev), Settled = entries, Settled' = entries'
  PROVE  Ledger!Delete(EventOf(r).user, EventOf(r).issue)
  <1> DEFINE u == EventOf(r).user
             i == EventOf(r).issue
  <1>1. PICK n \in Nat : n = Len(entries)
    BY DEF TypeOK, TimeTypeOK
  <1>2. PICK m : m = req[r].prev
    OBVIOUS
  <1>3. /\ entries \in Seq(Entry) /\ entries = SubSeq(entries, 1, n)
        /\ n <= Len(entries) /\ DOMAIN entries = 1 .. n
    BY <1>1 DEF TypeOK, TimeTypeOK
  <1>4. LatestOf(n, m, u, i)
    BY <1>1, <1>2 DEF SerialInv, Turn, HasPrev
  <1>5. /\ m \in 1 .. n
        /\ Ledger!Active(u, i) # {} /\ Ledger!Max(Ledger!Active(u, i)) = m
    BY <1>3, <1>4, LatestSeen
  <1>6. PICK s \in Seq(Entry) : s = entries'
    BY DEF TypeOK, TimeTypeOK
  <1>7. PICK e \in Entry : e = entries[m]
    BY <1>3, <1>5
  <1> DEFINE x == [e EXCEPT !.status = "deleted"]
  <1>8. Len(s) = n /\ \A k \in 1 .. n : s[k] = IF k = m THEN x ELSE entries[k]
    <2>1. s = [entries EXCEPT ![m] = x]
      BY <1>2, <1>6, <1>7 DEF SoftDeleted
    <2>2. x \in Entry
      BY UpdateSeen
    <2> HIDE DEF x
    <2>3. /\ Len([entries EXCEPT ![m] = x]) = Len(entries)
          /\ \A k \in DOMAIN entries :
               [entries EXCEPT ![m] = x][k] = IF k = m THEN x ELSE entries[k]
      BY <1>3, <2>2, UpdateRow
    <2> QED
      BY <1>1, <1>3, <2>1, <2>3
  <1>9. PICK old : old = View(entries)
    OBVIOUS
  <1>10. PICK new : new = View(s)
    OBVIOUS
  <1>11. old \in [1 .. n -> LedgerRows] /\ \A k \in 1 .. n : old[k] = LedgerRow(entries[k])
    BY <1>1, <1>3, <1>9, TableSeen
  <1>12. new \in [1 .. n -> LedgerRows] /\ \A k \in 1 .. n : new[k] = LedgerRow(s[k])
    BY <1>8, <1>10, TableSeen
  <1> DEFINE y == [old[m] EXCEPT !.status = "deleted"]
  <1>13. y = LedgerRow(x)
    <2>1. old[m] = LedgerRow(e)
      BY <1>5, <1>7, <1>11
    <2> QED
      BY <2>1, UpdateSeen
  <1>14. new = [old EXCEPT ![m] = y]
    <2> HIDE DEF x, y
    <2>1. \A k \in 1 .. n : new[k] = IF k = m THEN y ELSE old[k]
      BY <1>8, <1>11, <1>12, <1>13
    <2> QED
      BY <1>11, <1>12, <2>1
  <1>15. View(Settled) = old /\ View(Settled)' = new
    BY <1>6, <1>9, <1>10 DEF View
  <1> QED
    BY <1>5, <1>14, <1>15 DEF Ledger!Delete

\* CreateEntry of a /correct and all the SELECTs are invisible in the ledger.
LEMMA LedgerStep ==
  ASSUME NoHeader = {}, TypeOK, TypeOK', ClaimInv, ChainInv, SerialInv,
         [SerialNext]_vars
  PROVE  [Ledger!Next]_(View(Settled))
  <1>1. CASE UNCHANGED vars
    BY <1>1 DEF vars, Settled, View
  <1>2. ASSUME NEW r \in Request, Acts(r),
               \A s \in Request : s # r => req'[s] = req[s] /\ ~InFlight(s)
        PROVE  [Ledger!Next]_(View(Settled))
    <2>1. /\ r[1] \in Delivery /\ EventOf(r).user \in User /\ EventOf(r).issue \in Issue
          /\ req[r].client \in Client \cup {NoClient}
      BY Facts DEF TypeOK, Payload, Goroutine
    <2>2. \A s \in Request : s # r => req[s].pc # "supersede" /\ req'[s].pc # "supersede"
      BY <1>2 DEF InFlight, Over
    <2>3. Settled = IF req[r].pc = "supersede"
                      THEN SubSeq(entries, 1, Len(entries) - 1) ELSE entries
      BY <2>2 DEF Settled
    <2>4. Settled' = IF req'[r].pc = "supersede"
                       THEN SubSeq(entries', 1, Len(entries') - 1) ELSE entries'
      BY <2>2 DEF Settled
    <2>5. Settled' = Settled => UNCHANGED View(Settled)
      BY DEF View
    <2>6. CASE Prepares(r) /\ req[r].pc # "supersede"
      <3>1. req'[r].pc # "supersede"
        BY <2>6 DEF Prepares, Busy, Acting
      <3> QED
        BY <2>3, <2>4, <2>5, <2>6, <3>1 DEF Prepares
    <2>7. CASE Inserts(r) /\ req'[r].pc = "post"
      BY <2>1, <2>3, <2>4, <2>7, LogRefines DEF Inserts, Ledger!Next
    <2>8. CASE Inserts(r) /\ req'[r].pc = "supersede"
      <3>1. entries \in Seq(Entry) /\ entries' \in Seq(Entry)
        BY DEF TypeOK, TimeTypeOK
      <3>2. entries' = Append(entries, NewEntry(r))
        BY <2>8 DEF Inserts
      <3>3. SubSeq(entries', 1, Len(entries') - 1) = entries
        BY <3>1, <3>2
      <3> QED
        BY <2>3, <2>4, <2>5, <2>8, <3>3 DEF Inserts
    <2>9. CASE Updates(r) /\ req[r].pc = "supersede"
      BY <2>1, <2>3, <2>4, <2>9, CorrectRefines DEF Updates, Ledger!Next
    <2>10. CASE Updates(r) /\ req[r].pc = "softdelete"
      BY <2>1, <2>3, <2>4, <2>10, DeleteRefines DEF Updates, Ledger!Next
    <2>11. CASE Updates(r) /\ req[r].pc \in {"replace", "softdeleteplan"}
      BY <2>3, <2>4, <2>5, <2>11 DEF Updates
    <2> QED
      BY <1>2, <2>6, <2>7, <2>8, <2>9, <2>10, <2>11 DEF Acts, Inserts, Updates
  <1> QED
    BY <1>1, <1>2, OneActs

\* One at a time and without a failure, /log, /correct and /delete are atomic
\* commands of TimeLedger, on the author's latest active entry (handleLog,
\* handleCorrect, handleDelete), if every delivery has its header.
THEOREM TimeRefines ==
  ASSUME NoHeader = {}
  PROVE  SerialSpec => ImplementsTimeLedger
  <1>1. Init => Ledger!Init
    BY DEF Init, WebhookInit, TimeInit, Fresh, Ledger!Init, View, Settled
  <1>2. /\ TypeOK /\ TypeOK' /\ ClaimInv /\ ChainInv /\ SerialInv /\ [SerialNext]_vars
        => [Ledger!Next]_(View(Settled))
    BY LedgerStep
  <1>3. SerialSpec => [](TypeOK /\ ClaimInv /\ ChainInv /\ SerialInv)
    BY SerialIsSpec, TypeCorrect, ClaimCorrect, CorrectionsCorrect, NothingStale, PTL
  <1> QED
    BY <1>1, <1>2, <1>3, PTL DEF SerialSpec, ImplementsTimeLedger, Ledger!Spec

----------------------------------------------------------------------------
\* Durations and verdicts

\* Numbers that fit do not wrap around.
LEMMA FitsUnwrapped ==
  ASSUME NEW n \in Nat, n <= MaxInt
  PROVE  Wrap(n) = n
  <1>1. PICK m \in Nat : m = MaxInt + 1
    BY MaxIntAssumption
  <1>2. n + m \in Nat /\ n + m < 2 * m /\ 2 * m \in Nat \ {0}
    BY <1>1, MaxIntAssumption
  <1>3. (n + m) % (2 * m) = n + m
    BY <1>2
  <1>4. n + MaxInt + 1 = n + m
    BY <1>1, MaxIntAssumption
  <1> QED
    BY <1>1, <1>3, <1>4, MaxIntAssumption DEF Wrap

\* parseDuration is exact for every duration whose minutes fit into an int;
\* only beyond that may it wrap around (parser.go:77-92).
THEOREM DurationIsExact ==
  ASSUME NEW hours \in Nat, NEW minutes \in Nat,
         hours * 60 + minutes <= MaxInt
  PROVE  ParseDuration(hours, minutes) = hours * 60 + minutes
  <1>1. hours * 60 \in Nat /\ hours * 60 <= MaxInt /\ hours <= MaxInt /\ minutes <= MaxInt
    BY MaxIntAssumption
  <1>2. hours * 60 + minutes \in Nat
    OBVIOUS
  <1>3. Wrap(hours * 60) = hours * 60 /\ Wrap(hours * 60 + minutes) = hours * 60 + minutes
    BY <1>1, <1>2, FitsUnwrapped
  <1> QED
    BY <1>1, <1>3, MaxIntAssumption DEF ParseDuration

\* What FormatDuration writes, the parser reads as the same duration: a user
\* can repeat what a reply told him (parser.go:77-107).
THEOREM FormatRoundTrips ==
  ASSUME NEW minutes \in Nat, minutes <= MaxInt
  PROVE  /\ FormatDuration(minutes).minutes \in 0 .. 59
         /\ ParseDuration(FormatDuration(minutes).hours,
                          FormatDuration(minutes).minutes) = minutes
  <1>1. PICK h \in Int : h = minutes \div 60
    OBVIOUS
  <1>2. PICK m \in Int : m = minutes % 60
    OBVIOUS
  <1>3. /\ h \in Nat /\ m \in 0 .. 59
        /\ h * 60 + m = minutes
    BY <1>1, <1>2
  <1>4. m \in Nat /\ h * 60 + m <= MaxInt
    BY <1>3
  <1>5. ParseDuration(h, m) = minutes
    BY <1>3, <1>4, DurationIsExact
  <1> QED
    BY <1>1, <1>2, <1>3, <1>5 DEF FormatDuration

\* classifyStatus decides as the specification words it, for every plan of
\* twenty minutes or more, although it rounds the tolerance down.
LEMMA ClassifiedByPercentage ==
  ASSUME NEW planned \in Int, NEW logged \in Int, planned >= 20
  PROVE  ClassifyStatus(planned, logged) =
           IF 100 * (logged - planned) > 5 * planned THEN "over"
           ELSE IF 100 * (planned - logged) > 5 * planned THEN "under"
           ELSE "on_target"
  <1>1. PICK t \in Int : t = (planned * 5) \div 100
    OBVIOUS
  <1>2. 100 * t <= 5 * planned /\ 5 * planned < 100 * t + 100 /\ t >= 1
    BY <1>1
  <1>3. Tolerance(planned) = t
    BY <1>1, <1>2 DEF Tolerance
  <1>4. /\ logged - planned > t <=> 100 * (logged - planned) > 5 * planned
        /\ logged - planned < -t <=> 100 * (planned - logged) > 5 * planned
    BY <1>1, <1>2
  <1> QED
    BY <1>3, <1>4 DEF ClassifyStatus

----------------------------------------------------------------------------
\* Reports

\* A report runs beside commands that keep to Next.
LEMMA ReportSteps ==
  ASSUME [ReportNext]_reportVars
  PROVE  [Next]_vars /\ (UNCHANGED report \/ UNCHANGED vars)
  <1>1. SerialNext => Next
    BY DEF SerialNext, Next
  <1> QED
    BY <1>1 DEF ReportNext, ReadPlan, ReadSum, reportVars

LEMMA ReportsRunBeside == ReportSpec => Spec
  <1>1. [ReportNext]_reportVars => [Next]_vars
    BY ReportSteps
  <1> QED
    BY <1>1, PTL DEF ReportSpec, Spec

\* An active plan is the latest of its issue: the unique index lets a plan in
\* only when every other of the issue is closed, and none is reopened.
LatestIsActive ==
  \A j, k \in DOMAIN plans :
    plans[j].issue = plans[k].issue /\ plans[k].status = "active" => j <= k

LEMMA LatestKept ==
  ASSUME TypeOK, LatestIsActive, [Next]_vars
  PROVE  LatestIsActive'
  <1>1. CASE UNCHANGED vars
    BY <1>1 DEF vars, LatestIsActive
  <1>2. ASSUME NEW r \in Request, PlanMove(r)
        PROVE  LatestIsActive'
    <2> SUFFICES ASSUME NEW j \in DOMAIN plans', NEW k \in DOMAIN plans',
                        plans'[j].issue = plans'[k].issue, plans'[k].status = "active"
                 PROVE  j <= k
      BY DEF LatestIsActive
    <2>1. PICK n \in Nat : n = Len(plans) /\ DOMAIN plans = 1 .. n
      BY <1>2, PlansOnlyClose
    <2>2. CASE j \in DOMAIN plans /\ k \in DOMAIN plans
      BY <1>2, <2>2, PlansOnlyClose DEF LatestIsActive
    <2>3. CASE ~(j \in DOMAIN plans /\ k \in DOMAIN plans)
      <3>1. /\ DOMAIN plans' = 1 .. n + 1
            /\ \A i \in DOMAIN plans :
                 plans'[i].status = "active" => plans'[i].issue # plans'[n + 1].issue
        BY <1>2, <2>1, <2>3, PlansOnlyClose
      <3>2. j \in 1 .. n + 1 /\ k \in 1 .. n + 1
        BY <3>1
      <3>3. CASE k = n + 1
        BY <2>1, <3>2, <3>3
      <3>4. CASE k \in 1 .. n
        <4>1. j = n + 1
          BY <2>1, <2>3, <3>2, <3>4
        <4> QED
          BY <2>1, <3>1, <3>4, <4>1
      <3> QED
        BY <2>1, <3>2, <3>3, <3>4
    <2> QED
      BY <2>2, <2>3
  <1> QED
    BY <1>1, <1>2, EveryStepMoves

LEMMA BusySteps ==
  ASSUME [BusyNext]_reportVars
  PROVE  [Next]_vars
  BY DEF BusyNext, ReadPlan, ReadSum, reportVars, vars

\* The last plan an issue has had is active or has been removed: a superseded
\* one has a successor, which is a later plan of the issue.
LEMMA LastIsNotSuperseded ==
  ASSUME TypeOK, PlanInv, NEW k \in DOMAIN plans,
         \A j \in DOMAIN plans : plans[j].issue = plans[k].issue => j <= k
  PROVE  plans[k].status \in {"active", "deleted"}
  <1>1. PICK n \in Nat : DOMAIN plans = 1 .. n
    BY DEF TypeOK, PlanTypeOK
  <1>2. plans[k].status \in {"active", "superseded", "deleted"}
    <2>1. plans \in Seq(Plan)
      BY DEF TypeOK, PlanTypeOK
    <2>2. plans[k] \in Plan
      BY <2>1
    <2> QED
      BY <2>2 DEF Plan
  <1>3. ASSUME plans[k].status = "superseded" PROVE FALSE
    <2>1. plans[k].supersededBy # 0
      BY <1>3 DEF PlanInv, PlanStatusMatchesLink
    <2>2. PICK m \in DOMAIN plans : m = plans[k].supersededBy /\ k < m
                                    /\ plans[m].issue = plans[k].issue
      BY <2>1 DEF PlanInv, PlanChains
    <2>3. m <= k
      BY <2>2
    <2> QED
      BY <1>1, <2>2, <2>3
  <1> QED
    BY <1>2, <1>3

\* Beside commands that overlap, fail and crash, the first SELECT of a report
\* finds the last plan of its issue, and finds none only if that plan has been
\* removed: LatestIsActive makes the row that LIMIT 1 returns the last one, and
\* a plan that has been replaced is never the last.
THEOREM LatestPlanIsReported == BusyReportSpec => ReportsLatestPlan
  <1>1. Init => LatestIsActive
    BY DEF Init, PlanInit, LatestIsActive
  <1>2. TypeOK /\ LatestIsActive /\ [BusyNext]_reportVars => LatestIsActive'
    BY BusySteps, LatestKept
  <1>3. [BusyNext]_reportVars => [Next]_vars
    BY BusySteps
  <1>4. TypeOK /\ PlanInv /\ LatestIsActive /\ [BusyNext]_reportVars =>
          [report.pc = "idle" /\ report'.pc # "idle" =>
             \A k \in DOMAIN plans :
               /\ plans[k].issue = report'.issue
               /\ \A j \in DOMAIN plans : plans[j].issue = report'.issue => j <= k
               => \/ report'.plan = k
                  \/ report'.plan = 0 /\ plans[k].status = "deleted"]_reportVars
    <2> SUFFICES ASSUME TypeOK, PlanInv, LatestIsActive, [BusyNext]_reportVars,
                        report.pc = "idle", report'.pc # "idle",
                        NEW k \in DOMAIN plans, plans[k].issue = report'.issue,
                        \A j \in DOMAIN plans :
                          plans[j].issue = report'.issue => j <= k
                 PROVE  \/ report'.plan = k
                        \/ report'.plan = 0 /\ plans[k].status = "deleted"
      OBVIOUS
    <2>1. PICK i \in Issue : ReadPlan(i)
      BY DEF BusyNext, ReadSum, reportVars
    <2>2. PICK m \in IF ActivePlan(i) = {} THEN {0} ELSE ActivePlan(i) :
            report' = [pc |-> "sum", issue |-> i, plan |-> m, rows |-> {},
                       open |-> {}]
      BY <2>1 DEF ReadPlan
    <2>3. report'.issue = i /\ report'.plan = m
      BY <2>2
    <2>4. plans[k].status \in {"active", "deleted"}
      BY LastIsNotSuperseded
    <2>5. PICK n \in Nat : DOMAIN plans = 1 .. n
      BY DEF TypeOK, PlanTypeOK
    <2>6. CASE ActivePlan(i) = {}
      BY <2>2, <2>3, <2>4, <2>6 DEF ActivePlan, ActiveIn
    <2>7. CASE ActivePlan(i) # {}
      <3>1. m \in DOMAIN plans /\ plans[m].issue = i /\ plans[m].status = "active"
        BY <2>2, <2>7 DEF ActivePlan, ActiveIn
      <3>2. m <= k /\ k <= m
        BY <2>3, <3>1 DEF LatestIsActive
      <3> QED
        BY <2>3, <2>5, <3>1, <3>2
    <2> QED
      BY <2>6, <2>7
  <1> QED
    BY <1>1, <1>2, <1>3, <1>4, TypeCorrect, PlansCorrect, PTL
    DEF BusyReportSpec, Spec, ReportsLatestPlan

\* Whatever the durations, the verdict on a plan of twenty minutes or more is
\* the specification's.
THEOREM VerdictsAreExact == ReportSpec => []VerdictFollowsPercentage
  <1> DEFINE Inv == IsFiniteSet(report.rows)
  <1>1. ReportInit => Inv
    BY FS_EmptySet DEF ReportInit
  <1>2. TypeOK /\ Inv /\ [ReportNext]_reportVars => Inv'
    <2> SUFFICES ASSUME TypeOK, Inv, [ReportNext]_reportVars
                 PROVE  Inv'
      OBVIOUS
    <2>1. CASE \E i \in Issue : ReadPlan(i)
      BY <2>1, FS_EmptySet DEF ReadPlan
    <2>2. CASE ReadSum
      <3>1. report'.rows = Counted(report.issue)
        BY <2>2 DEF ReadSum
      <3>2. PICK n \in Nat : DOMAIN entries = 1 .. n
        BY DEF TypeOK, TimeTypeOK
      <3>3. IsFiniteSet(1 .. n)
        <4>1. 1 \in Int /\ n \in Int
          OBVIOUS
        <4> QED
          BY ONLY <4>1, FS_Interval
      <3>4. Counted(report.issue) \subseteq 1 .. n
        BY <3>2 DEF Counted
      <3> QED
        BY <3>1, <3>3, <3>4, FS_Subset
    <2>3. CASE UNCHANGED report
      BY <2>3
    <2> QED
      BY <2>1, <2>2, <2>3 DEF ReportNext, reportVars
  <1>3. Inv => VerdictFollowsPercentage
    <2> SUFFICES ASSUME Inv
                 PROVE  VerdictFollowsPercentage
      OBVIOUS
    <2>1. ASSUME NEW n \in Int PROVE Wrap(n) \in Int
      <3>1. PICK m \in Nat \ {0} : m = MaxInt + 1
        BY MaxIntAssumption
      <3>2. Wrap(n) = ((n + MaxInt + 1) % (2 * m)) - m
        BY <3>1 DEF Wrap
      <3>3. n + MaxInt + 1 \in Int /\ 2 * m \in Nat \ {0}
        BY <3>1, MaxIntAssumption
      <3>4. (n + MaxInt + 1) % (2 * m) \in Int
        BY <3>3
      <3> QED
        BY <3>1, <3>2, <3>4
    <2>2. ASSUME NEW h \in Nat, NEW m \in Nat PROVE ParseDuration(h, m) \in Int
      <3>1. Wrap(h * 60) \in Int
        BY <2>1
      <3>2. Wrap(h * 60) + m \in Int
        BY <3>1
      <3>3. Wrap(Wrap(h * 60) + m) \in Int
        BY <2>1, <3>2
      <3> QED
        BY <3>3 DEF ParseDuration, Rejected
    <2>3. LogTyped.hours \in Nat /\ LogTyped.minutes \in Nat
          /\ PlanTyped.hours \in Nat /\ PlanTyped.minutes \in Nat
      BY TypedAssumption
    <2>4. EntryMinutes \in Int /\ PlanMinutes \in Int
      BY <2>2, <2>3 DEF EntryMinutes, PlanMinutes
    <2>5. Cardinality(report.rows) \in Nat
      BY FS_CardinalityType
    <2>6. Planned \in Int /\ Logged \in Int
      BY <2>4, <2>5 DEF Planned, Logged
    <2> QED
      BY <2>6, ClassifiedByPercentage DEF VerdictFollowsPercentage, Verdict
  <1> QED
    BY <1>1, <1>2, <1>3, ReportsRunBeside, TypeCorrect, PTL DEF ReportSpec

\* A correction and the entry it corrects: confirmed, or on its way there.
Pair(p, n) ==
  \/ \E d \in Delivery : \E c \in Answers(d) :
       c.kind = "corrected" /\ c.prev = p /\ c.new = n
  \/ \E r \in Request :
       /\ \/ req[r].pc = "supersede"
          \/ req[r].pc = "post" /\ req[r].reply = "corrected"
       /\ req[r].prev = p /\ req[r].new = n

\* What a report has summed, it has summed of a table that was there, and both
\* entries of a pair only if the pair was not yet linked.
CountInv ==
  report.pc = "done" =>
    /\ report.rows \subseteq DOMAIN entries
    /\ \A p, n \in report.rows : Pair(p, n) => <<p, n>> \in report.open

\* A new pair has a new entry.
LEMMA PairsAppear ==
  ASSUME TypeOK, NEW r \in Request, ReplyMove(r), Says(r), NEW p, NEW n,
         Pair(p, n)'
  PROVE  Pair(p, n) \/ n = Len(entries) + 1
  <1>1. CASE \E d \in Delivery : \E c \in Answers(d)' :
               c.kind = "corrected" /\ c.prev = p /\ c.new = n
    <2>1. PICK d \in Delivery : \E c \in Answers(d)' :
            c.kind = "corrected" /\ c.prev = p /\ c.new = n
      BY <1>1
    <2>2. PICK c \in Answers(d)' : c.kind = "corrected" /\ c.prev = p /\ c.new = n
      BY <2>1
    <2>3. CASE c \in Answers(d)
      BY <2>2, <2>3 DEF Pair
    <2>4. CASE req[r].pc = "post" /\ c = Reply(r)
      <3>1. req[r].reply = "corrected" /\ req[r].prev = p /\ req[r].new = n
        BY <2>2, <2>4 DEF Reply
      <3> QED
        BY <2>4, <3>1 DEF Pair
    <2> QED
      BY <2>1, <2>3, <2>4 DEF Says
  <1>2. CASE \E s \in Request :
               /\ \/ req'[s].pc = "supersede"
                  \/ req'[s].pc = "post" /\ req'[s].reply = "corrected"
               /\ req'[s].prev = p /\ req'[s].new = n
    <2>1. PICK s \in Request :
            /\ \/ req'[s].pc = "supersede"
               \/ req'[s].pc = "post" /\ req'[s].reply = "corrected"
            /\ req'[s].prev = p /\ req'[s].new = n
      BY <1>2
    <2>2. CASE s # r
      BY <2>1, <2>2 DEF ReplyMove, Pair
    <2>3. CASE s = r
      <3>1. \/ req'[r].new = Len(entries) + 1
            \/ /\ req[r].pc = "supersede"
               /\ req'[r].new = req[r].new /\ req'[r].prev = req[r].prev
        BY <2>1, <2>3 DEF ReplyMove
      <3> QED
        BY <2>1, <2>3, <3>1 DEF Pair
    <2> QED
      BY <2>2, <2>3
  <1> QED
    BY <1>1, <1>2 DEF Pair

LEMMA CountKept ==
  ASSUME TypeOK, Truthful, RetiredInv, CountInv, [ReportNext]_reportVars
  PROVE  CountInv'
  <1>1. [Next]_vars /\ RowsStay
    BY ReportSteps, AllRowsStay
  <1>2. CASE \E i \in Issue : ReadPlan(i)
    BY <1>2 DEF ReadPlan, CountInv
  <1>3. CASE ReadSum
    <2>1. /\ report'.rows = Counted(report.issue)
          /\ report'.open = {<<req[r].prev, req[r].new>> :
                               r \in {q \in Request : req[q].pc = "supersede"}}
          /\ UNCHANGED <<req, comments, entries>>
      BY <1>3 DEF ReadSum, vars
    <2>2. ASSUME NEW p \in report'.rows, NEW n \in report'.rows, Pair(p, n)
          PROVE  <<p, n>> \in report'.open
      <3>1. p \in DOMAIN entries /\ entries[p].status = "active"
        BY <2>1, <2>2 DEF Counted
      <3>2. \A d \in Delivery : \A c \in Answers(d) :
              ~(c.kind = "corrected" /\ c.prev = p)
        BY <3>1 DEF RetiredInv, CorrectedEntryIsRetired
      <3>3. PICK r \in Request :
              /\ \/ req[r].pc = "supersede"
                 \/ req[r].pc = "post" /\ req[r].reply = "corrected"
              /\ req[r].prev = p /\ req[r].new = n
        BY <2>2, <3>2 DEF Pair
      <3>4. req[r].pc = "supersede"
        BY <3>1, <3>3 DEF RetiredInv
      <3> QED
        BY <2>1, <3>3, <3>4
    <2>3. \A p, n : Pair(p, n)' => Pair(p, n)
      BY <2>1 DEF Pair, Answers
    <2>4. report'.rows \subseteq DOMAIN entries'
      BY <2>1 DEF Counted
    <2> QED
      BY <2>2, <2>3, <2>4 DEF CountInv
  <1>4. CASE UNCHANGED report
    <2> SUFFICES ASSUME report.pc = "done"
                 PROVE  /\ report.rows \subseteq DOMAIN entries'
                        /\ \A p, n \in report.rows :
                             Pair(p, n)' => <<p, n>> \in report.open
      BY <1>4 DEF CountInv
    <2>1. report.rows \subseteq DOMAIN entries
          /\ \A p, n \in report.rows : Pair(p, n) => <<p, n>> \in report.open
      BY DEF CountInv
    <2>2. CASE UNCHANGED vars
      BY <2>1, <2>2 DEF vars, Pair, Answers
    <2>3. ASSUME NEW r \in Request, ReplyMove(r), Says(r),
                 NEW p \in report.rows, NEW n \in report.rows, Pair(p, n)'
          PROVE  <<p, n>> \in report.open
      <3>1. n # Len(entries) + 1
        BY <2>1, <2>3 DEF TypeOK, TimeTypeOK
      <3> QED
        BY <2>1, <2>3, <3>1, PairsAppear
    <2> QED
      BY <1>1, <2>1, <2>2, <2>3, EveryStepReplies DEF RowsStay
  <1> QED
    BY <1>2, <1>3, <1>4 DEF ReportNext, reportVars

\* When commands do not overlap and nothing fails, a report counts a corrected
\* entry beside its correction only if it reads between Create and Supersede.
THEOREM NoDoubleCount == ReportSpec => []NoChainCountedTwice
  <1>1. Init /\ ReportInit => RetiredInv /\ Truthful /\ CountInv
    BY DEF Init, WebhookInit, Fresh, RetiredInv, CorrectedEntryIsRetired, Truthful,
           ReplyInv, RepliesTellTheTruth, Answers, ReportInit, CountInv
  <1>2. [ReportNext]_reportVars => [CalmNext]_vars
    BY DEF ReportNext, ReadPlan, ReadSum, reportVars, SerialNext, CalmNext
  <1>3. [CalmNext]_vars => [Next]_vars
    BY CalmSteps
  <1>4. TypeOK /\ ChainInv /\ PlanInv /\ Truthful /\ [Next]_vars => Truthful'
    BY TruthKept
  <1>5. TypeOK /\ ChainInv /\ Truthful /\ RetiredInv /\ [CalmNext]_vars => RetiredInv'
    BY RetiredKept
  <1>6. TypeOK /\ Truthful /\ RetiredInv /\ CountInv /\ [ReportNext]_reportVars => CountInv'
    BY CountKept
  <1>7. CountInv => NoChainCountedTwice
    BY DEF CountInv, NoChainCountedTwice, Pair
  <1> QED
    BY <1>1, <1>2, <1>3, <1>4, <1>5, <1>6, <1>7, ReportsRunBeside, TypeCorrect,
       CorrectionsCorrect, PlansCorrect, PTL DEF ReportSpec

=============================================================================
