---------------------------- MODULE ChainProofs ----------------------------
(***************************************************************************)
(* Time entries: ChainInv is inductive, so that corrections keep their     *)
(* owner and client and never merge two chains; no step loses history.     *)
(* From it follow the truth of the replies, with PlanInv for those to      *)
(* /plan and /unplan; that a confirmed correction retires its predecessor  *)
(* when no call fails; and that the walks over the chains of either table  *)
(* end and find the row they were asked about.                             *)
(***************************************************************************)
EXTENDS WebhookProofs, WebhookChecks, WellFoundedInduction, SequenceTheorems

\* Where a goroutine knows its command or remembers an entry.
Tracked == Commands \cup {"relabel", "insert", "supersede", "softdelete"}

\* A step of r, as far as time entries are concerned.
EntryMove(r) ==
  /\ UNCHANGED event
  /\ \A s \in Request : s # r => req'[s] = req[s]
  /\ \/ /\ entries' = entries
        /\ \/ req'[r].pc \notin Tracked
           \/ req'[r].pc \in Commands /\ req'[r].pc = EventOf(r).cmd
           \/ req[r].pc = "log" /\ req'[r].pc = "insert"
           \/ /\ \/ req[r].pc = "correct" /\ req'[r].pc = "relabel"
                 \/ req[r].pc = "delete" /\ req'[r].pc = "softdelete"
              /\ req'[r].prev \in ActiveEntries(EventOf(r).user, EventOf(r).issue)
              /\ req'[r].client = entries[req'[r].prev].client
           \/ /\ req[r].pc = "relabel" /\ req'[r].pc = "insert"
              /\ req'[r].prev = req[r].prev /\ req'[r].client = req[r].client
     \/ /\ entries' = Append(entries, NewEntry(r))
        /\ req[r].pc = "insert"
        /\ \/ req'[r].pc \notin Tracked
           \/ /\ EventOf(r).cmd = "correct" /\ req'[r].pc = "supersede"
              /\ req'[r].new = Len(entries) + 1
              /\ req'[r].prev = req[r].prev /\ req'[r].client = req[r].client
     \/ /\ req'[r].pc \notin Tracked
        /\ \/ /\ req[r].pc = "supersede"
              /\ entries' = Superseded(req[r].prev, req[r].new)
           \/ req[r].pc = "softdelete" /\ entries' = SoftDeleted(req[r].prev)

----------------------------------------------------------------------------
\* Every step is such a move.

LEMMA DeliveryEntryMoves ==
  ASSUME TypeOK, NEW r \in Request, UNCHANGED entries,
         \/ Receive(r) \/ RejectSignature(r) \/ Claim(r) \/ ClaimFails(r)
         \/ Dispatch(r) \/ Post(r) \/ PostFails(r) \/ Crash(r)
  PROVE  EntryMove(r)
  <1>1. WebhookTypeOK
    BY DEF TypeOK
  <1>2. /\ Over \cap Tracked = {}
        /\ {"claim", "dispatch", "post"} \cap Tracked = {}
    BY DEF Over, Tracked, Commands
  <1>3. UNCHANGED event
    BY DEF Receive, RejectSignature, Claim, ClaimFails, Dispatch, Post, PostFails,
           Crash
  <1>4. CASE (\E pc \in Over : End(r, pc)) \/ ReplyError(r)
    BY <1>1, <1>2, <1>3, <1>4, Records DEF EntryMove
  <1>5. CASE Goto(r, "claim") \/ Goto(r, "dispatch")
    BY <1>1, <1>2, <1>3, <1>5, Records DEF EntryMove
  <1>6. CASE EventOf(r).cmd \in Commands /\ Goto(r, EventOf(r).cmd)
    BY <1>1, <1>3, <1>6, Records DEF EntryMove
  <1> QED
    BY <1>4, <1>5, <1>6
    DEF Receive, RejectSignature, Claim, ClaimFails, Dispatch, Post, PostFails,
        Crash, Over

LEMMA PlanEntryMoves ==
  ASSUME TypeOK, NEW r \in Request, UNCHANGED entries,
         PlanStep(r) \/ PlanFault(r)
  PROVE  EntryMove(r)
  <1>1. WebhookTypeOK /\ UNCHANGED event
    BY DEF TypeOK, PlanStep, PlanFault, FindPlan, ReplacePlan, SoftDeletePlan,
           FindPlanFails, ReplacePlanFails, SoftDeletePlanFails
  <1>2. {"replace", "softdeleteplan", "post"} \cap Tracked = {}
    BY DEF Tracked, Commands
  <1>3. CASE \/ ReplyError(r) \/ \E kind : ReplyWith(r, kind)
             \/ Goto(r, "replace") \/ Goto(r, "softdeleteplan")
    BY <1>1, <1>2, <1>3, Records DEF EntryMove
  <1>4. PICK h \in Goroutine : h = req[r]
    BY Facts, <1>1
  <1>5. ASSUME NEW g, req' = [req EXCEPT ![r] = g],
               g.pc \in {"replace", "softdeleteplan", "post"}
        PROVE  EntryMove(r)
    BY <1>1, <1>2, <1>5 DEF WebhookTypeOK, EntryMove
  <1>6. CASE FindPlan(r) /\ ~ReplyError(r) /\ ~Goto(r, "replace")
    <2> DEFINE next == IF h.pc = "plan" THEN "replace" ELSE "softdeleteplan"
    <2>1. PICK k : req' = [req EXCEPT ![r] = [h EXCEPT !.pc = next, !.prev = k]]
      BY <1>4, <1>6 DEF FindPlan
    <2> DEFINE g == [h EXCEPT !.pc = next, !.prev = k]
    <2>2. g.pc \in {"replace", "softdeleteplan"}
      BY DEF Goroutine
    <2>3. req' = [req EXCEPT ![r] = g]
      BY <2>1
    <2> HIDE DEF g
    <2> QED
      BY <1>5, <2>2, <2>3
  <1>7. CASE ReplacePlan(r) /\ ~ReplyError(r)
    <2> DEFINE kind == IF h.prev = 0 THEN "planned" ELSE "replanned"
               g == [h EXCEPT !.pc = "post", !.new = Len(plans) + 1, !.reply = kind]
    <2>1. g.pc = "post"
      BY DEF Goroutine
    <2>2. req' = [req EXCEPT ![r] = g]
      BY <1>4, <1>7 DEF ReplacePlan
    <2> HIDE DEF g
    <2> QED
      BY <1>5, <2>1, <2>2
  <1> QED
    BY <1>3, <1>6, <1>7
    DEF PlanStep, PlanFault, SoftDeletePlan, FindPlanFails, ReplacePlanFails,
        SoftDeletePlanFails

LEMMA TimeEntryMoves ==
  ASSUME TypeOK, NEW r \in Request, TimeStep(r) \/ TimeFault(r)
  PROVE  EntryMove(r)
  <1>1. WebhookTypeOK /\ UNCHANGED event
    BY DEF TypeOK, TimeStep, TimeFault, LabelLog, FindEntry, LabelCorrection,
           CreateEntry, SupersedeEntry, SoftDeleteEntry, FindEntryFails,
           CreateEntryFails, SupersedeEntryFails, SoftDeleteEntryFails
  <1>2. "post" \notin Tracked
    BY DEF Tracked, Commands
  <1>3. PICK h \in Goroutine : h = req[r]
    BY Facts, <1>1
  <1>4. ASSUME NEW g, req' = [req EXCEPT ![r] = g]
        PROVE  req'[r] = g /\ \A s \in Request : s # r => req'[s] = req[s]
    BY <1>1, <1>4 DEF WebhookTypeOK
  <1>5. CASE LabelLog(r)
    <2>1. PICK c : req' = [req EXCEPT ![r] = [h EXCEPT !.pc = "insert",
                             !.client = c, !.since = Len(entries)]]
      BY <1>3, <1>5 DEF LabelLog
    <2> DEFINE g == [h EXCEPT !.pc = "insert", !.client = c, !.since = Len(entries)]
    <2>2. g.pc = "insert"
      BY DEF Goroutine
    <2>3. req' = [req EXCEPT ![r] = g]
      BY <2>1
    <2> HIDE DEF g
    <2> QED
      BY <1>1, <1>4, <1>5, <2>2, <2>3 DEF EntryMove, LabelLog
  <1>6. CASE FindEntry(r) /\ ~ReplyError(r)
    <2> DEFINE next == IF h.pc = "correct" THEN "relabel" ELSE "softdelete"
    <2>1. PICK k \in LatestActive(EventOf(r).user, EventOf(r).issue) :
            req' = [req EXCEPT ![r] = [h EXCEPT !.prev = k,
                             !.client = entries[k].client, !.pc = next]]
      BY <1>3, <1>6 DEF FindEntry
    <2> DEFINE g == [h EXCEPT !.prev = k, !.client = entries[k].client, !.pc = next]
    <2>2. g.pc = next /\ g.prev = k /\ g.client = entries[k].client
      BY DEF Goroutine
    <2>3. req' = [req EXCEPT ![r] = g]
      BY <2>1
    <2>4. k \in ActiveEntries(EventOf(r).user, EventOf(r).issue)
      BY <2>1 DEF LatestActive
    <2>5. req[r].pc \in {"correct", "delete"} /\ entries' = entries
      BY <1>6 DEF FindEntry
    <2> HIDE DEF g
    <2> QED
      BY <1>1, <1>3, <1>4, <2>2, <2>3, <2>4, <2>5 DEF EntryMove
  <1>7. CASE LabelCorrection(r)
    <2> DEFINE g == [h EXCEPT !.pc = "insert", !.since = Len(entries)]
    <2>1. g.pc = "insert" /\ g.prev = h.prev /\ g.client = h.client
      BY DEF Goroutine
    <2>2. req' = [req EXCEPT ![r] = g]
      BY <1>3, <1>7 DEF LabelCorrection
    <2> HIDE DEF g
    <2> QED
      BY <1>1, <1>3, <1>4, <1>7, <2>1, <2>2 DEF EntryMove, LabelCorrection
  <1>8. CASE CreateEntry(r)
    <2> DEFINE n == Len(entries) + 1
               s == [h EXCEPT !.pc = "supersede", !.new = n]
               p == [h EXCEPT !.pc = "post", !.new = n, !.reply = "logged"]
    <2>1. \/ EventOf(r).cmd = "correct" /\ req' = [req EXCEPT ![r] = s]
          \/ req' = [req EXCEPT ![r] = p]
      BY <1>3, <1>8 DEF CreateEntry
    <2>2. /\ s.pc = "supersede" /\ s.new = n /\ s.prev = h.prev
          /\ s.client = h.client
          /\ p.pc = "post"
      BY DEF Goroutine
    <2>3. req[r].pc = "insert" /\ entries' = Append(entries, NewEntry(r))
      BY <1>8 DEF CreateEntry
    <2> HIDE DEF s, p
    <2> QED
      BY <1>1, <1>2, <1>3, <1>4, <2>1, <2>2, <2>3 DEF EntryMove
  <1>9. CASE FindEntryFails(r) \/ (FindEntry(r) /\ ReplyError(r))
    BY <1>1, <1>2, <1>9, Records DEF EntryMove, FindEntryFails, FindEntry
  <1>10. CASE CreateEntryFails(r)
    BY <1>1, <1>2, <1>10, Records DEF EntryMove, CreateEntryFails
  <1>11. CASE SupersedeEntry(r) \/ SupersedeEntryFails(r)
    BY <1>1, <1>2, <1>11, Records DEF EntryMove, SupersedeEntry, SupersedeEntryFails
  <1>12. CASE SoftDeleteEntry(r) \/ SoftDeleteEntryFails(r)
    BY <1>1, <1>2, <1>12, Records
    DEF EntryMove, SoftDeleteEntry, SoftDeleteEntryFails
  <1> QED
    BY <1>5, <1>6, <1>7, <1>8, <1>9, <1>10, <1>11, <1>12 DEF TimeStep, TimeFault

LEMMA EveryStepEntryMoves ==
  ASSUME TypeOK, [Next]_vars
  PROVE  UNCHANGED vars \/ \E r \in Request : EntryMove(r)
  <1>1. ASSUME NEW r \in Request, UNCHANGED <<entries, plans>>,
               \/ Receive(r) \/ RejectSignature(r) \/ Claim(r) \/ ClaimFails(r)
               \/ Dispatch(r) \/ Post(r) \/ PostFails(r) \/ Crash(r)
        PROVE  EntryMove(r)
    BY <1>1, DeliveryEntryMoves
  <1> QED
    BY <1>1, TimeEntryMoves, PlanEntryMoves
    DEF Next, Finished, Arrive, Step, Fault, Die

----------------------------------------------------------------------------
\* What a move does to the table and to the goroutines.

\* Its old rows keep their places and the columns no UPDATE names.
LEMMA RowsKept ==
  ASSUME TypeOK, NEW r \in Request, EntryMove(r)
  PROVE  /\ DOMAIN entries \subseteq DOMAIN entries'
         /\ \A k \in DOMAIN entries : SameFacts(entries'[k], entries[k])
  <1>1. req[r].prev \in Nat /\ req[r].new \in Nat
    BY DEF TypeOK, WebhookTypeOK, Goroutine
  <1>2. CASE entries' = entries
    BY <1>2 DEF SameFacts
  <1>3. CASE entries' = Append(entries, NewEntry(r))
    BY <1>3 DEF TypeOK, TimeTypeOK, SameFacts
  <1>4. CASE \/ entries' = Superseded(req[r].prev, req[r].new)
             \/ entries' = SoftDeleted(req[r].prev)
    BY <1>1, <1>4, EntryUpdates DEF TypeOK
  <1> QED
    BY <1>2, <1>3, <1>4 DEF EntryMove

\* What a move does to the links: none, a new row without one, or one link
\* set by the correction that had its new entry ready.
LinkMove(r) ==
  \/ /\ DOMAIN entries' = DOMAIN entries
     /\ \A k \in DOMAIN entries : entries'[k].supersededBy = entries[k].supersededBy
  \/ \E n : /\ n \notin DOMAIN entries /\ n # 0
            /\ DOMAIN entries' = DOMAIN entries \cup {n}
            /\ \A k \in DOMAIN entries : k < n
            /\ entries'[n].supersededBy = 0
            /\ entries'[n].user = EventOf(r).user
            /\ entries'[n].issue = EventOf(r).issue
            /\ entries'[n].client = req[r].client
            /\ req'[r].pc = "supersede" => req'[r].new = n
            /\ \A k \in DOMAIN entries :
                 entries'[k].supersededBy = entries[k].supersededBy
  \/ /\ req[r].pc = "supersede"
     /\ DOMAIN entries' = DOMAIN entries
     /\ \A k \in DOMAIN entries :
          entries'[k].supersededBy =
            IF k = req[r].prev THEN req[r].new ELSE entries[k].supersededBy

LEMMA LinksMove ==
  ASSUME TypeOK, NEW r \in Request, EntryMove(r)
  PROVE  LinkMove(r)
  <1>1. req[r].prev \in Nat /\ req[r].new \in Nat
    BY DEF TypeOK, WebhookTypeOK, Goroutine
  <1>2. CASE entries' = entries
    BY <1>2 DEF LinkMove
  <1>3. CASE entries' = Append(entries, NewEntry(r)) /\ req[r].pc = "insert"
    <2> DEFINE n == Len(entries) + 1
    <2>1. /\ n \notin DOMAIN entries /\ n # 0
          /\ DOMAIN entries' = DOMAIN entries \cup {n}
          /\ \A k \in DOMAIN entries : k < n
          /\ entries'[n] = NewEntry(r)
          /\ \A k \in DOMAIN entries : entries'[k] = entries[k]
      BY <1>3 DEF TypeOK, TimeTypeOK
    <2>2. /\ NewEntry(r).supersededBy = 0
          /\ NewEntry(r).user = EventOf(r).user
          /\ NewEntry(r).issue = EventOf(r).issue
          /\ NewEntry(r).client = req[r].client
      BY DEF NewEntry
    <2>3. req'[r].pc = "supersede" => req'[r].new = n
      BY <1>3, <2>1 DEF EntryMove, Tracked, Commands
    <2> HIDE DEF n
    <2> QED
      BY <2>1, <2>2, <2>3 DEF LinkMove
  <1>4. CASE /\ entries' = Superseded(req[r].prev, req[r].new)
             /\ req[r].pc = "supersede"
    <2>1. /\ DOMAIN entries' = DOMAIN entries
          /\ \A k \in DOMAIN entries :
               /\ k # req[r].prev => entries'[k] = entries[k]
               /\ k = req[r].prev => entries'[k].supersededBy = req[r].new
      BY <1>1, <1>4, EntryUpdates DEF TypeOK
    <2> QED
      BY <1>4, <2>1 DEF LinkMove
  <1>5. CASE entries' = SoftDeleted(req[r].prev)
    BY <1>1, <1>5, EntryUpdates DEF TypeOK, LinkMove
  <1> QED
    BY <1>2, <1>3, <1>4, <1>5 DEF EntryMove

\* A goroutine keeps its command and the entry it remembers.
LEMMA LocalsKept ==
  ASSUME TypeOK, ChainInv, NEW r \in Request, EntryMove(r), NEW s \in Request
  PROVE  AtItsCommand(s)' /\ PrevInv(s)'
  <1>1. EventOf(s)' = EventOf(s)
    BY DEF EntryMove, EventOf
  <1>2. AtItsCommand(s) /\ PrevInv(s)
    BY DEF ChainInv
  <1>3. /\ DOMAIN entries \subseteq DOMAIN entries'
        /\ \A k \in DOMAIN entries : SameFacts(entries'[k], entries[k])
    BY RowsKept
  <1>4. ASSUME req[s].prev \in DOMAIN entries,
               entries[req[s].prev].user = EventOf(s).user,
               entries[req[s].prev].issue = EventOf(s).issue,
               entries[req[s].prev].client = req[s].client,
               req'[s].prev = req[s].prev, req'[s].client = req[s].client
        PROVE  PrevInv(s)'
    BY <1>1, <1>3, <1>4 DEF PrevInv, SameFacts
  <1>5. CASE s # r
    BY <1>1, <1>2, <1>3, <1>5
    DEF EntryMove, AtItsCommand, PrevInv, HasPrev, SameFacts
  <1>6. CASE s = r
    <2>1. CASE req'[r].pc \notin Tracked
      BY <1>6, <2>1 DEF Tracked, Commands, AtItsCommand, PrevInv, HasPrev
    <2>2. CASE req'[r].pc \in Commands /\ req'[r].pc = EventOf(r).cmd
      BY <1>1, <1>6, <2>2 DEF Commands, AtItsCommand, PrevInv, HasPrev
    <2>3. CASE req[r].pc = "log" /\ req'[r].pc = "insert"
      BY <1>1, <1>2, <1>6, <2>3 DEF Commands, AtItsCommand, PrevInv, HasPrev
    <2>4. CASE /\ \/ req[r].pc = "correct" /\ req'[r].pc = "relabel"
                  \/ req[r].pc = "delete" /\ req'[r].pc = "softdelete"
               /\ req'[r].prev \in ActiveEntries(EventOf(r).user, EventOf(r).issue)
               /\ req'[r].client = entries[req'[r].prev].client
               /\ entries' = entries
      BY <1>1, <1>2, <1>6, <2>4
      DEF Commands, AtItsCommand, PrevInv, ActiveEntries
    <2>5. CASE /\ \/ req[r].pc = "relabel" /\ req'[r].pc = "insert"
                  \/ /\ req[r].pc = "insert" /\ req'[r].pc = "supersede"
                     /\ EventOf(r).cmd = "correct"
               /\ req'[r].prev = req[r].prev /\ req'[r].client = req[r].client
      <3>1. AtItsCommand(r)'
        BY <1>1, <1>2, <1>6, <2>5 DEF Commands, AtItsCommand
      <3>2. PrevInv(r)'
        BY <1>2, <1>4, <1>6, <2>5 DEF PrevInv, HasPrev
      <3> QED
        BY <1>6, <3>1, <3>2
    <2> QED
      BY <2>1, <2>2, <2>3, <2>4, <2>5 DEF EntryMove
  <1> QED
    BY <1>5, <1>6

----------------------------------------------------------------------------
\* The invariant

\* Corrections under way keep a new entry of their own.
LEMMA NewKept ==
  ASSUME TypeOK, ChainInv, NEW r \in Request, EntryMove(r)
  PROVE  /\ \A s \in Request : NewInv(s)'
         /\ \A s, t \in Request :
              /\ req'[s].pc = "supersede" /\ req'[t].pc = "supersede"
              /\ req'[s].new = req'[t].new
              => s = t
  <1>1. /\ \A s \in Request : NewInv(s) /\ PrevInv(s)
        /\ \A s, t \in Request :
             /\ req[s].pc = "supersede" /\ req[t].pc = "supersede"
             /\ req[s].new = req[t].new
             => s = t
    BY DEF ChainInv
  <1>2. /\ DOMAIN entries \subseteq DOMAIN entries'
        /\ \A k \in DOMAIN entries : SameFacts(entries'[k], entries[k])
    BY RowsKept
  <1>3. LinkMove(r)
    BY LinksMove
  <1>4. \A s \in Request : s # r => req'[s] = req[s]
    BY DEF EntryMove
  <1>5. \A s \in Request : EventOf(s)' = EventOf(s)
    BY DEF EntryMove, EventOf
  <1>6. ASSUME req'[r].pc = "supersede"
        PROVE  /\ req[r].pc = "insert" /\ EventOf(r).cmd = "correct"
               /\ entries' = Append(entries, NewEntry(r))
               /\ req'[r].new = Len(entries) + 1
               /\ req'[r].prev = req[r].prev /\ req'[r].client = req[r].client
    BY <1>6 DEF EntryMove, Tracked, Commands
  <1>7. ASSUME NEW s \in Request, s # r, req[s].pc = "supersede"
        PROVE  \A k \in DOMAIN entries' : entries'[k].supersededBy # req[s].new
    <2>1. /\ req[s].new \in DOMAIN entries
          /\ \A k \in DOMAIN entries : entries[k].supersededBy # req[s].new
      BY <1>1, <1>7 DEF NewInv
    <2>2. req[s].new # 0
      BY <2>1 DEF TypeOK, TimeTypeOK
    <2>3. req[r].pc = "supersede" => req[r].new # req[s].new
      BY <1>1, <1>7
    <2> QED
      BY <1>3, <2>1, <2>2, <2>3 DEF LinkMove
  <1>8. ASSUME NEW s \in Request, s # r, req'[s].pc = "supersede"
        PROVE  NewInv(s)'
    <2>1. req'[s] = req[s] /\ NewInv(s)
      BY <1>1, <1>4, <1>8
    <2>2. req[s].pc = "supersede"
      BY <1>8, <2>1
    <2> QED
      BY <1>2, <1>5, <1>7, <1>8, <2>1, <2>2 DEF NewInv, SameFacts
  <1>9. ASSUME req'[r].pc = "supersede" PROVE NewInv(r)'
    <2> DEFINE n == Len(entries) + 1
    <2>1. /\ DOMAIN entries' = DOMAIN entries \cup {n} /\ n \notin DOMAIN entries
          /\ n # 0
          /\ \A k \in DOMAIN entries : k < n
          /\ entries'[n] = NewEntry(r)
          /\ \A k \in DOMAIN entries : entries'[k] = entries[k]
      BY <1>6, <1>9 DEF TypeOK, TimeTypeOK
    <2>2. /\ NewEntry(r).supersededBy = 0
          /\ NewEntry(r).user = EventOf(r).user
          /\ NewEntry(r).issue = EventOf(r).issue
          /\ NewEntry(r).client = req[r].client
      BY DEF NewEntry
    <2>3. req[r].prev \in DOMAIN entries
      BY <1>1, <1>6, <1>9 DEF PrevInv, HasPrev
    <2>4. \A k \in DOMAIN entries : entries[k].supersededBy # n
      BY <2>1 DEF ChainInv, ChainKeepsOwnerAndClient
    <2>5. req'[r].new = n /\ req'[r].prev = req[r].prev
          /\ req'[r].client = req[r].client
      BY <1>6, <1>9
    <2> HIDE DEF n
    <2> QED
      BY <1>5, <2>1, <2>2, <2>3, <2>4, <2>5 DEF NewInv
  <1>10. ASSUME NEW s \in Request, s # r,
                req'[r].pc = "supersede", req'[s].pc = "supersede"
         PROVE  req'[r].new # req'[s].new
    <2>1. req[s].new \in DOMAIN entries /\ req'[s].new = req[s].new
      BY <1>1, <1>4, <1>10 DEF NewInv
    <2>2. Len(entries) + 1 \notin DOMAIN entries
      BY DEF TypeOK, TimeTypeOK
    <2> QED
      BY <1>6, <1>10, <2>1, <2>2
  <1> QED
    BY <1>1, <1>4, <1>8, <1>9, <1>10 DEF NewInv

LEMMA ChainsKept ==
  ASSUME TypeOK, ChainInv, NEW r \in Request, EntryMove(r)
  PROVE  ChainKeepsOwnerAndClient' /\ ChainsNeverMerge'
  <1>1. /\ DOMAIN entries \subseteq DOMAIN entries'
        /\ \A k \in DOMAIN entries : SameFacts(entries'[k], entries[k])
    BY RowsKept
  <1>2. LinkMove(r)
    BY LinksMove
  <1>3. ChainKeepsOwnerAndClient /\ ChainsNeverMerge /\ NewInv(r) /\ PrevInv(r)
    BY DEF ChainInv
  <1>4. ASSUME NEW k \in DOMAIN entries',
               entries'[k].supersededBy # 0
        PROVE  \/ k \in DOMAIN entries /\ entries'[k].supersededBy = entries[k].supersededBy
               \/ /\ req[r].pc = "supersede" /\ k = req[r].prev /\ k \in DOMAIN entries
                  /\ entries'[k].supersededBy = req[r].new
    BY <1>2, <1>4 DEF LinkMove
  <1>5. ASSUME NEW k \in DOMAIN entries',
               entries'[k].supersededBy # 0
        PROVE  LET n == entries'[k].supersededBy
               IN  /\ n \in DOMAIN entries'
                   /\ k < n
                   /\ entries'[n].user = entries'[k].user
                   /\ entries'[n].issue = entries'[k].issue
                   /\ entries'[n].client = entries'[k].client
    <2>1. PICK n : n = entries'[k].supersededBy
      OBVIOUS
    <2>2. /\ n \in DOMAIN entries /\ k \in DOMAIN entries /\ k < n
          /\ entries[n].user = entries[k].user
          /\ entries[n].issue = entries[k].issue
          /\ entries[n].client = entries[k].client
      BY <1>3, <1>4, <1>5, <2>1
      DEF ChainKeepsOwnerAndClient, NewInv, PrevInv, HasPrev
    <2> QED
      BY <1>1, <2>1, <2>2 DEF SameFacts
  <1>6. ASSUME NEW j \in DOMAIN entries', NEW k \in DOMAIN entries',
               entries'[j].supersededBy = entries'[k].supersededBy,
               entries'[j].supersededBy # 0
        PROVE  j = k
    BY <1>3, <1>4, <1>6 DEF ChainsNeverMerge, NewInv
  <1> QED
    BY <1>5, <1>6 DEF ChainKeepsOwnerAndClient, ChainsNeverMerge

\* However corrections and deletions of an entry overlap, fail or crash between
\* the lookup, the INSERT and the UPDATE, the locals of the goroutines stay in
\* step with the table: ChainInv is inductive.
THEOREM CorrectionsCorrect == Spec => []ChainInv
  <1>1. Init => ChainInv
    BY DEF Init, WebhookInit, TimeInit, ChainInv, AtItsCommand, HasPrev, PrevInv,
           NewInv, ChainKeepsOwnerAndClient, ChainsNeverMerge, Fresh, Commands
  <1>2. TypeOK /\ ChainInv /\ [Next]_vars => ChainInv'
    <2>1. TypeOK /\ ChainInv /\ UNCHANGED vars => ChainInv'
      BY DEF vars, ChainInv, AtItsCommand, HasPrev, PrevInv, NewInv, EventOf,
             ChainKeepsOwnerAndClient, ChainsNeverMerge
    <2>2. ASSUME TypeOK, ChainInv, NEW r \in Request, EntryMove(r)
          PROVE  ChainInv'
      BY <2>2, LocalsKept, NewKept, ChainsKept DEF ChainInv
    <2> QED
      BY <2>1, <2>2, EveryStepEntryMoves
  <1> QED
    BY <1>1, <1>2, TypeCorrect, PTL DEF Spec

\* Chains of corrections keep their user, issue and client, and are acyclic,
\* through the window in which handleCorrect has created the new row only.
THEOREM ChainsSound == Spec => []ChainKeepsOwnerAndClient
  <1>1. ChainInv => ChainKeepsOwnerAndClient
    BY DEF ChainInv
  <1> QED
    BY <1>1, CorrectionsCorrect, PTL

\* No row supersedes two others, however many /correct have found the same one.
THEOREM ChainsStaySeparate == Spec => []ChainsNeverMerge
  <1>1. ChainInv => ChainsNeverMerge
    BY DEF ChainInv
  <1> QED
    BY <1>1, CorrectionsCorrect, PTL

----------------------------------------------------------------------------
\* What reports count, and what a step may never do

\* A row of the table after a move: as it was, or changed by the UPDATE that
\* r was about to do.
LEMMA RowMoves ==
  ASSUME TypeOK, NEW r \in Request, EntryMove(r), NEW k \in DOMAIN entries
  PROVE  \/ entries'[k] = entries[k]
         \/ /\ k = req[r].prev
            /\ \/ /\ req[r].pc = "supersede"
                  /\ entries'[k].status = "superseded"
                  /\ entries'[k].supersededBy = req[r].new
               \/ /\ req[r].pc = "softdelete"
                  /\ entries'[k].status = "deleted"
                  /\ entries'[k].supersededBy = entries[k].supersededBy
  <1>1. req[r].prev \in Nat /\ req[r].new \in Nat
    BY DEF TypeOK, WebhookTypeOK, Goroutine
  <1>2. CASE entries' = Append(entries, NewEntry(r))
    BY <1>2 DEF TypeOK, TimeTypeOK
  <1>3. CASE entries' = Superseded(req[r].prev, req[r].new) /\ req[r].pc = "supersede"
    BY <1>1, <1>3, EntryUpdates DEF TypeOK
  <1>4. CASE entries' = SoftDeleted(req[r].prev) /\ req[r].pc = "softdelete"
    BY <1>1, <1>4, EntryUpdates DEF TypeOK
  <1> QED
    BY <1>2, <1>3, <1>4 DEF EntryMove

\* An active entry has no successor and a superseded one has one: what reports
\* count is never also counted through its correction's link.
THEOREM StatusSound == Spec => []StatusMatchesLink
  <1>1. Init => StatusMatchesLink
    BY DEF Init, TimeInit, StatusMatchesLink
  <1>2. TypeOK /\ ChainInv /\ StatusMatchesLink /\ [Next]_vars => StatusMatchesLink'
    <2>1. TypeOK /\ StatusMatchesLink /\ UNCHANGED vars => StatusMatchesLink'
      BY DEF vars, StatusMatchesLink
    <2>2. ASSUME TypeOK, ChainInv, StatusMatchesLink, NEW r \in Request, EntryMove(r),
                 NEW k \in DOMAIN entries'
          PROVE  /\ entries'[k].status = "active" => entries'[k].supersededBy = 0
                 /\ entries'[k].status = "superseded" => entries'[k].supersededBy # 0
      <3>1. CASE k \in DOMAIN entries
        <4>1. req[r].pc = "supersede" => req[r].new # 0
          BY <2>2 DEF ChainInv, NewInv, TypeOK, TimeTypeOK
        <4> QED
          BY <2>2, <3>1, <4>1, RowMoves DEF StatusMatchesLink
      <3>2. CASE k \notin DOMAIN entries
        <4>1. req[r].prev \in Nat /\ req[r].new \in Nat
          BY <2>2 DEF TypeOK, WebhookTypeOK, Goroutine
        <4>2. entries' = Append(entries, NewEntry(r))
          BY <2>2, <3>2, <4>1, EntryUpdates DEF EntryMove, TypeOK
        <4>3. entries'[k] = NewEntry(r)
          BY <2>2, <3>2, <4>2 DEF TypeOK, TimeTypeOK
        <4> QED
          BY <4>3 DEF NewEntry
      <3> QED
        BY <3>1, <3>2
    <2>3. ASSUME TypeOK, ChainInv, StatusMatchesLink, NEW r \in Request, EntryMove(r)
          PROVE  StatusMatchesLink'
      BY <2>2, <2>3 DEF StatusMatchesLink
    <2> QED
      BY <2>1, <2>3, EveryStepEntryMoves
  <1> QED
    BY <1>1, <1>2, TypeCorrect, CorrectionsCorrect, PTL DEF Spec

\* Nobody's command changes another user's entries, or those of another issue,
\* although the UPDATEs go by an id that was looked up earlier.
THEOREM OwnEntriesOnly == Spec => OnlyOwnEntries
  <1> DEFINE own == \A k \in DOMAIN entries :
                      entries'[k] # entries[k] =>
                        \E r \in Request :
                          /\ req'[r] # req[r]
                          /\ EventOf(r).cmd \in {"correct", "delete"}
                          /\ EventOf(r).user = entries[k].user
                          /\ EventOf(r).issue = entries[k].issue
  <1>1. TypeOK /\ ChainInv /\ [Next]_vars => [own]_vars
    <2>1. ASSUME TypeOK, ChainInv, NEW r \in Request, EntryMove(r) PROVE own
      <3>1. SUFFICES ASSUME NEW k \in DOMAIN entries, entries'[k] # entries[k]
                     PROVE  /\ req'[r] # req[r]
                            /\ EventOf(r).cmd \in {"correct", "delete"}
                            /\ EventOf(r).user = entries[k].user
                            /\ EventOf(r).issue = entries[k].issue
        OBVIOUS
      <3>2. k = req[r].prev /\ req[r].pc \in {"supersede", "softdelete"}
        BY <2>1, <3>1, RowMoves
      <3>3. PrevInv(r) /\ AtItsCommand(r)
        BY <2>1 DEF ChainInv
      <3>4. req'[r].pc \notin Tracked
        BY <2>1, <3>1, <3>2 DEF EntryMove
      <3> QED
        BY <3>2, <3>3, <3>4 DEF PrevInv, HasPrev, AtItsCommand, Tracked
    <2> QED
      BY <2>1, EveryStepEntryMoves
  <1> QED
    BY <1>1, TypeCorrect, CorrectionsCorrect, PTL DEF Spec, OnlyOwnEntries

\* An UPDATE is all there is between a row and the row it becomes.
LEMMA OnlyStatusAndLink ==
  ASSUME NEW e \in Entry, NEW s, NEW n
  PROVE  /\ LET d == [e EXCEPT !.status = s, !.supersededBy = n]
            IN  d = [e EXCEPT !.status = d.status, !.supersededBy = d.supersededBy]
         /\ LET d == [e EXCEPT !.status = s]
            IN  d = [e EXCEPT !.status = d.status, !.supersededBy = d.supersededBy]
         /\ e = [e EXCEPT !.status = e.status, !.supersededBy = e.supersededBy]
  BY DEF Entry

\* An entry is never removed, nor brought back to life, nor changed in any
\* other column: corrections and deletions only ever add to the history.
THEOREM HistoryKept == Spec => HistoryIsKept
  <1> DEFINE same(k) == entries'[k] = [entries[k] EXCEPT
                            !.status = entries'[k].status,
                            !.supersededBy = entries'[k].supersededBy]
             kept == \A k \in DOMAIN entries :
                       /\ k \in DOMAIN entries'
                       /\ same(k)
                       /\ entries'[k].status = "active" => entries[k].status = "active"
  <1>1. TypeOK /\ [Next]_vars => [kept]_vars
    <2>1. ASSUME TypeOK, NEW r \in Request, EntryMove(r), NEW k \in DOMAIN entries
          PROVE  same(k)
      <3>1. PICK e \in Entry : e = entries[k]
        BY <2>1 DEF TypeOK, TimeTypeOK
      <3>2. PICK n : n = req[r].new
        OBVIOUS
      <3>3. \/ entries'[k] = e
            \/ entries'[k] = [e EXCEPT !.status = "superseded", !.supersededBy = n]
            \/ entries'[k] = [e EXCEPT !.status = "deleted"]
        <4>1. CASE entries' = Append(entries, NewEntry(r))
          BY <2>1, <3>1, <4>1 DEF TypeOK, TimeTypeOK
        <4>2. CASE entries' = Superseded(req[r].prev, n)
          BY <2>1, <3>1, <4>2 DEF TypeOK, TimeTypeOK, Superseded
        <4>3. CASE entries' = SoftDeleted(req[r].prev)
          BY <2>1, <3>1, <4>3 DEF TypeOK, TimeTypeOK, SoftDeleted
        <4> QED
          BY <2>1, <3>1, <3>2, <4>1, <4>2, <4>3 DEF EntryMove
      <3> QED
        BY <3>1, <3>3, OnlyStatusAndLink
    <2>2. ASSUME TypeOK, NEW r \in Request, EntryMove(r) PROVE kept
      <3> HIDE DEF same
      <3> QED
        BY <2>1, <2>2, RowsKept, RowMoves
    <2> QED
      BY <2>2, EveryStepEntryMoves
  <1> QED
    BY <1>1, TypeCorrect, PTL DEF Spec, HistoryIsKept

----------------------------------------------------------------------------
\* What the bot says

\* RepliesTellTheTruth of one reply.
TrueReply(d, kind, new, prev) ==
  /\ kind \in {"logged", "corrected"} =>
       new \in DOMAIN entries /\ entries[new].source = d
  /\ kind \in {"corrected", "deleted"} =>
       /\ prev \in DOMAIN entries
       /\ entries[prev].user = event[d].user /\ entries[prev].issue = event[d].issue
  /\ kind = "deleted" => entries[prev].status # "active"
  /\ kind \in {"planned", "replanned"} =>
       new \in DOMAIN plans /\ plans[new].source = d
  /\ kind \in {"replanned", "removed"} =>
       /\ prev \in DOMAIN plans
       /\ plans[prev].issue = event[d].issue
       /\ plans[prev].status # "active"

\* The reply a goroutine is about to post is true, and those that are still to
\* write what they will report know the rows it takes.
ReplyInv(r) ==
  /\ req[r].pc = "post" => TrueReply(r[1], req[r].reply, req[r].new, req[r].prev)
  /\ req[r].pc = "supersede" =>
       req[r].new \in DOMAIN entries /\ entries[req[r].new].source = r[1]
  /\ req[r].pc = "softdeleteplan" => req[r].prev \in DOMAIN plans

Truthful == RepliesTellTheTruth /\ \A r \in Request : ReplyInv(r)

\* The two tables after any step: rows keep what no UPDATE names, and those
\* that are not active stay so.
RowsStay ==
  /\ UNCHANGED event
  /\ DOMAIN entries \subseteq DOMAIN entries' /\ DOMAIN plans \subseteq DOMAIN plans'
  /\ \A k \in DOMAIN entries :
       /\ entries'[k].source = entries[k].source /\ entries'[k].user = entries[k].user
       /\ entries'[k].issue = entries[k].issue
       /\ entries'[k].status = "active" => entries[k].status = "active"
  /\ \A k \in DOMAIN plans :
       /\ plans'[k].source = plans[k].source /\ plans'[k].issue = plans[k].issue
       /\ plans'[k].status = "active" => plans[k].status = "active"

LEMMA AllRowsStay ==
  ASSUME TypeOK, [Next]_vars
  PROVE  RowsStay
  <1>1. CASE UNCHANGED vars
    BY <1>1 DEF vars, RowsStay
  <1>2. ASSUME NEW r \in Request, EntryMove(r)
        PROVE  /\ UNCHANGED event /\ DOMAIN entries \subseteq DOMAIN entries'
               /\ \A k \in DOMAIN entries :
                    /\ entries'[k].source = entries[k].source
                    /\ entries'[k].user = entries[k].user
                    /\ entries'[k].issue = entries[k].issue
                    /\ entries'[k].status = "active" => entries[k].status = "active"
    BY <1>2, RowsKept, RowMoves DEF SameFacts, EntryMove
  <1>3. ASSUME NEW r \in Request, PlanMove(r)
        PROVE  /\ DOMAIN plans \subseteq DOMAIN plans'
               /\ \A k \in DOMAIN plans :
                    /\ plans'[k].source = plans[k].source
                    /\ plans'[k].issue = plans[k].issue
                    /\ plans'[k].status = "active" => plans[k].status = "active"
    <2>1. \A k \in DOMAIN plans : plans'[k].source = plans[k].source
      BY <1>3, PlanUpdates DEF PlanMove, TypeOK, SamePlanFacts
    <2>2. DOMAIN plans \subseteq DOMAIN plans'
      BY <1>3, PlanUpdates DEF PlanMove, TypeOK
    <2> QED
      BY <1>3, <2>1, <2>2, PlansOnlyClose
  <1> QED
    BY <1>1, <1>2, <1>3, EveryStepMoves, EveryStepEntryMoves DEF RowsStay

LEMMA TruthStays ==
  ASSUME RowsStay, NEW d, NEW kind, NEW new, NEW prev, TrueReply(d, kind, new, prev)
  PROVE  TrueReply(d, kind, new, prev)'
  <1>1. kind \in {"logged", "corrected"} =>
          new \in DOMAIN entries' /\ entries'[new].source = d
    BY DEF TrueReply, RowsStay
  <1>2. kind \in {"corrected", "deleted"} =>
          /\ prev \in DOMAIN entries'
          /\ entries'[prev].user = event'[d].user /\ entries'[prev].issue = event'[d].issue
    BY DEF TrueReply, RowsStay
  <1>3. kind = "deleted" => entries'[prev].status # "active"
    BY DEF TrueReply, RowsStay
  <1>4. kind \in {"planned", "replanned"} =>
          new \in DOMAIN plans' /\ plans'[new].source = d
    BY DEF TrueReply, RowsStay
  <1>5. kind \in {"replanned", "removed"} =>
          /\ prev \in DOMAIN plans'
          /\ plans'[prev].issue = event'[d].issue
          /\ plans'[prev].status # "active"
    BY DEF TrueReply, RowsStay
  <1> QED
    BY <1>1, <1>2, <1>3, <1>4, <1>5 DEF TrueReply

\* A step of r, as far as its reply is concerned: it says nothing yet, or an
\* error, or what it has just done.
ReplyMove(r) ==
  /\ \A s \in Request : s # r => req'[s] = req[s]
  /\ \/ req'[r].pc \notin {"post", "supersede", "softdeleteplan"}
     \/ req'[r].pc = "post" /\ req'[r].reply = "error"
     \/ /\ req[r].pc = "insert" /\ entries' = Append(entries, NewEntry(r))
        /\ req'[r].new = Len(entries) + 1
        /\ \/ req'[r].pc = "supersede"
           \/ req'[r].pc = "post" /\ req'[r].reply = "logged"
     \/ /\ req'[r].pc = "post" /\ req'[r].reply = "corrected"
        /\ req[r].pc = "supersede"
        /\ req'[r].new = req[r].new /\ req'[r].prev = req[r].prev
     \/ /\ req'[r].pc = "post" /\ req'[r].reply = "deleted"
        /\ req[r].pc = "softdelete" /\ entries' = SoftDeleted(req[r].prev)
        /\ req'[r].prev = req[r].prev
     \/ /\ req'[r].pc = "softdeleteplan"
        /\ req'[r].prev \in ActiveIn(plans, EventOf(r).issue) /\ plans' = plans
     \/ /\ req'[r].pc = "post" /\ req[r].pc = "replace" /\ plans' = Replaced(r)
        /\ req'[r].new = Len(plans) + 1 /\ req'[r].prev = req[r].prev
        /\ req'[r].reply = IF req[r].prev = 0 THEN "planned" ELSE "replanned"
     \/ /\ req'[r].pc = "post" /\ req'[r].reply = "removed"
        /\ req[r].pc = "softdeleteplan" /\ plans' = Closed(r)
        /\ req'[r].prev = req[r].prev

\* The fields of a goroutine that has its reply ready.
LEMMA ReplyRecords ==
  ASSUME WebhookTypeOK, NEW r \in Request
  PROVE  /\ \A kind : ReplyWith(r, kind) =>
              /\ req'[r].pc = "post" /\ req'[r].reply = kind
              /\ req'[r].new = req[r].new /\ req'[r].prev = req[r].prev
         /\ ReplyError(r) => req'[r].pc = "post" /\ req'[r].reply = "error"
         /\ \A n \in Nat : \A kind :
              req' = [req EXCEPT ![r] =
                       [@ EXCEPT !.pc = "post", !.new = n, !.reply = kind]] =>
                /\ req'[r].pc = "post" /\ req'[r].reply = kind
                /\ req'[r].new = n /\ req'[r].prev = req[r].prev
                /\ \A s \in Request : s # r => req'[s] = req[s]
         /\ \A n \in Nat :
              req' = [req EXCEPT ![r] = [@ EXCEPT !.pc = "supersede", !.new = n]] =>
                /\ req'[r].pc = "supersede" /\ req'[r].new = n
                /\ req'[r].prev = req[r].prev
                /\ \A s \in Request : s # r => req'[s] = req[s]
  <1>1. PICK h \in Goroutine : h = req[r]
    BY DEF WebhookTypeOK
  <1>2. ASSUME NEW g, req' = [req EXCEPT ![r] = g]
        PROVE  req'[r] = g /\ \A s \in Request : s # r => req'[s] = req[s]
    BY <1>2 DEF WebhookTypeOK
  <1>3. ASSUME NEW kind, ReplyWith(r, kind)
        PROVE  /\ req'[r].pc = "post" /\ req'[r].reply = kind
               /\ req'[r].new = req[r].new /\ req'[r].prev = req[r].prev
    <2> DEFINE g == [h EXCEPT !.pc = "post", !.reply = kind]
    <2>1. g.pc = "post" /\ g.reply = kind /\ g.new = h.new /\ g.prev = h.prev
      BY DEF Goroutine
    <2>2. req' = [req EXCEPT ![r] = g]
      BY <1>1, <1>3 DEF ReplyWith
    <2> HIDE DEF g
    <2> QED
      BY <1>1, <1>2, <2>1, <2>2
  <1>4. ReplyError(r) => req'[r].pc = "post" /\ req'[r].reply = "error"
    BY <1>2, Facts DEF ReplyError
  <1>5. ASSUME NEW n \in Nat, NEW kind,
               req' = [req EXCEPT ![r] =
                        [@ EXCEPT !.pc = "post", !.new = n, !.reply = kind]]
        PROVE  /\ req'[r].pc = "post" /\ req'[r].reply = kind
               /\ req'[r].new = n /\ req'[r].prev = req[r].prev
               /\ \A s \in Request : s # r => req'[s] = req[s]
    <2> DEFINE g == [h EXCEPT !.pc = "post", !.new = n, !.reply = kind]
    <2>1. g.pc = "post" /\ g.reply = kind /\ g.new = n /\ g.prev = h.prev
      BY DEF Goroutine
    <2>2. req' = [req EXCEPT ![r] = g]
      BY <1>1, <1>5
    <2> HIDE DEF g
    <2> QED
      BY <1>1, <1>2, <2>1, <2>2
  <1>6. ASSUME NEW n \in Nat,
               req' = [req EXCEPT ![r] = [@ EXCEPT !.pc = "supersede", !.new = n]]
        PROVE  /\ req'[r].pc = "supersede" /\ req'[r].new = n
               /\ req'[r].prev = req[r].prev
               /\ \A s \in Request : s # r => req'[s] = req[s]
    <2> DEFINE g == [h EXCEPT !.pc = "supersede", !.new = n]
    <2>1. g.pc = "supersede" /\ g.new = n /\ g.prev = h.prev
      BY DEF Goroutine
    <2>2. req' = [req EXCEPT ![r] = g]
      BY <1>1, <1>6
    <2> HIDE DEF g
    <2> QED
      BY <1>1, <1>2, <2>1, <2>2
  <1> QED
    BY <1>3, <1>4, <1>5, <1>6

LEMMA DeliveryReplies ==
  ASSUME TypeOK, NEW r \in Request,
         \/ Receive(r) \/ RejectSignature(r) \/ Claim(r) \/ ClaimFails(r)
         \/ Dispatch(r) \/ Post(r) \/ PostFails(r) \/ Crash(r)
  PROVE  ReplyMove(r)
  <1>1. WebhookTypeOK
    BY DEF TypeOK
  <1>2. /\ Over \cap {"post", "supersede", "softdeleteplan"} = {}
        /\ Commands \cap {"post", "supersede", "softdeleteplan"} = {}
    BY DEF Over, Commands
  <1>3. CASE \E pc \in Over : End(r, pc)
    BY <1>1, <1>2, <1>3, Records DEF ReplyMove
  <1>4. CASE ReplyError(r)
    BY <1>1, <1>4, Records, ReplyRecords DEF ReplyMove
  <1>5. CASE \E pc \in Commands \cup {"claim", "dispatch"} : Goto(r, pc)
    BY <1>1, <1>2, <1>5, Records DEF ReplyMove
  <1> QED
    BY <1>3, <1>4, <1>5
    DEF Receive, RejectSignature, Claim, ClaimFails, Dispatch, Post, PostFails,
        Crash, Over

LEMMA TimeReplies ==
  ASSUME TypeOK, NEW r \in Request, TimeStep(r) \/ TimeFault(r)
  PROVE  ReplyMove(r)
  <1>1. WebhookTypeOK /\ Len(entries) + 1 \in Nat
    BY DEF TypeOK, TimeTypeOK
  <1>2. PICK h \in Goroutine : h = req[r]
    BY <1>1, Facts
  <1>3. CASE ReplyError(r)
    BY <1>1, <1>3, Records, ReplyRecords DEF ReplyMove
  <1>4. ASSUME NEW g, req' = [req EXCEPT ![r] = g],
               g.pc \in {"insert", "relabel", "softdelete"}
        PROVE  ReplyMove(r)
    BY <1>1, <1>4 DEF WebhookTypeOK, ReplyMove
  <1>5. CASE LabelLog(r) \/ LabelCorrection(r)
    <2>1. /\ \A c : [h EXCEPT !.pc = "insert", !.client = c,
                              !.since = Len(entries)].pc = "insert"
          /\ [h EXCEPT !.pc = "insert", !.since = Len(entries)].pc = "insert"
      BY DEF Goroutine
    <2>2. \/ \E c : req' = [req EXCEPT ![r] = [h EXCEPT !.pc = "insert",
                                     !.client = c, !.since = Len(entries)]]
          \/ req' = [req EXCEPT ![r] = [h EXCEPT !.pc = "insert",
                                                 !.since = Len(entries)]]
      BY <1>2, <1>5 DEF LabelLog, LabelCorrection
    <2> QED
      BY <1>4, <2>1, <2>2
  <1>6. CASE FindEntry(r) /\ ~ReplyError(r)
    <2> DEFINE next == IF h.pc = "correct" THEN "relabel" ELSE "softdelete"
    <2>1. PICK k : req' = [req EXCEPT ![r] = [h EXCEPT !.prev = k,
                             !.client = entries[k].client, !.pc = next]]
      BY <1>2, <1>6 DEF FindEntry
    <2> DEFINE g == [h EXCEPT !.prev = k, !.client = entries[k].client, !.pc = next]
    <2>2. g.pc \in {"relabel", "softdelete"}
      BY DEF Goroutine
    <2>3. req' = [req EXCEPT ![r] = g]
      BY <2>1
    <2> HIDE DEF g
    <2> QED
      BY <1>4, <2>2, <2>3
  <1>7. CASE CreateEntry(r)
    <2>1. req[r].pc = "insert" /\ entries' = Append(entries, NewEntry(r))
      BY <1>7 DEF CreateEntry
    <2>2. CASE EventOf(r).cmd = "correct"
      <3>1. req' = [req EXCEPT ![r] =
                     [@ EXCEPT !.pc = "supersede", !.new = Len(entries) + 1]]
        BY <1>7, <2>2 DEF CreateEntry
      <3> QED
        BY <1>1, <2>1, <3>1, ReplyRecords DEF ReplyMove
    <2>3. CASE EventOf(r).cmd # "correct"
      <3>1. req' = [req EXCEPT ![r] =
                     [@ EXCEPT !.pc = "post", !.new = Len(entries) + 1,
                               !.reply = "logged"]]
        BY <1>7, <2>3 DEF CreateEntry
      <3> QED
        BY <1>1, <2>1, <3>1, ReplyRecords DEF ReplyMove
    <2> QED
      BY <2>2, <2>3
  <1>8. CASE SupersedeEntry(r) \/ SupersedeEntryFails(r)
    BY <1>1, <1>8, Records, ReplyRecords
    DEF ReplyMove, SupersedeEntry, SupersedeEntryFails
  <1>9. CASE SoftDeleteEntry(r)
    BY <1>1, <1>9, Records, ReplyRecords DEF ReplyMove, SoftDeleteEntry
  <1> QED
    BY <1>3, <1>5, <1>6, <1>7, <1>8, <1>9
    DEF TimeStep, TimeFault, FindEntryFails, CreateEntryFails, SoftDeleteEntryFails

LEMMA PlanReplies ==
  ASSUME TypeOK, NEW r \in Request, PlanStep(r) \/ PlanFault(r)
  PROVE  ReplyMove(r)
  <1>1. WebhookTypeOK /\ Len(plans) + 1 \in Nat
    BY DEF TypeOK, PlanTypeOK
  <1>2. PICK h \in Goroutine : h = req[r]
    BY <1>1, Facts
  <1>3. CASE ReplyError(r)
    BY <1>1, <1>3, Records, ReplyRecords DEF ReplyMove
  <1>4. CASE FindPlan(r) /\ ~ReplyError(r)
    <2>1. CASE Goto(r, "replace")
      BY <1>1, <2>1, Records DEF ReplyMove
    <2>2. CASE ~Goto(r, "replace")
      <3> DEFINE next == IF h.pc = "plan" THEN "replace" ELSE "softdeleteplan"
      <3>1. PICK k \in ActiveIn(plans, EventOf(r).issue) :
              req' = [req EXCEPT ![r] = [h EXCEPT !.pc = next, !.prev = k]]
        BY <1>2, <1>4, <2>2 DEF FindPlan
      <3> DEFINE g == [h EXCEPT !.pc = next, !.prev = k]
      <3>2. g.pc \in {"replace", "softdeleteplan"} /\ g.prev = k
        BY DEF Goroutine
      <3>3. req' = [req EXCEPT ![r] = g] /\ plans' = plans
        BY <1>4, <3>1 DEF FindPlan
      <3> HIDE DEF g
      <3> QED
        BY <1>1, <3>1, <3>2, <3>3 DEF ReplyMove, WebhookTypeOK
    <2> QED
      BY <2>1, <2>2
  <1>5. CASE ReplacePlan(r) /\ ~ReplyError(r)
    <2> DEFINE kind == IF req[r].prev = 0 THEN "planned" ELSE "replanned"
    <2>1. /\ req[r].pc = "replace" /\ plans' = Replaced(r)
          /\ req' = [req EXCEPT ![r] =
               [@ EXCEPT !.pc = "post", !.new = Len(plans) + 1, !.reply = kind]]
      BY <1>5 DEF ReplacePlan
    <2> HIDE DEF kind
    <2>2. /\ req'[r].pc = "post" /\ req'[r].reply = kind
          /\ req'[r].new = Len(plans) + 1 /\ req'[r].prev = req[r].prev
          /\ \A s \in Request : s # r => req'[s] = req[s]
      BY <1>1, <2>1, ReplyRecords
    <2> QED
      BY <2>1, <2>2 DEF ReplyMove, kind
  <1>6. CASE SoftDeletePlan(r)
    BY <1>1, <1>6, Records, ReplyRecords DEF ReplyMove, SoftDeletePlan
  <1> QED
    BY <1>3, <1>4, <1>5, <1>6
    DEF PlanStep, PlanFault, FindPlanFails, ReplacePlanFails, SoftDeletePlanFails

\* Comments are only added, and only the one that a goroutine had ready.
Says(r) ==
  \A d \in Delivery : \A c \in Answers(d)' :
    \/ c \in Answers(d)
    \/ d = r[1] /\ req[r].pc = "post" /\ c = Reply(r)

LEMMA PostSays ==
  ASSUME TypeOK, NEW r \in Request, Post(r)
  PROVE  Says(r)
  <1> SUFFICES ASSUME NEW d \in Delivery, NEW n \in DOMAIN comments'[d]
               PROVE  \/ comments'[d][n] \in Answers(d)
                      \/ d = r[1] /\ comments'[d][n] = Reply(r)
    BY DEF Says, Answers, Post
  <1>1. /\ comments \in [Delivery -> Seq(Comment)] /\ comments[d] \in Seq(Comment)
        /\ comments' = [comments EXCEPT ![r[1]] = Append(@, Reply(r))]
    BY DEF TypeOK, WebhookTypeOK, Post
  <1>2. CASE d # r[1]
    BY <1>1, <1>2 DEF Answers
  <1>3. CASE d = r[1]
    <2>1. comments'[d] = Append(comments[d], Reply(r))
      BY <1>1, <1>3
    <2>2. CASE n \in DOMAIN comments[d]
      BY <1>1, <2>1, <2>2 DEF Answers
    <2>3. CASE n \notin DOMAIN comments[d]
      BY <1>1, <1>3, <2>1, <2>3
    <2> QED
      BY <2>2, <2>3
  <1> QED
    BY <1>2, <1>3

LEMMA EveryStepReplies ==
  ASSUME TypeOK, [Next]_vars
  PROVE  UNCHANGED vars \/ \E r \in Request : ReplyMove(r) /\ Says(r)
  <1>1. ASSUME NEW r \in Request, Arrive(r) \/ Step(r) \/ Fault(r) \/ Die(r)
        PROVE  ReplyMove(r) /\ Says(r)
    <2>1. ReplyMove(r)
      BY <1>1, DeliveryReplies, TimeReplies, PlanReplies DEF Arrive, Step, Fault, Die
    <2>2. Post(r) => Says(r)
      BY PostSays
    <2>3. UNCHANGED comments => Says(r)
      BY DEF Says, Answers
    <2>4. Post(r) \/ UNCHANGED comments
      BY <1>1
      DEF Arrive, Step, Fault, Die, Receive, RejectSignature, Claim, ClaimFails,
          Dispatch, PostFails, Crash, TimeStep, TimeFault, PlanStep, PlanFault,
          LabelLog, FindEntry, LabelCorrection, CreateEntry, SupersedeEntry,
          SoftDeleteEntry, FindEntryFails, CreateEntryFails, SupersedeEntryFails,
          SoftDeleteEntryFails, FindPlan, ReplacePlan, SoftDeletePlan,
          FindPlanFails, ReplacePlanFails, SoftDeletePlanFails
    <2> QED
      BY <2>1, <2>2, <2>3, <2>4
  <1> QED
    BY <1>1 DEF Next, Finished

LEMMA NewReplyIsTrue ==
  ASSUME TypeOK, ChainInv, PlanInv, Truthful, RowsStay,
         NEW r \in Request, ReplyMove(r)
  PROVE  ReplyInv(r)'
  <1>1. /\ EventOf(r)' = EventOf(r) /\ EventOf(r) = event[r[1]]
        /\ EventOf(r).user = event'[r[1]].user /\ EventOf(r).issue = event'[r[1]].issue
    BY DEF RowsStay, EventOf
  <1>2. AtItsCommand(r) /\ PrevInv(r) /\ PlanPrevInv(r) /\ ReplyInv(r)
    BY DEF ChainInv, PlanInv, Truthful
  <1>3. CASE \/ req'[r].pc \notin {"post", "supersede", "softdeleteplan"}
             \/ req'[r].pc = "post" /\ req'[r].reply = "error"
    BY <1>3 DEF ReplyInv, TrueReply
  <1>4. CASE /\ req[r].pc = "insert" /\ entries' = Append(entries, NewEntry(r))
             /\ req'[r].new = Len(entries) + 1
             /\ \/ req'[r].pc = "supersede"
                \/ req'[r].pc = "post" /\ req'[r].reply = "logged"
    <2>1. /\ Len(entries) + 1 \in DOMAIN entries'
          /\ entries'[Len(entries) + 1] = NewEntry(r)
      BY <1>4 DEF TypeOK, TimeTypeOK
    <2>2. NewEntry(r).source = r[1]
      BY DEF NewEntry
    <2> QED
      BY <1>4, <2>1, <2>2 DEF ReplyInv, TrueReply
  <1>5. CASE /\ req'[r].pc = "post" /\ req'[r].reply = "corrected"
             /\ req[r].pc = "supersede"
             /\ req'[r].new = req[r].new /\ req'[r].prev = req[r].prev
    <2>1. /\ req[r].new \in DOMAIN entries /\ entries[req[r].new].source = r[1]
          /\ req[r].prev \in DOMAIN entries
          /\ entries[req[r].prev].user = EventOf(r).user
          /\ entries[req[r].prev].issue = EventOf(r).issue
      BY <1>2, <1>5 DEF ReplyInv, PrevInv, HasPrev
    <2> QED
      BY <1>1, <1>5, <2>1 DEF ReplyInv, TrueReply, RowsStay
  <1>6. CASE /\ req'[r].pc = "post" /\ req'[r].reply = "deleted"
             /\ req[r].pc = "softdelete" /\ entries' = SoftDeleted(req[r].prev)
             /\ req'[r].prev = req[r].prev
    <2>1. /\ req[r].prev \in DOMAIN entries
          /\ entries[req[r].prev].user = EventOf(r).user
          /\ entries[req[r].prev].issue = EventOf(r).issue
      BY <1>2, <1>6 DEF PrevInv, HasPrev
    <2>2. entries'[req[r].prev].status = "deleted"
      <3>1. req[r].prev \in Nat
        BY DEF TypeOK, WebhookTypeOK, Goroutine
      <3> QED
        BY <1>6, <2>1, <3>1, EntryUpdates DEF TypeOK
    <2> QED
      BY <1>1, <1>6, <2>1, <2>2 DEF ReplyInv, TrueReply, RowsStay
  <1>7. CASE /\ req'[r].pc = "softdeleteplan"
             /\ req'[r].prev \in ActiveIn(plans, EventOf(r).issue) /\ plans' = plans
    BY <1>7 DEF ReplyInv, ActiveIn
  <1>8. CASE /\ req'[r].pc = "post" /\ req[r].pc = "replace" /\ plans' = Replaced(r)
             /\ req'[r].new = Len(plans) + 1 /\ req'[r].prev = req[r].prev
             /\ req'[r].reply = IF req[r].prev = 0 THEN "planned" ELSE "replanned"
    <2>1. /\ Len(plans) + 1 \in DOMAIN plans'
          /\ plans'[Len(plans) + 1] = NewPlan(r)
          /\ req[r].prev \in DOMAIN plans => plans'[req[r].prev].status = "superseded"
      BY <1>8, PlanUpdates DEF TypeOK
    <2>2. NewPlan(r).source = r[1]
      BY DEF NewPlan
    <2>3. req[r].prev # 0 => /\ req[r].prev \in DOMAIN plans
                             /\ plans[req[r].prev].issue = EventOf(r).issue
      BY <1>2, <1>8 DEF PlanPrevInv
    <2> QED
      BY <1>1, <1>8, <2>1, <2>2, <2>3 DEF ReplyInv, TrueReply, RowsStay
  <1>9. CASE /\ req'[r].pc = "post" /\ req'[r].reply = "removed"
             /\ req[r].pc = "softdeleteplan" /\ plans' = Closed(r)
             /\ req'[r].prev = req[r].prev
    <2>1. req[r].prev \in DOMAIN plans /\ req[r].prev # 0
      BY <1>2, <1>9, PlanColumns DEF ReplyInv
    <2>2. plans[req[r].prev].issue = EventOf(r).issue
      BY <1>2, <1>9, <2>1 DEF PlanPrevInv
    <2>3. plans'[req[r].prev].status = "deleted"
      BY <1>9, <2>1, PlanUpdates DEF TypeOK
    <2> QED
      BY <1>1, <1>9, <2>1, <2>2, <2>3 DEF ReplyInv, TrueReply, RowsStay
  <1> QED
    BY <1>3, <1>4, <1>5, <1>6, <1>7, <1>8, <1>9 DEF ReplyMove

LEMMA OtherRepliesStay ==
  ASSUME Truthful, RowsStay, NEW s \in Request, req'[s] = req[s]
  PROVE  ReplyInv(s)'
  <1>1. ReplyInv(s)
    BY DEF Truthful
  <1>2. req[s].pc = "post" =>
          TrueReply(s[1], req[s].reply, req[s].new, req[s].prev)'
    <2> SUFFICES ASSUME req[s].pc = "post"
                 PROVE  TrueReply(s[1], req[s].reply, req[s].new, req[s].prev)'
      OBVIOUS
    <2>1. PICK h : h = req[s] /\ h = req'[s]
      OBVIOUS
    <2>2. TrueReply(s[1], h.reply, h.new, h.prev)
      BY <1>1, <2>1 DEF ReplyInv
    <2>3. TrueReply(s[1], h.reply, h.new, h.prev)'
      BY <2>2, TruthStays
    <2> QED
      BY <2>1, <2>3 DEF TrueReply
  <1> QED
    BY <1>1, <1>2 DEF ReplyInv, RowsStay, TrueReply

LEMMA TruthKept ==
  ASSUME TypeOK, ChainInv, PlanInv, Truthful, [Next]_vars
  PROVE  Truthful'
  <1>1. RowsStay
    BY AllRowsStay
  <1>2. ASSUME NEW r \in Request, ReplyMove(r), Says(r)
        PROVE  Truthful'
    <2>1. \A s \in Request : ReplyInv(s)'
      BY <1>1, <1>2, NewReplyIsTrue, OtherRepliesStay DEF ReplyMove
    <2>2. ASSUME NEW d \in Delivery, NEW c \in Answers(d)'
          PROVE  TrueReply(d, c.kind, c.new, c.prev)'
      <3>1. TrueReply(d, c.kind, c.new, c.prev)
        <4>1. CASE c \in Answers(d)
          BY <4>1 DEF Truthful, RepliesTellTheTruth, TrueReply
        <4>2. CASE d = r[1] /\ req[r].pc = "post" /\ c = Reply(r)
          BY <4>2 DEF Truthful, ReplyInv, Reply
        <4> QED
          BY <1>2, <2>2, <4>1, <4>2 DEF Says
      <3> QED
        BY <1>1, <3>1, TruthStays
    <2> QED
      BY <2>1, <2>2 DEF Truthful, RepliesTellTheTruth, TrueReply
  <1>3. CASE UNCHANGED vars
    BY <1>3 DEF vars, Truthful, ReplyInv, TrueReply, RepliesTellTheTruth, Answers
  <1> QED
    BY <1>2, <1>3, EveryStepReplies

\* However commands overlap, fail or crash: a confirmation names a row that its
\* comment created and rows within the command's reach, and a row said to be
\* deleted, replaced or removed is not active.  Of the row a reply says to be
\* corrected only its reach is stated: handleCorrect confirms a correction
\* whose Supersede failed, and that row stays active.
THEOREM RepliesAreTrue == Spec => []RepliesTellTheTruth
  <1>1. Init => Truthful
    BY DEF Init, WebhookInit, Fresh, Truthful, ReplyInv, RepliesTellTheTruth,
           Answers
  <1>2. TypeOK /\ ChainInv /\ PlanInv /\ Truthful /\ [Next]_vars => Truthful'
    BY TruthKept
  <1>3. Truthful => RepliesTellTheTruth
    BY DEF Truthful
  <1> QED
    BY <1>1, <1>2, <1>3, TypeCorrect, CorrectionsCorrect, PlansCorrect, PTL DEF Spec

----------------------------------------------------------------------------
\* Corrections when nothing fails

\* A correction that is confirmed, or about to be, has retired its predecessor.
RetiredInv ==
  /\ CorrectedEntryIsRetired
  /\ \A r \in Request : req[r].pc = "post" /\ req[r].reply = "corrected" =>
       entries[req[r].prev].status # "active"

LEMMA CalmSteps ==
  ASSUME [CalmNext]_vars
  PROVE  [Next]_vars
  BY DEF CalmNext, Next

\* A goroutine that comes from Supersede has made the UPDATE.
LEMMA CalmCorrection ==
  ASSUME [CalmNext]_vars, NEW r \in Request, req[r].pc = "supersede",
         req'[r] # req[r], TypeOK
  PROVE  entries' = Superseded(req[r].prev, req[r].new)
  <1>1. ASSUME NEW s \in Request, Arrive(s) \/ Step(s)
        PROVE  s = r
    <2>1. ReplyMove(s)
      BY <1>1, DeliveryReplies, TimeReplies, PlanReplies DEF Arrive, Step
    <2> QED
      BY <2>1 DEF ReplyMove
  <1>2. Arrive(r) \/ Step(r)
    BY <1>1 DEF CalmNext, Finished, vars
  <1>3. SupersedeEntry(r)
    BY <1>2
    DEF Arrive, Step, Receive, RejectSignature, Claim, Dispatch, Post, TimeStep,
        PlanStep, LabelLog, FindEntry, LabelCorrection, CreateEntry,
        SoftDeleteEntry, FindPlan, ReplacePlan, SoftDeletePlan, Commands
  <1> QED
    BY <1>3 DEF SupersedeEntry

LEMMA RetiredKept ==
  ASSUME TypeOK, ChainInv, Truthful, RetiredInv, [CalmNext]_vars
  PROVE  RetiredInv'
  <1>1. RowsStay
    BY CalmSteps, AllRowsStay
  <1>2. \A d \in Delivery : \A c \in Answers(d) :
          c.kind = "corrected" => c.prev \in DOMAIN entries
    BY DEF Truthful, RepliesTellTheTruth
  <1>3. \A r \in Request : req[r].pc = "post" /\ req[r].reply = "corrected" =>
          req[r].prev \in DOMAIN entries
    BY DEF Truthful, ReplyInv, TrueReply
  <1>4. CASE UNCHANGED vars
    BY <1>4 DEF vars, RetiredInv, CorrectedEntryIsRetired, Answers
  <1>5. ASSUME NEW r \in Request, ReplyMove(r), Says(r)
        PROVE  RetiredInv'
    <2>1. ASSUME NEW d \in Delivery, NEW c \in Answers(d)', c.kind = "corrected"
          PROVE  entries'[c.prev].status # "active"
      <3>1. CASE c \in Answers(d)
        BY <1>1, <1>2, <2>1, <3>1 DEF RowsStay, RetiredInv, CorrectedEntryIsRetired
      <3>2. CASE d = r[1] /\ req[r].pc = "post" /\ c = Reply(r)
        BY <1>1, <1>3, <2>1, <3>2 DEF RowsStay, RetiredInv, Reply
      <3> QED
        BY <1>5, <2>1, <3>1, <3>2 DEF Says
    <2>2. ASSUME NEW s \in Request, req'[s].pc = "post", req'[s].reply = "corrected"
          PROVE  entries'[req'[s].prev].status # "active"
      <3>1. CASE req'[s] = req[s]
        BY <1>1, <1>3, <2>2, <3>1 DEF RowsStay, RetiredInv
      <3>2. CASE s = r /\ req'[s] # req[s]
        <4>1. req[r].pc = "supersede" /\ req'[r].prev = req[r].prev
          BY <1>5, <2>2, <3>2 DEF ReplyMove
        <4>2. entries' = Superseded(req[r].prev, req[r].new)
          BY <3>2, <4>1, CalmCorrection
        <4>3. req[r].prev \in DOMAIN entries
          BY <4>1 DEF ChainInv, PrevInv, HasPrev
        <4>4. req[r].prev \in Nat /\ req[r].new \in Nat
          BY DEF TypeOK, WebhookTypeOK, Goroutine
        <4>5. entries'[req[r].prev].status = "superseded"
          BY <4>2, <4>3, <4>4, EntryUpdates DEF TypeOK
        <4> QED
          BY <3>2, <4>1, <4>5
      <3> QED
        BY <1>5, <3>1, <3>2 DEF ReplyMove
    <2> QED
      BY <2>1, <2>2 DEF RetiredInv, CorrectedEntryIsRetired
  <1> QED
    BY <1>4, <1>5, CalmSteps, EveryStepReplies

\* When no call fails, "entry #n supersedes #m" means that #m no longer counts.
THEOREM CorrectionsRetire == CalmSpec => []CorrectedEntryIsRetired
  <1>1. Init => RetiredInv /\ Truthful
    BY DEF Init, WebhookInit, Fresh, RetiredInv, CorrectedEntryIsRetired, Truthful, Answers,
           ReplyInv, RepliesTellTheTruth
  <1>2. [CalmNext]_vars => [Next]_vars
    BY CalmSteps
  <1>3. CalmSpec => Spec
    BY <1>2, PTL DEF CalmSpec, Spec
  <1>4. TypeOK /\ ChainInv /\ PlanInv /\ Truthful /\ [Next]_vars => Truthful'
    BY TruthKept
  <1>5. TypeOK /\ ChainInv /\ Truthful /\ RetiredInv /\ [CalmNext]_vars => RetiredInv'
    BY RetiredKept
  <1>6. RetiredInv => CorrectedEntryIsRetired
    BY DEF RetiredInv
  <1> QED
    BY <1>1, <1>2, <1>3, <1>4, <1>5, <1>6, TypeCorrect, CorrectionsCorrect,
       PlansCorrect, PTL DEF CalmSpec

----------------------------------------------------------------------------
\* The walks over the chains

\* Every nonempty set of numbers has a least element.
LEMMA LeastExists ==
  ASSUME NEW S, S \subseteq Nat, S # {}
  PROVE  \E m \in S : \A n \in S : m <= n
  <1>1. PICK m \in S : \A n \in S : ~ <<n, m>> \in OpToRel(<, Nat)
    BY NatLessThanWellFounded, WFMin
  <1>2. ASSUME NEW n \in S PROVE m <= n
    <2>1. ~ <<n, m>> \in OpToRel(<, Nat)
      BY <1>1
    <2>2. ~ n < m
      BY <2>1 DEF OpToRel
    <2> QED
      BY <2>2
  <1> QED
    BY <1>1, <1>2

\* Induction up to N, over a set.
LEMMA UpTo ==
  ASSUME NEW N \in Nat, NEW S, 0 \in S, \A n \in 1 .. N : n - 1 \in S => n \in S
  PROVE  \A n \in 0 .. N : n \in S
  <1> SUFFICES ASSUME ~ \A n \in 0 .. N : n \in S PROVE FALSE
    OBVIOUS
  <1> DEFINE Out == {n \in 0 .. N : n \notin S}
  <1>1. Out \subseteq Nat /\ Out # {}
    OBVIOUS
  <1>2. PICK m \in Out : \A n \in Out : m <= n
    BY <1>1, LeastExists
  <1>3. m \in 1 .. N /\ m - 1 \in 0 .. N /\ ~ m <= m - 1
    BY <1>2
  <1> QED
    BY <1>2, <1>3

\* f is the function that a recursion up to N from c defines.
Iterates(f, N, D, c, Advance) ==
  /\ f \in [0 .. N -> D]
  /\ f[0] = c
  /\ \A n \in 1 .. N : f[n] = Advance[n][f[n - 1]]

\* There is such a function.
LEMMA RecursionExists ==
  ASSUME NEW N \in Nat, NEW D, NEW c \in D, NEW Advance \in [1 .. N -> [D -> D]]
  PROVE  \E f : Iterates(f, N, D, c, Advance)
  <1> DEFINE S == {m \in 0 .. N : \E f : Iterates(f, m, D, c, Advance)}
  <1>1. 0 \in S
    <2> DEFINE f0 == [n \in 0 .. 0 |-> c]
    <2>1. Iterates(f0, 0, D, c, Advance)
      BY DEF Iterates
    <2> QED
      BY <2>1
  <1>2. ASSUME NEW m \in 1 .. N, m - 1 \in S PROVE m \in S
    <2>1. PICK f : Iterates(f, m - 1, D, c, Advance)
      BY <1>2
    <2> DEFINE g == [n \in 0 .. m |-> IF n = m THEN Advance[m][f[m - 1]] ELSE f[n]]
    <2>2. f[m - 1] \in D /\ Advance[m][f[m - 1]] \in D
      BY <2>1 DEF Iterates
    <2>3. g \in [0 .. m -> D] /\ g[0] = c
      BY <2>1, <2>2 DEF Iterates
    <2>4. ASSUME NEW n \in 1 .. m PROVE g[n] = Advance[n][g[n - 1]]
      <3>1. n - 1 \in 0 .. m - 1 /\ g[n - 1] = f[n - 1]
        OBVIOUS
      <3>2. CASE n = m
        BY <3>1, <3>2
      <3>3. CASE n # m
        <4>1. n \in 1 .. m - 1 /\ g[n] = f[n]
          BY <3>3
        <4> QED
          BY <2>1, <3>1, <4>1 DEF Iterates
      <3> QED
        BY <3>2, <3>3
    <2>5. Iterates(g, m, D, c, Advance)
      BY <2>3, <2>4 DEF Iterates
    <2> QED
      BY <2>5
  <1>3. \A n \in 1 .. N : n - 1 \in S => n \in S
    BY <1>2
  <1> HIDE DEF S
  <1>4. \A n \in 0 .. N : n \in S
    BY <1>1, <1>3, UpTo
  <1>5. N \in S
    BY <1>4
  <1> QED
    BY <1>5 DEF S

\* What ChainInv and PlanInv say of the links of a table: each leads to a later
\* row, and no two to the same row.
Links(link) ==
  /\ link \in Seq(Nat)
  /\ \A k \in DOMAIN link : link[k] # 0 => k < link[k] /\ link[k] \in DOMAIN link
  /\ \A j, k \in DOMAIN link : link[j] # 0 /\ link[j] = link[k] => j = k

\* The first loop of GetCorrectionChain and GetChain, round by round.
LEMMA RootFound ==
  ASSUME NEW link, Links(link), NEW id \in DOMAIN link, NEW N \in Nat, N = Len(link)
  PROVE  \E back \in [0 .. Len(link) -> DOMAIN link] :
           /\ ChainRoot(link, id) = back[Len(link)]
           /\ back[0] = id
           /\ \A n \in 1 .. Len(link) :
                 /\ Predecessors(link, back[n - 1]) = {} => back[n] = back[n - 1]
                 /\ Predecessors(link, back[n - 1]) # {} =>
                      back[n] \in Predecessors(link, back[n - 1])
  <1> DEFINE D == DOMAIN link
             Back(row) == LET p == Predecessors(link, row)
                          IN  IF p = {} THEN row ELSE CHOOSE k \in p : TRUE
             Body(f) == [n \in 0 .. N |-> IF n = 0 THEN id ELSE Back(f[n - 1])]
             back == CHOOSE f : f = Body(f)
             Advance == [n \in 1 .. N |-> [row \in D |-> Back(row)]]
  <1>1. N \in Nat /\ id \in D
    BY DEF Links
  <1>2. ASSUME NEW row \in D
        PROVE  /\ Back(row) \in D
               /\ Predecessors(link, row) = {} => Back(row) = row
               /\ Predecessors(link, row) # {} => Back(row) \in Predecessors(link, row)
    BY DEF Predecessors
  <1>3. ChainRoot(link, id) = back[N]
    BY DEF ChainRoot
  <1> HIDE DEF D, Back
  <1>4. Advance \in [1 .. N -> [D -> D]]
    BY <1>2
  <1>5. \E f : f = Body(f)
    <2>1. PICK f : Iterates(f, N, D, id, Advance)
      <3> HIDE DEF Advance
      <3> QED
        BY <1>1, <1>4, RecursionExists
    <2>2. ASSUME NEW n \in 1 .. N PROVE f[n] = Back(f[n - 1])
      <3>1. f[n - 1] \in D
        BY <1>1, <2>1 DEF Iterates
      <3> QED
        BY <2>1, <3>1 DEF Iterates
    <2> HIDE DEF Advance
    <2>3. f = Body(f)
      BY <1>1, <2>1, <2>2 DEF Iterates
    <2> QED
      BY <2>3
  <1>6. back = Body(back)
    BY <1>5
  <1> HIDE DEF back
  <1>8. back[0] = id
    BY <1>1, <1>6
  <1>9. ASSUME NEW n \in 1 .. N PROVE back[n] = Back(back[n - 1])
    BY <1>1, <1>6
  <1>10. \A n \in 0 .. N : back[n] \in D
    <2> DEFINE S == {n \in 0 .. N : back[n] \in D}
    <2>1. 0 \in S
      BY <1>1, <1>8
    <2>2. ASSUME NEW n \in 1 .. N, n - 1 \in S PROVE n \in S
      <3>1. back[n] \in D
        BY <1>9, <1>2, <2>2
      <3> QED
        BY <3>1
    <2> HIDE DEF S
    <2>3. \A n \in 0 .. N : n \in S
      BY <1>1, <2>1, <2>2, UpTo
    <2> QED
      BY <2>3 DEF S
  <1>11. back \in [0 .. N -> D]
    BY <1>6, <1>10
  <1> QED
    <2> SUFFICES ASSUME NEW n \in 1 .. N
                 PROVE  /\ Predecessors(link, back[n - 1]) = {} => back[n] = back[n - 1]
                        /\ Predecessors(link, back[n - 1]) # {} =>
                             back[n] \in Predecessors(link, back[n - 1])
      BY <1>3, <1>8, <1>11 DEF D
    <2>1. n - 1 \in 0 .. N
      BY <1>1
    <2> QED
      BY <1>2, <1>9, <1>10, <2>1

\* What the second loop builds: rows, each the successor of the one before.
Trail(link, root) ==
  {chain \in Seq(DOMAIN link) :
     /\ Len(chain) > 0 /\ chain[1] = root
     /\ \A i \in 1 .. Len(chain) - 1 :
          link[chain[i]] # 0 /\ chain[i + 1] = link[chain[i]]}

Onward(link, chain) == LET next == link[Last(chain)]
                       IN  IF next = 0 THEN chain ELSE Append(chain, next)

\* A round of the second loop.
LEMMA TrailGoesOn ==
  ASSUME NEW link, Links(link), NEW root \in DOMAIN link, NEW chain \in Trail(link, root)
  PROVE  /\ Onward(link, chain) \in Trail(link, root)
         /\ Last(chain) \in DOMAIN link
         /\ link[Last(chain)] = 0 => Onward(link, chain) = chain
         /\ link[Last(chain)] # 0 => Last(Onward(link, chain)) = link[Last(chain)]
  <1> DEFINE D == DOMAIN link
             m == Len(chain)
             next == link[chain[m]]
             more == Append(chain, next)
  <1>1. /\ chain \in Seq(D) /\ m \in Nat /\ m > 0 /\ chain[1] = root
        /\ \A i \in 1 .. m - 1 : link[chain[i]] # 0 /\ chain[i + 1] = link[chain[i]]
    BY DEF Trail
  <1>2. chain[m] \in D /\ Last(chain) = chain[m]
    BY <1>1 DEF Last
  <1>3. CASE next = 0
    BY <1>2, <1>3 DEF Onward
  <1>4. CASE next # 0
    <2>1. next \in D
      BY <1>2, <1>4 DEF Links
    <2> HIDE DEF next
    <2>2. /\ more \in Seq(D) /\ Len(more) = m + 1 /\ more[m + 1] = next
          /\ \A i \in 1 .. m : more[i] = chain[i]
      BY <1>1, <2>1, AppendProperties
    <2> HIDE DEF more
    <2>3. Last(more) = next
      BY <2>2 DEF Last
    <2>4. ASSUME NEW i \in 1 .. Len(more) - 1
          PROVE  link[more[i]] # 0 /\ more[i + 1] = link[more[i]]
      <3>1. CASE i = m
        BY <1>1, <1>4, <2>2, <3>1 DEF next
      <3>2. CASE i # m
        <4>1. i \in 1 .. m - 1 /\ i + 1 \in 1 .. m
          BY <1>1, <2>2, <3>2
        <4> QED
          BY <1>1, <2>2, <4>1
      <3> QED
        BY <3>1, <3>2
    <2>5. more \in Trail(link, root)
      BY <1>1, <2>2, <2>4 DEF Trail
    <2>6. Onward(link, chain) = more
      BY <1>2, <1>4 DEF Onward, more, next
    <2> QED
      BY <1>2, <1>4, <2>3, <2>5, <2>6 DEF next
  <1> QED
    BY <1>3, <1>4

\* It ends at a row without a successor.
LEMMA TrailFound ==
  ASSUME NEW link, Links(link), NEW id \in DOMAIN link, NEW N \in Nat, N = Len(link),
         ChainRoot(link, id) \in DOMAIN link
  PROVE  /\ Chain(link, id) \in Trail(link, ChainRoot(link, id))
         /\ link[Last(Chain(link, id))] = 0
  <1> DEFINE root == ChainRoot(link, id)
             D == Trail(link, root)
             Body(f) == [n \in 0 .. N |-> IF n = 0 THEN <<root>> ELSE Onward(link, f[n - 1])]
             walk == CHOOSE f : f = Body(f)
             Advance == [n \in 1 .. N |-> [chain \in D |-> Onward(link, chain)]]
  <1>1. <<root>> \in D
    BY DEF Trail
  <1>2. Chain(link, id) = walk[N]
    BY DEF Chain, Onward
  <1> HIDE DEF D
  <1>3. ASSUME NEW chain \in D PROVE Onward(link, chain) \in D
    BY TrailGoesOn DEF D
  <1>4. Advance \in [1 .. N -> [D -> D]]
    BY <1>3
  <1>5. \E f : f = Body(f)
    <2>1. PICK f : Iterates(f, N, D, <<root>>, Advance)
      <3> HIDE DEF Advance
      <3> QED
        BY <1>1, <1>4, RecursionExists
    <2>2. ASSUME NEW n \in 1 .. N PROVE f[n] = Onward(link, f[n - 1])
      <3>1. f[n - 1] \in D
        BY <2>1 DEF Iterates
      <3> QED
        BY <2>1, <3>1 DEF Iterates
    <2> HIDE DEF Advance
    <2>3. f = [n \in 0 .. N |-> f[n]] /\ f[0] = <<root>>
      BY <2>1 DEF Iterates
    <2>4. ASSUME NEW n \in 0 .. N
          PROVE  f[n] = IF n = 0 THEN <<root>> ELSE Onward(link, f[n - 1])
      <3>1. CASE n = 0
        BY <2>3, <3>1
      <3>2. CASE n # 0
        <4>1. n \in 1 .. N
          BY <3>2
        <4> QED
          BY <2>2, <3>2, <4>1
      <3> QED
        BY <3>1, <3>2
    <2>5. f = Body(f)
      BY <2>3, <2>4
    <2> QED
      BY <2>5
  <1>6. walk = Body(walk)
    BY <1>5
  <1> HIDE DEF walk
  <1>7. walk[0] = <<root>>
    BY <1>6
  <1>8. ASSUME NEW n \in 1 .. N PROVE walk[n] = Onward(link, walk[n - 1])
    BY <1>6
  <1> DEFINE Far(n) == walk[n] \in D /\ (link[Last(walk[n])] = 0 \/ Last(walk[n]) > n)
             S == {n \in 0 .. N : Far(n)}
  <1>9. 0 \in S
    <2>1. Last(walk[0]) = root
      BY <1>7 DEF Last
    <2>2. root > 0
      BY DEF Links
    <2> QED
      BY <1>1, <1>7, <2>1, <2>2
  <1>10. \A n \in 1 .. N : n - 1 \in S => n \in S
    <2> SUFFICES ASSUME NEW n \in 1 .. N, n - 1 \in S PROVE Far(n)
      OBVIOUS
    <2> DEFINE last == Last(walk[n - 1])
    <2>1. walk[n - 1] \in Trail(link, root) /\ (link[last] = 0 \/ last > n - 1)
      BY DEF D
    <2>2. /\ Onward(link, walk[n - 1]) \in Trail(link, root)
          /\ last \in DOMAIN link
          /\ link[last] = 0 => Onward(link, walk[n - 1]) = walk[n - 1]
          /\ link[last] # 0 => Last(Onward(link, walk[n - 1])) = link[last]
      BY <2>1, TrailGoesOn
    <2>3. link[last] # 0 => link[last] > n
      BY <2>1, <2>2 DEF Links
    <2> QED
      BY <1>8, <2>1, <2>2, <2>3 DEF D
  <1> HIDE DEF S
  <1>11. \A n \in 0 .. N : n \in S
    BY <1>9, <1>10, UpTo
  <1>12. Far(N)
    BY <1>11 DEF S
  <1>13. ~ Last(walk[N]) > N
    <2>1. Last(walk[N]) \in DOMAIN link
      BY <1>12, TrailGoesOn DEF D
    <2> QED
      BY <2>1 DEF Links
  <1> QED
    BY <1>2, <1>12, <1>13 DEF D

\* The first loop ends at a root, from which the second comes back past the
\* row that was asked about.
LEMMA WalksEnd ==
  ASSUME NEW link, Links(link), NEW id \in DOMAIN link
  PROVE  WalksWell(link, id)
  <1> DEFINE D == DOMAIN link
             chain == Chain(link, id)
             root == ChainRoot(link, id)
  <1>1. PICK N \in Nat : N = Len(link)
    BY DEF Links
  <1>2. D = 1 .. N
    BY <1>1 DEF Links
  <1>3. PICK back \in [0 .. N -> D] :
           /\ root = back[N]
           /\ back[0] = id
           /\ \A n \in 1 .. N :
                 /\ Predecessors(link, back[n - 1]) = {} => back[n] = back[n - 1]
                 /\ Predecessors(link, back[n - 1]) # {} =>
                      back[n] \in Predecessors(link, back[n - 1])
    BY <1>1, RootFound
  <1> DEFINE Rootward(n) == Predecessors(link, back[n]) = {} \/ back[n] <= N - n
             S == {n \in 0 .. N : Rootward(n)}
  <1>4. 0 \in S
    BY <1>2, <1>3
  <1>5. \A n \in 1 .. N : n - 1 \in S => n \in S
    <2>1. ASSUME NEW n \in 1 .. N, n - 1 \in S PROVE n \in S
      <3>1. PICK p \in 1 .. N : p = back[n - 1]
        BY <1>2, <1>3
      <3>2. PICK q \in 1 .. N : q = back[n]
        BY <1>2, <1>3
      <3>3. Predecessors(link, p) = {} \/ p <= N - (n - 1)
        BY <2>1, <3>1
      <3>4. /\ Predecessors(link, p) = {} => q = p
            /\ Predecessors(link, p) # {} => q \in Predecessors(link, p)
        BY <1>3, <3>1, <3>2
      <3>5. q \in Predecessors(link, p) => q < p
        BY <1>2, <3>1, <3>2 DEF Predecessors, Links
      <3>6. Predecessors(link, q) = {} \/ q <= N - n
        BY <3>3, <3>4, <3>5
      <3> QED
        BY <3>2, <3>6
    <2> HIDE DEF S
    <2> QED
      BY <2>1
  <1> HIDE DEF S
  <1>6. \A n \in 0 .. N : n \in S
    BY <1>4, <1>5, UpTo
  <1>7. root \in D /\ Predecessors(link, root) = {}
    <2>1. Rootward(N)
      BY <1>6 DEF S
    <2> QED
      BY <1>2, <1>3, <2>1
  <1>8. chain \in Trail(link, root) /\ link[Last(chain)] = 0
    BY <1>1, <1>7, TrailFound
  <1> HIDE DEF chain
  <1>9. /\ chain \in Seq(D) /\ Len(chain) \in Nat /\ Len(chain) > 0 /\ chain[1] = root
        /\ \A i \in 1 .. Len(chain) - 1 :
              link[chain[i]] # 0 /\ chain[i + 1] = link[chain[i]]
    BY <1>8 DEF Trail
  <1>10. ASSUME NEW j \in Range(chain), link[j] # 0 PROVE link[j] \in Range(chain)
    <2>1. PICK i \in 1 .. Len(chain) : chain[i] = j
      BY <1>9 DEF Range
    <2>2. i # Len(chain)
      BY <1>8, <1>10, <2>1 DEF Last
    <2>3. i + 1 \in 1 .. Len(chain) /\ chain[i + 1] = link[j]
      BY <1>9, <2>1, <2>2
    <2> QED
      BY <1>9, <2>3 DEF Range
  <1> DEFINE T == {n \in 0 .. N : back[N - n] \in Range(chain)}
  <1>11. 0 \in T
    <2>1. 1 \in 1 .. Len(chain) /\ chain[1] = back[N]
      BY <1>3, <1>9
    <2>2. back[N] \in Range(chain)
      BY <1>9, <2>1 DEF Range
    <2> QED
      BY <2>2
  <1>12. \A n \in 1 .. N : n - 1 \in T => n \in T
    <2> SUFFICES ASSUME NEW n \in 1 .. N, n - 1 \in T PROVE back[N - n] \in Range(chain)
      OBVIOUS
    <2>1. PICK m \in 1 .. N : m = N - n + 1
      OBVIOUS
    <2>2. back[m] \in Range(chain) /\ N - n = m - 1 /\ back[m - 1] \in D
      BY <1>3, <2>1
    <2>3. CASE Predecessors(link, back[m - 1]) = {}
      BY <1>3, <2>2, <2>3
    <2>4. CASE Predecessors(link, back[m - 1]) # {}
      <3>1. link[back[m]] = back[m - 1]
        BY <1>3, <2>4 DEF Predecessors
      <3>2. link[back[m]] # 0
        BY <1>2, <2>2, <3>1
      <3> QED
        BY <1>10, <2>2, <3>1, <3>2
    <2> QED
      BY <2>3, <2>4
  <1> HIDE DEF T
  <1>13. \A n \in 0 .. N : n \in T
    BY <1>11, <1>12, UpTo
  <1>14. id \in Range(chain)
    <2>1. back[N - N] \in Range(chain)
      BY <1>13 DEF T
    <2> QED
      BY <1>3, <2>1
  <1>15. ASSUME NEW i \in 1 .. Len(chain) - 1 PROVE chain[i] < chain[i + 1]
    <2>1. chain[i] \in D
      BY <1>9
    <2> QED
      BY <1>9, <2>1 DEF Links
  <1> QED
    BY <1>7, <1>8, <1>9, <1>14, <1>15 DEF WalksWell, chain

\* The links of the rows of a table.
LEMMA TableLinks ==
  ASSUME NEW t, NEW S, t \in Seq(S),
         \A k \in DOMAIN t : t[k].supersededBy \in Nat,
         \A k \in DOMAIN t : t[k].supersededBy # 0 =>
            k < t[k].supersededBy /\ t[k].supersededBy \in DOMAIN t,
         \A j, k \in DOMAIN t :
            t[j].supersededBy = t[k].supersededBy /\ t[j].supersededBy # 0 => j = k
  PROVE  LET link == [k \in DOMAIN t |-> t[k].supersededBy]
         IN  Links(link) /\ DOMAIN link = DOMAIN t
  <1> DEFINE link == [k \in DOMAIN t |-> t[k].supersededBy]
  <1>1. DOMAIN t = 1 .. Len(t) /\ Len(t) \in Nat
    OBVIOUS
  <1>2. link \in [1 .. Len(t) -> Nat]
    BY <1>1
  <1>3. link \in Seq(Nat) /\ DOMAIN link = DOMAIN t
    BY <1>1, <1>2
  <1>4. \A k \in DOMAIN t : link[k] = t[k].supersededBy
    OBVIOUS
  <1> HIDE DEF link
  <1>5. Links(link)
    BY <1>3, <1>4 DEF Links
  <1> QED
    BY <1>3, <1>5 DEF link

\* Asked about any row at any moment, GetCorrectionChain and GetChain end and
\* list the row in its chain, in order of creation, although Supersede and
\* ReplacePlan overwrite superseded_by whatever it was.
THEOREM WalksAlwaysEnd == Spec => []ChainsCanBeWalked
  <1>1. TypeOK /\ ChainInv /\ PlanInv => ChainsCanBeWalked
    <2> SUFFICES ASSUME TypeOK, ChainInv, PlanInv PROVE ChainsCanBeWalked
      OBVIOUS
    <2>1. Links(EntryLinks) /\ DOMAIN EntryLinks = DOMAIN entries
      <3>1. entries \in Seq(Entry)
        BY DEF TypeOK, TimeTypeOK
      <3>2. \A k \in DOMAIN entries : entries[k] \in Entry
        BY <3>1
      <3>3. \A k \in DOMAIN entries : entries[k].supersededBy \in Nat
        BY <3>2 DEF Entry
      <3> QED
        BY <3>1, <3>3, TableLinks
        DEF ChainInv, ChainKeepsOwnerAndClient, ChainsNeverMerge, EntryLinks
    <2>2. Links(PlanLinks) /\ DOMAIN PlanLinks = DOMAIN plans
      <3>1. plans \in Seq(Plan)
        BY DEF TypeOK, PlanTypeOK
      <3>2. \A k \in DOMAIN plans : plans[k] \in Plan
        BY <3>1
      <3>3. \A k \in DOMAIN plans : plans[k].supersededBy \in Nat
        BY <3>2 DEF Plan
      <3> QED
        BY <3>1, <3>3, TableLinks DEF PlanInv, PlanChains, PlanLinks
    <2> QED
      BY <2>1, <2>2, WalksEnd DEF ChainsCanBeWalked
  <1> QED
    BY <1>1, TypeCorrect, CorrectionsCorrect, PlansCorrect, PTL

=============================================================================
