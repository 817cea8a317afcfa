------------------------------ MODULE Webhook ------------------------------
(***************************************************************************)
(* The whole webhook endpoint: WebhookDelivery, TimeCommands and           *)
(* PlanCommands composed, with its specification under three environments  *)
(* and the properties that make it correct.                                *)
(***************************************************************************)
EXTENDS TimeCommands, PlanCommands

vars == <<event, req, deliveries, comments, entries, plans>>

Init == WebhookInit /\ TimeInit /\ PlanInit

TypeOK == WebhookTypeOK /\ TimeTypeOK /\ PlanTypeOK

Arrive(r) == (Receive(r) \/ RejectSignature(r)) /\ UNCHANGED <<entries, plans>>

\* A step of r's goroutine in which everything it calls succeeds.
Step(r) ==
  \/ (Claim(r) \/ Dispatch(r) \/ Post(r)) /\ UNCHANGED <<entries, plans>>
  \/ TimeStep(r) /\ UNCHANGED plans
  \/ PlanStep(r) /\ UNCHANGED entries

\* A step in which a call fails, or the process does.
Fault(r) ==
  \/ (ClaimFails(r) \/ PostFails(r)) /\ UNCHANGED <<entries, plans>>
  \/ TimeFault(r) /\ UNCHANGED plans
  \/ PlanFault(r) /\ UNCHANGED entries

Die(r) == Crash(r) /\ UNCHANGED <<entries, plans>>

\* GitHub has sent everything and no goroutine is left.
Quiet == \A r \in Request : ~InFlight(r)
Finished == (\A r \in Request : req[r].pc \in Over) /\ UNCHANGED vars

Next == Finished \/ \E r \in Request : Arrive(r) \/ Step(r) \/ Fault(r) \/ Die(r)
Spec == Init /\ [][Next]_vars

\* Requests overlap at will, but nothing fails.  Go schedules every goroutine
\* and every call returns, so a goroutine that can take a step takes one.
CalmNext == Finished \/ \E r \in Request : Arrive(r) \/ Step(r)
CalmSpec == Init /\ [][CalmNext]_vars /\ \A r \in Request : WF_vars(Step(r))

\* Requests overlap and replicas crash, but no call fails otherwise.
CrashNext == Finished \/ \E r \in Request : Arrive(r) \/ Step(r) \/ Die(r)
CrashSpec == Init /\ [][CrashNext]_vars

\* Nothing fails, and GitHub sends a request only when none is in flight.
SerialNext == Finished \/ \E r \in Request : (Quiet /\ Arrive(r)) \/ Step(r)
SerialSpec == Init /\ [][SerialNext]_vars

----------------------------------------------------------------------------
\* Idempotency

\* A delivery creates at most one time entry and at most one plan, however
\* often it is sent, however its requests overlap, fail or crash: only one of
\* them gets past the claim (handler.go:76, delivery.go).  Deliveries without
\* the header are exempt.
OneRowPerDelivery ==
  /\ \A j, k \in DOMAIN entries :
       /\ entries[j].source = entries[k].source
       /\ entries[j].source \notin NoHeader
       => j = k
  /\ \A j, k \in DOMAIN plans :
       /\ plans[j].source = plans[k].source
       /\ plans[j].source \notin NoHeader
       => j = k

\* The bot answers a delivery at most once: a retry neither repeats the first
\* answer in the issue's thread nor contradicts it.
OneReplyPerDelivery ==
  \A d \in Delivery \ NoHeader : Len(comments[d]) <= 1

\* Nothing is written on behalf of a delivery that is not recorded as claimed,
\* so a redelivery of it is always recognised.
EffectsAreClaimed ==
  LET known == deliveries \cup NoHeader
  IN  /\ \A k \in DOMAIN entries : entries[k].source \in known
      /\ \A k \in DOMAIN plans : plans[k].source \in known
      /\ \A k \in DOMAIN plans : plans[k].closing \subseteq known
      /\ \A d \in Delivery : comments[d] # <<>> => d \in known

----------------------------------------------------------------------------
\* Correction chains

\* superseded_by leads from an entry to a later entry of the same user on the
\* same issue, attributed to the same client (handleCorrect copies the client
\* of the entry it found, whatever the labels are by then).  The foreign key
\* therefore never forms a cycle, although Supersede may overwrite it.
ChainKeepsOwnerAndClient ==
  \A k \in DOMAIN entries :
    LET n == entries[k].supersededBy
    IN  n # 0 => /\ n \in DOMAIN entries
                 /\ k < n
                 /\ entries[n].user = entries[k].user
                 /\ entries[n].issue = entries[k].issue
                 /\ entries[n].client = entries[k].client

\* No two entries are superseded by the same one, so "WHERE superseded_by = $1"
\* in GetCorrectionChain finds at most one row: concurrent corrections of one
\* entry may lose a link, but never merge two chains.
ChainsNeverMerge ==
  \A j, k \in DOMAIN entries :
    /\ entries[j].supersededBy = entries[k].supersededBy
    /\ entries[j].supersededBy # 0
    => j = k

\* The same two facts for plans, which chain per issue and not per user.
PlanChains ==
  /\ \A k \in DOMAIN plans :
       LET n == plans[k].supersededBy
       IN  n # 0 => /\ n \in DOMAIN plans
                    /\ k < n
                    /\ plans[n].issue = plans[k].issue
  /\ \A j, k \in DOMAIN plans :
       /\ plans[j].supersededBy = plans[k].supersededBy
       /\ plans[j].supersededBy # 0
       => j = k

\* What reports count: an active entry has no successor, and a superseded one
\* has a successor that accounts for it.  (A deleted entry may have either,
\* when /delete raced with /correct.)
StatusMatchesLink ==
  \A k \in DOMAIN entries :
    /\ entries[k].status = "active" => entries[k].supersededBy = 0
    /\ entries[k].status = "superseded" => entries[k].supersededBy # 0

\* For plans, moreover, a deleted plan names the /unplan that closed it and an
\* active one names none.
PlanStatusMatchesLink ==
  \A k \in DOMAIN plans :
    /\ plans[k].status = "active" => plans[k].supersededBy = 0 /\ plans[k].closing = {}
    /\ plans[k].status = "superseded" => plans[k].supersededBy # 0
    /\ plans[k].status = "deleted" => plans[k].closing # {}

\* An issue has at most one active plan, whatever stale plan a concurrent
\* /plan tries to replace (uniq_active_plan, migration 000007).
OneActivePlan ==
  \A i \in Issue : \A j, k \in ActiveIn(plans, i) : j = k

----------------------------------------------------------------------------
\* What the bot says

\* A confirmation names a row that exists, created by that very comment; the
\* rows named as corrected, deleted, replaced or removed are rows the command
\* could reach (its author's and issue's, or its issue's for plans); and a row
\* said to be deleted, replaced or removed is no longer active.  Of a row said
\* to be corrected that is not promised: see CorrectedEntryIsRetired.
RepliesTellTheTruth ==
  \A d \in Delivery : \A c \in Answers(d) :
    LET e == event[d] IN
    /\ c.kind \in {"logged", "corrected"} =>
         c.new \in DOMAIN entries /\ entries[c.new].source = d
    /\ c.kind \in {"corrected", "deleted"} =>
         /\ c.prev \in DOMAIN entries
         /\ entries[c.prev].user = e.user /\ entries[c.prev].issue = e.issue
    /\ c.kind = "deleted" => entries[c.prev].status # "active"
    /\ c.kind \in {"planned", "replanned"} =>
         c.new \in DOMAIN plans /\ plans[c.new].source = d
    /\ c.kind \in {"replanned", "removed"} =>
         /\ c.prev \in DOMAIN plans
         /\ plans[c.prev].issue = e.issue
         /\ plans[c.prev].status # "active"

\* "entry #n supersedes #m" is only said when m no longer counts.  This needs
\* Supersede to succeed: handleCorrect confirms the correction either way.
CorrectedEntryIsRetired ==
  \A d \in Delivery : \A c \in Answers(d) :
    c.kind = "corrected" => entries[c.prev].status # "active"

----------------------------------------------------------------------------
\* History

\* No step removes an entry, brings one back to "active", or changes any of
\* its columns but status and superseded_by.
HistoryIsKept ==
  [][\A k \in DOMAIN entries :
       /\ k \in DOMAIN entries'
       /\ entries'[k] = [entries[k] EXCEPT
                           !.status = entries'[k].status,
                           !.supersededBy = entries'[k].supersededBy]
       /\ entries'[k].status = "active" => entries[k].status = "active"]_vars

\* An entry changes only through a command of its own author on its own
\* issue: a user cannot correct or delete another user's entries, although
\* the UPDATEs select the row by an id that was looked up in an earlier step.
OnlyOwnEntries ==
  [][\A k \in DOMAIN entries :
       entries'[k] # entries[k] =>
         \E r \in Request :
           /\ req'[r] # req[r]
           /\ EventOf(r).cmd \in {"correct", "delete"}
           /\ EventOf(r).user = entries[k].user
           /\ EventOf(r).issue = entries[k].issue]_vars

\* When no call fails, every command that is received is answered in the
\* thread, retries and duplicates notwithstanding.
EveryCommandAnswered ==
  \A r \in Request :
    (req[r].pc = "claim" /\ ~Ignored(EventOf(r)))
      ~> comments[r[1]] # <<>>

=============================================================================
