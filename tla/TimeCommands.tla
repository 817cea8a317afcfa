---------------------------- MODULE TimeCommands ----------------------------
(***************************************************************************)
(* /log, /correct and /delete (handleLog, handleCorrect and handleDelete   *)
(* of internal/webhook/handler.go) over the time_entries table             *)
(* (internal/timeentry/store.go).  Every round trip to the database or to  *)
(* GitHub is an action, so that the commands of concurrent requests        *)
(* interleave between them.  A ...Fails action is the round trip that      *)
(* returns an error, whether or not the statement took effect.             *)
(***************************************************************************)
EXTENDS WebhookDelivery

VARIABLE entries   \* time_entries, in order of id

Status == {"active", "superseded", "deleted"}

\* createdAt ranks created_at: the number of entries that were committed when
\* the INSERT's transaction began.  supersededBy is 0 for NULL.
Entry == [source : Delivery, user : User, issue : Issue,
          client : Client \cup {NoClient}, createdAt : Nat,
          status : Status, supersededBy : Nat]

TimeTypeOK == entries \in Seq(Entry)
TimeInit == entries = <<>>

\* Mutant of ActiveEntries: the query forgets the author.
ActiveOfAnyone(u, i) ==
  {k \in DOMAIN entries : entries[k].issue = i /\ entries[k].status = "active"}

ActiveEntries(u, i) ==
  {k \in DOMAIN entries : /\ entries[k].user = u
                          /\ entries[k].issue = i
                          /\ entries[k].status = "active"}

\* Mutant of LatestActive: ORDER BY created_at ASC.
OldestActive(u, i) ==
  {k \in ActiveEntries(u, i) :
     \A l \in ActiveEntries(u, i) : entries[k].createdAt <= entries[l].createdAt}

\* FindLatestActive: ORDER BY created_at DESC LIMIT 1.  Rows of overlapping
\* transactions have the same rank and any of them may come first.
LatestActive(u, i) ==
  {k \in ActiveEntries(u, i) :
     \A l \in ActiveEntries(u, i) : entries[l].createdAt <= entries[k].createdAt}

NewEntry(r) ==
  [source |-> r[1], user |-> EventOf(r).user, issue |-> EventOf(r).issue,
   client |-> req[r].client, createdAt |-> req[r].since,
   status |-> "active", supersededBy |-> 0]

\* Mutants of Superseded: all of the author's active rows are updated; the ids
\* are swapped; one of the two columns is left out; the new entry is activated.
SupersededAll(old, new) ==
  [k \in DOMAIN entries |->
     IF k \in ActiveEntries(entries[old].user, entries[old].issue) \ {new}
       THEN [entries[k] EXCEPT !.status = "superseded", !.supersededBy = new]
       ELSE entries[k]]
SupersededSwapped(old, new) ==
  [entries EXCEPT ![new] = [@ EXCEPT !.status = "superseded", !.supersededBy = old]]
SupersededUnlinked(old, new) ==
  [entries EXCEPT ![old] = [@ EXCEPT !.status = "superseded"]]
SupersededLinkOnly(old, new) ==
  [entries EXCEPT ![old] = [@ EXCEPT !.supersededBy = new]]
SupersededReviving(old, new) ==
  [entries EXCEPT ![old] = [@ EXCEPT !.status = "superseded", !.supersededBy = new],
                  ![new] = [@ EXCEPT !.status = "active"]]

\* Supersede: UPDATE ... SET status, superseded_by WHERE id = old.
Superseded(old, new) ==
  [entries EXCEPT ![old] = [@ EXCEPT !.status = "superseded", !.supersededBy = new]]

\* SoftDelete: UPDATE ... SET status WHERE id = old.
SoftDeleted(old) ==
  [entries EXCEPT ![old] = [@ EXCEPT !.status = "deleted"]]

----------------------------------------------------------------------------
\* handleLog: the labels are fetched (none on an error) and resolved to a
\* client (none on an error); then the INSERT begins.
LabelLog(r) ==
  /\ req[r].pc = "log"
  /\ \E c \in Client \cup {NoClient} :
       req' = [req EXCEPT ![r] = [@ EXCEPT !.pc = "insert", !.client = c,
                                           !.since = Len(entries)]]
  /\ UNCHANGED <<event, deliveries, comments, entries>>

\* handleCorrect and handleDelete: FindLatestActive.  A correction will
\* carry the client of the entry found.
FindEntry(r) ==
  /\ req[r].pc \in {"correct", "delete"}
  /\ LET found == LatestActive(EventOf(r).user, EventOf(r).issue)
     IN  IF found = {}
           THEN ReplyError(r)
           ELSE \E k \in found :
                  req' = [req EXCEPT ![r] =
                    [@ EXCEPT !.prev = k,
                              !.client = entries[k].client,
                              !.pc = IF req[r].pc = "correct"
                                       THEN "relabel" ELSE "softdelete"]]
  /\ UNCHANGED <<event, deliveries, comments, entries>>

FindEntryFails(r) ==
  /\ req[r].pc \in {"correct", "delete"}
  /\ ReplyError(r)
  /\ UNCHANGED <<event, deliveries, comments, entries>>

\* Mutant of LabelCorrection: the client is resolved from the labels anew.
RelabelCorrection(r) ==
  /\ req[r].pc = "relabel"
  /\ \E c \in Client \cup {NoClient} :
       req' = [req EXCEPT ![r] = [@ EXCEPT !.pc = "insert", !.client = c,
                                           !.since = Len(entries)]]
  /\ UNCHANGED <<event, deliveries, comments, entries>>

\* handleCorrect: the labels are fetched anew, and the INSERT begins.
LabelCorrection(r) ==
  /\ req[r].pc = "relabel"
  /\ req' = [req EXCEPT ![r] = [@ EXCEPT !.pc = "insert", !.since = Len(entries)]]
  /\ UNCHANGED <<event, deliveries, comments, entries>>

\* Mutant of CreateEntry: the id is read before the INSERT instead of with it.
CreateEntryLastId(r) ==
  /\ req[r].pc = "insert"
  /\ entries' = Append(entries, NewEntry(r))
  /\ req' = [req EXCEPT ![r] =
       IF EventOf(r).cmd = "correct"
         THEN [@ EXCEPT !.pc = "supersede", !.new = Len(entries)]
         ELSE [@ EXCEPT !.pc = "post", !.new = Len(entries),
                        !.reply = "logged"]]
  /\ UNCHANGED <<event, deliveries, comments>>

\* Create commits.  A /log replies, a /correct goes on to Supersede.
CreateEntry(r) ==
  /\ req[r].pc = "insert"
  /\ entries' = Append(entries, NewEntry(r))
  /\ req' = [req EXCEPT ![r] =
       IF EventOf(r).cmd = "correct"
         THEN [@ EXCEPT !.pc = "supersede", !.new = Len(entries) + 1]
         ELSE [@ EXCEPT !.pc = "post", !.new = Len(entries) + 1,
                        !.reply = "logged"]]
  /\ UNCHANGED <<event, deliveries, comments>>

CreateEntryFails(r) ==
  /\ req[r].pc = "insert"
  /\ entries' \in {entries, Append(entries, NewEntry(r))}
  /\ ReplyError(r)
  /\ UNCHANGED <<event, deliveries, comments>>

SupersedeEntry(r) ==
  /\ req[r].pc = "supersede"
  /\ entries' = Superseded(req[r].prev, req[r].new)
  /\ ReplyWith(r, "corrected")
  /\ UNCHANGED <<event, deliveries, comments>>

\* An error of Supersede is logged, and the correction confirmed regardless.
SupersedeEntryFails(r) ==
  /\ req[r].pc = "supersede"
  /\ entries' \in {entries, Superseded(req[r].prev, req[r].new)}
  /\ ReplyWith(r, "corrected")
  /\ UNCHANGED <<event, deliveries, comments>>

SoftDeleteEntry(r) ==
  /\ req[r].pc = "softdelete"
  /\ entries' = SoftDeleted(req[r].prev)
  /\ ReplyWith(r, "deleted")
  /\ UNCHANGED <<event, deliveries, comments>>

SoftDeleteEntryFails(r) ==
  /\ req[r].pc = "softdelete"
  /\ entries' \in {entries, SoftDeleted(req[r].prev)}
  /\ ReplyError(r)
  /\ UNCHANGED <<event, deliveries, comments>>

TimeStep(r) == \/ LabelLog(r)        \/ FindEntry(r)      \/ LabelCorrection(r)
               \/ CreateEntry(r)     \/ SupersedeEntry(r) \/ SoftDeleteEntry(r)

TimeFault(r) == \/ FindEntryFails(r)      \/ CreateEntryFails(r)
                \/ SupersedeEntryFails(r) \/ SoftDeleteEntryFails(r)

=============================================================================
