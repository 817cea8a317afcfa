---------------------------- MODULE Attribution ----------------------------
(***************************************************************************)
(* Which client a /log is billed to.  Admins keep clients and label        *)
(* mappings (internal/api/api.go, internal/admin/clients.go, mappings.go); *)
(* handleLog asks ResolveClient (internal/client/resolver.go) and then     *)
(* inserts the entry; ExportCSV names the clients of the entries it lists. *)
(* Each statement is a step, so that admins act between the two of a /log  *)
(* and between the two of an export.  The INSERT of a mapping is two: its  *)
(* created_at is that of its beginning, and others see it when it commits. *)
(*                                                                         *)
(* The names of clients are data no property here tells apart, so that of  *)
(* UpdateClient's statements only the one that sets active is left.        *)
(***************************************************************************)
EXTENDS Naturals, Sequences

CONSTANTS
  Label, Repo,
  Anywhere,      \* the SQL NULL of label_mappings.repository
  Caller,        \* goroutines that serve a /log or an export
  MaxClients,    \* bound: rows of clients
  MaxMappings    \* bound: rows of label_mappings at one time

ASSUME AnywhereAssumption == Anywhere \notin Repo
ASSUME BoundsAssumption == MaxClients \in Nat /\ MaxMappings \in Nat

VARIABLES
  clients,    \* how many rows clients has: they are never deleted
  inactive,   \* the ids of those that are not active
  mappings,   \* the rows of label_mappings, in order of created_at, those
              \* whose INSERT has yet to commit included
  billed,     \* the client_ids that occur in active time entries
  pc,         \* where each goroutine is
  issue,      \* the labels and the repository its /log was given
  found,      \* what ResolveClient returned to it
  off,        \* the clients that have been inactive ever since it began
  seen        \* the client_ids of the entries its export lists

vars == <<clients, inactive, mappings, billed, pc, issue, found, off, seen>>

NoClient == 0
Id == 1 .. clients
Mapping == [label : Label, client : Nat \ {0}, repo : Repo \cup {Anywhere},
            visible : BOOLEAN]
Issues == [labels : SUBSET Label, repo : Repo]
NoIssue == [labels |-> {}, repo |-> Anywhere]

AttributionTypeOK ==
  /\ clients \in Nat
  /\ inactive \subseteq Id
  /\ mappings \in Seq(Mapping)
  /\ \A p \in DOMAIN mappings : mappings[p].client \in Id
  /\ billed \subseteq Id
  /\ pc \in [Caller -> {"idle", "resolve", "insert", "names", "sheet", "gaps"}]
  /\ issue \in [Caller -> Issues \cup {NoIssue}]
  /\ found \in [Caller -> Id \cup {NoClient}]
  /\ off \in [Caller -> SUBSET Id]
  /\ seen \in [Caller -> SUBSET Id]

Init ==
  /\ clients = 0 /\ inactive = {} /\ mappings = <<>> /\ billed = {}
  /\ pc = [c \in Caller |-> "idle"]
  /\ issue = [c \in Caller |-> NoIssue]
  /\ found = [c \in Caller |-> NoClient]
  /\ off = [c \in Caller |-> {}]
  /\ seen = [c \in Caller |-> {}]

----------------------------------------------------------------------------
\* ResolveClient

\* Mutant of Matches: the join forgets c.active.
MatchesAnyClient(labels) ==
  {p \in DOMAIN mappings : mappings[p].visible /\ mappings[p].label \in labels}

\* The rows of the query: JOIN clients ... AND c.active, label = ANY($1).
\* None for an issue without labels, for which the code skips the query.
Matches(labels) ==
  {p \in DOMAIN mappings : /\ mappings[p].visible
                           /\ mappings[p].label \in labels
                           /\ mappings[p].client \notin inactive}

Specific(p) == mappings[p].repo # Anywhere

\* Mutant of Precedes: created_at DESC.
PrecedesNewest(p, q) ==
  \/ Specific(p) /\ ~Specific(q)
  \/ (Specific(p) <=> Specific(q)) /\ p > q

\* ORDER BY repository-specific before global, then created_at.
Precedes(p, q) ==
  \/ Specific(p) /\ ~Specific(q)
  \/ (Specific(p) <=> Specific(q)) /\ p < q

First(rows) == CHOOSE p \in rows : \A q \in rows \ {p} : Precedes(p, q)

\* Mutant of Chosen: the loop that looks for the repository is missing.
ChosenFirst(rows, repo) ==
  IF rows = {} THEN NoClient ELSE mappings[First(rows)].client

\* The loop over the rows read: the first of this repository, else
\* matches[0], whatever repository that one is for.
Chosen(rows, repo) ==
  LET own == {p \in rows : mappings[p].repo = repo}
  IN  IF rows = {} THEN NoClient
      ELSE mappings[First(IF own # {} THEN own ELSE rows)].client

Resolve(labels, repo) == Chosen(Matches(labels), repo)

\* What is read of rows when the connection breaks: rows.Next returns false
\* and nobody looks at rows.Err.
Prefixes(rows) ==
  {read \in SUBSET rows : \A p \in rows, q \in read : Precedes(p, q) => p \in read}

----------------------------------------------------------------------------
\* A /log, from the labels GitHub returned to the committed INSERT.
Log(c) ==
  /\ pc[c] = "idle"
  /\ \E i \in Issues : issue' = [issue EXCEPT ![c] = i]
  /\ pc' = [pc EXCEPT ![c] = "resolve"]
  /\ off' = [off EXCEPT ![c] = inactive]
  /\ UNCHANGED <<clients, inactive, mappings, billed, found, seen>>

ResolveClient(c) ==
  /\ pc[c] = "resolve"
  /\ pc' = [pc EXCEPT ![c] = "insert"]
  /\ found' = [found EXCEPT ![c] = Resolve(issue[c].labels, issue[c].repo)]
  /\ issue' = [issue EXCEPT ![c] = NoIssue]
  /\ UNCHANGED <<clients, inactive, mappings, billed, off, seen>>

\* The query fails, and handleLog goes on without a client; or it breaks
\* while its rows are read.
ResolveClientCut(c) ==
  /\ pc[c] = "resolve"
  /\ pc' = [pc EXCEPT ![c] = "insert"]
  /\ \E read \in Prefixes(Matches(issue[c].labels)) :
       found' = [found EXCEPT ![c] = Chosen(read, issue[c].repo)]
  /\ issue' = [issue EXCEPT ![c] = NoIssue]
  /\ UNCHANGED <<clients, inactive, mappings, billed, off, seen>>

\* The INSERT commits, or it fails without effect.
Insert(c) ==
  /\ pc[c] = "insert"
  /\ pc' = [pc EXCEPT ![c] = "idle"]
  /\ billed' \in {billed, billed \cup ({found[c]} \ {NoClient})}
  /\ found' = [found EXCEPT ![c] = NoClient]
  /\ off' = [off EXCEPT ![c] = {}]
  /\ UNCHANGED <<clients, inactive, mappings, issue, seen>>

----------------------------------------------------------------------------
\* ExportCSV lists the active entries.
ListEntries(c) ==
  /\ pc[c] = "idle"
  /\ pc' = [pc EXCEPT ![c] = "names"]
  /\ seen' = [seen EXCEPT ![c] = billed]
  /\ UNCHANGED <<clients, inactive, mappings, billed, issue, found, off>>

\* Mutant of NameClients: the names come from loadClients, which lists the
\* active clients only.
NameActiveClients(c) ==
  /\ pc[c] = "names"
  /\ pc' = [pc EXCEPT ![c] = "sheet"]
  /\ seen' = [seen EXCEPT ![c] = @ \ (Id \ inactive)]
  /\ UNCHANGED <<clients, inactive, mappings, billed, issue, found, off>>

\* ... then SELECT id, name FROM clients.  What stays in seen are the clients
\* whose rows are written with an empty name.
NameClients(c) ==
  /\ pc[c] = "names"
  /\ pc' = [pc EXCEPT ![c] = "sheet"]
  /\ seen' = [seen EXCEPT ![c] = @ \ Id]
  /\ UNCHANGED <<clients, inactive, mappings, billed, issue, found, off>>

\* The second query fails or breaks: ExportCSV goes on with the names it has.
NameClientsCut(c) ==
  /\ pc[c] = "names"
  /\ pc' = [pc EXCEPT ![c] = "gaps"]
  /\ \E read \in SUBSET Id : seen' = [seen EXCEPT ![c] = @ \ read]
  /\ UNCHANGED <<clients, inactive, mappings, billed, issue, found, off>>

SendSheet(c) ==
  /\ pc[c] \in {"sheet", "gaps"}
  /\ pc' = [pc EXCEPT ![c] = "idle"]
  /\ seen' = [seen EXCEPT ![c] = {}]
  /\ UNCHANGED <<clients, inactive, mappings, billed, issue, found, off>>

\* A /delete, or a /correct whose client differs, retires the last active
\* entry of a client.
Retire ==
  /\ \E k \in billed : billed' = billed \ {k}
  /\ UNCHANGED <<clients, inactive, mappings, pc, issue, found, off, seen>>

----------------------------------------------------------------------------
\* The admins, through the REST API or the admin panel.

CreateClient ==
  /\ clients < MaxClients
  /\ clients' = clients + 1
  /\ UNCHANGED <<inactive, mappings, billed, pc, issue, found, off, seen>>

\* UpdateClient: UPDATE clients SET active.
Deactivate(k) ==
  /\ inactive' = inactive \cup {k}
  /\ UNCHANGED <<clients, mappings, billed, pc, issue, found, off, seen>>

Activate(k) ==
  /\ inactive' = inactive \ {k}
  /\ off' = [c \in Caller |-> off[c] \ {k}]
  /\ UNCHANGED <<clients, mappings, billed, pc, issue, found, seen>>

\* The INSERT begins: created_at is now(), the time of its transaction.  The
\* foreign key refuses a client that does not exist; an inactive one is
\* accepted, and so is a second mapping of the same label.
CreateMapping(l, k, r) ==
  /\ Len(mappings) < MaxMappings
  /\ mappings' = Append(mappings, [label |-> l, client |-> k, repo |-> r,
                                   visible |-> FALSE])
  /\ UNCHANGED <<clients, inactive, billed, pc, issue, found, off, seen>>

\* ... and commits, maybe after one that began later.
CommitMapping(p) ==
  /\ ~mappings[p].visible
  /\ mappings' = [mappings EXCEPT ![p] = [@ EXCEPT !.visible = TRUE]]
  /\ UNCHANGED <<clients, inactive, billed, pc, issue, found, off, seen>>

\* A mapping is deleted, or its INSERT fails.
DropMapping(p) ==
  /\ mappings' = [q \in 1 .. Len(mappings) - 1 |->
                    IF q < p THEN mappings[q] ELSE mappings[q + 1]]
  /\ UNCHANGED <<clients, inactive, billed, pc, issue, found, off, seen>>

Admin ==
  \/ CreateClient
  \/ \E k \in Id : Deactivate(k) \/ Activate(k)
  \/ \E l \in Label, k \in Id, r \in Repo \cup {Anywhere} : CreateMapping(l, k, r)
  \/ \E p \in DOMAIN mappings : CommitMapping(p) \/ DropMapping(p)

Serve(c) == \/ Log(c)         \/ ResolveClient(c) \/ ResolveClientCut(c) \/ Insert(c)
            \/ ListEntries(c) \/ NameClients(c)   \/ NameClientsCut(c)   \/ SendSheet(c)

Next == Admin \/ Retire \/ \E c \in Caller : Serve(c)
Spec == Init /\ [][Next]_vars

----------------------------------------------------------------------------
\* Positions of the mappings of this repository, and of all repositories,
\* that an issue's labels match.
Own(labels, repo) == {p \in Matches(labels) : mappings[p].repo = repo}
Global(labels) == Own(labels, Anywhere)

\* The client of the oldest of some mappings.
OldestClient(rows) == mappings[CHOOSE p \in rows : \A q \in rows : p <= q].client

\* Whatever else is configured, an issue is billed to the client of its
\* oldest mapping for the issue's own repository; and without one, and
\* without one for another repository, to that of its oldest global mapping
\* (client-attribution.md:28, resolver.go:60-74).
RepositoryMappingWins ==
  \A i \in Issues :
    LET own == Own(i.labels, i.repo)
        global == Global(i.labels)
        client == Resolve(i.labels, i.repo)
    IN  /\ own # {} => client = OldestClient(own)
        /\ Matches(i.labels) = global /\ global # {} => client = OldestClient(global)
        /\ Matches(i.labels) = {} => client = NoClient

\* A mapping takes nothing away from the client an issue is billed to through
\* an older mapping of its own repository, whatever the label, repository or
\* client of the new one: created_at ASC (resolver.go:37-39).  Older is what
\* began to be inserted before, so that this covers every mapping that is added
\* while the other is there; but one whose INSERT began before those of all that
\* cover the issue takes it over when it commits after them.
LaterMappingsDoNotReroute ==
  [][\A p \in DOMAIN mappings :
       /\ Len(mappings') = Len(mappings)
       /\ ~mappings[p].visible /\ mappings'[p].visible
       => \A i \in Issues :
            (\E q \in Own(i.labels, i.repo) : q < p) =>
              Resolve(i.labels, i.repo)' = Resolve(i.labels, i.repo)]_vars

\* No entry is created for a client that has been inactive ever since the
\* labels were read, even if the rows of the query were read in part: a
\* client that is deactivated gets time only from the requests then in flight
\* (client-attribution.md:76, resolver.go:35).
InactiveClientsGetNoTime ==
  \A c \in Caller : pc[c] = "insert" => found[c] \notin off[c]

\* An exported row that has a client shows its name, though clients, mappings
\* and entries change between the two queries, unless the second one fails
\* (api.go:356-398).
ExportNamesEveryClient ==
  \A c \in Caller : pc[c] = "sheet" => seen[c] = {}

=============================================================================
