------------------------- MODULE AttributionProofs -------------------------
(***************************************************************************)
(* Attribution for any number of clients, mappings, labels, repositories   *)
(* and callers.                                                            *)
(***************************************************************************)
EXTENDS Attribution, WellFoundedInduction, TLAPS

----------------------------------------------------------------------------
\* ResolveClient picks the least row of what it read.

LEMMA LeastExists ==
  ASSUME NEW S, S \subseteq Nat, S # {}
  PROVE  \E m \in S : \A n \in S : m <= n
  <1>1. PICK m \in S : \A n \in S : ~ <<n, m>> \in OpToRel(<, Nat)
    BY NatLessThanWellFounded, WFMin
  <1>2. ASSUME NEW n \in S PROVE m <= n
    <2>1. ~ <<n, m>> \in OpToRel(<, Nat)
      BY <1>1
    <2>2. ~ n < m
      BY <2>1 DEF OpToRel
    <2> QED
      BY <2>2
  <1> QED
    BY <1>2

\* In a set of rows that are all specific, or all global, First is the oldest.
LEMMA FirstOfOneKind ==
  ASSUME NEW rows, rows \subseteq Nat, rows # {},
         \A p, q \in rows : Specific(p) <=> Specific(q)
  PROVE  /\ First(rows) \in rows
         /\ \A q \in rows : First(rows) <= q
  <1>1. PICK m \in rows : \A q \in rows : m <= q
    BY LeastExists
  <1>2. \A q \in rows \ {m} : Precedes(m, q)
    BY <1>1 DEF Precedes
  <1>3. First(rows) \in rows /\ \A q \in rows \ {First(rows)} : Precedes(First(rows), q)
    BY <1>2 DEF First
  <1>4. ASSUME NEW q \in rows \ {First(rows)} PROVE First(rows) < q
    <2>1. Precedes(First(rows), q) /\ (Specific(First(rows)) <=> Specific(q))
      BY <1>3
    <2> QED
      BY <2>1 DEF Precedes
  <1>5. First(rows) \in Nat
    BY <1>3
  <1> HIDE DEF First
  <1>6. ASSUME NEW q \in rows PROVE First(rows) <= q
    BY <1>4, <1>5
  <1> QED
    BY <1>3, <1>6

\* Of any rows, First is one of them.
LEMMA FirstIsOne ==
  ASSUME NEW rows, rows \subseteq Nat, rows # {}
  PROVE  First(rows) \in rows
  <1>1. CASE \E p \in rows : Specific(p)
    <2> DEFINE some == {p \in rows : Specific(p)}
    <2>1. PICK m \in some : \A q \in some : m <= q
      <3>1. some # {} /\ some \subseteq Nat
        BY <1>1
      <3> HIDE DEF some
      <3> QED
        BY <3>1, LeastExists
    <2>2. m \in rows /\ \A q \in rows \ {m} : Precedes(m, q)
      BY <2>1 DEF Precedes
    <2> QED
      BY <2>2 DEF First
  <1>2. CASE \A p \in rows : ~Specific(p)
    BY <1>2, FirstOfOneKind
  <1> QED
    BY <1>1, <1>2

LEMMA OldestIsFirst ==
  ASSUME NEW rows, rows \subseteq Nat, rows # {},
         \A p, q \in rows : Specific(p) <=> Specific(q)
  PROVE  OldestClient(rows) = mappings[First(rows)].client
  <1> DEFINE oldest == CHOOSE p \in rows : \A q \in rows : p <= q
  <1>1. First(rows) \in rows /\ \A q \in rows : First(rows) <= q
    BY FirstOfOneKind
  <1>2. oldest \in rows /\ \A q \in rows : oldest <= q
    BY <1>1
  <1>3. oldest = First(rows)
    <2>1. oldest \in Nat /\ First(rows) \in Nat
      BY <1>1, <1>2
    <2>2. oldest <= First(rows) /\ First(rows) <= oldest
      BY <1>1, <1>2
    <2> HIDE DEF oldest
    <2> QED
      BY <2>1, <2>2
  <1> QED
    BY <1>3 DEF OldestClient

LEMMA PositionsAreNaturals ==
  ASSUME AttributionTypeOK
  PROVE  DOMAIN mappings \subseteq Nat
  BY DEF AttributionTypeOK

\* What the loop returns is the client of an active mapping it read, or none.
LEMMA ChosenIsActive ==
  ASSUME AttributionTypeOK, NEW labels, NEW repo,
         NEW rows \in SUBSET Matches(labels)
  PROVE  /\ Chosen(rows, repo) \in Id \cup {NoClient}
         /\ Chosen(rows, repo) \notin inactive
  <1>1. 0 \notin inactive
    BY DEF AttributionTypeOK, Id
  <1>2. CASE rows = {}
    BY <1>1, <1>2 DEF Chosen, NoClient
  <1>3. CASE rows # {}
    <2> DEFINE own == {p \in rows : mappings[p].repo = repo}
               kept == IF own # {} THEN own ELSE rows
    <2>1. kept \subseteq rows /\ kept # {} /\ kept \subseteq Nat
      BY <1>3, PositionsAreNaturals DEF Matches
    <2>2. First(kept) \in kept
      <3> HIDE DEF kept
      <3> QED
        BY <2>1, FirstIsOne
    <2>3. Chosen(rows, repo) = mappings[First(kept)].client
      BY <1>3 DEF Chosen
    <2>4. First(kept) \in DOMAIN mappings /\ mappings[First(kept)].client \notin inactive
      <3> HIDE DEF kept
      <3> QED
        BY <2>1, <2>2 DEF Matches
    <2> HIDE DEF kept
    <2> QED
      BY <2>3, <2>4 DEF AttributionTypeOK
  <1> QED
    BY <1>2, <1>3

----------------------------------------------------------------------------
\* The inductive invariant.

\* What is remembered of a client as inactive is true; this is what makes
\* InactiveClientsGetNoTime inductive, since ResolveClient reads inactive and
\* not off.
OffIsInactive == \A c \in Caller : off[c] \subseteq inactive

AttributionInv ==
  /\ AttributionTypeOK
  /\ OffIsInactive
  /\ InactiveClientsGetNoTime
  /\ ExportNamesEveryClient

LEMMA InitInv == Init => AttributionInv
  BY DEF Init, AttributionInv, AttributionTypeOK, OffIsInactive,
         InactiveClientsGetNoTime, ExportNamesEveryClient, Id, NoClient

LEMMA AdminKeepsInv ==
  ASSUME AttributionInv, Admin
  PROVE  AttributionInv'
  <1> USE DEF AttributionInv, OffIsInactive, InactiveClientsGetNoTime,
              ExportNamesEveryClient
  <1>1. CASE CreateClient
    <2>1. Id \subseteq Id' /\ clients' \in Nat
      BY <1>1 DEF CreateClient, Id, AttributionTypeOK
    <2>2. AttributionTypeOK'
      BY <1>1, <2>1 DEF CreateClient, AttributionTypeOK
    <2> QED
      BY <1>1, <2>2 DEF CreateClient
  <1>2. ASSUME NEW k \in Id, Deactivate(k) PROVE AttributionInv'
    <2>1. AttributionTypeOK'
      BY <1>2 DEF Deactivate, AttributionTypeOK, Id
    <2> QED
      BY <1>2, <2>1 DEF Deactivate
  <1>3. ASSUME NEW k \in Id, Activate(k) PROVE AttributionInv'
    <2>1. off' \in [Caller -> SUBSET Id] /\ \A c \in Caller : off'[c] = off[c] \ {k}
      BY <1>3 DEF Activate, AttributionTypeOK
    <2>2. AttributionTypeOK'
      BY <1>3, <2>1 DEF Activate, AttributionTypeOK, Id
    <2> QED
      BY <1>3, <2>1, <2>2 DEF Activate
  <1>4. ASSUME NEW l \in Label, NEW k \in Id, NEW r \in Repo \cup {Anywhere},
               CreateMapping(l, k, r)
        PROVE  AttributionInv'
    <2> DEFINE row == [label |-> l, client |-> k, repo |-> r, visible |-> FALSE]
    <2>1. row \in Mapping /\ row.client \in Id
      BY <1>4 DEF Mapping, Id, AttributionTypeOK
    <2>2. mappings' = Append(mappings, row) /\ mappings \in Seq(Mapping)
      BY <1>4 DEF CreateMapping, AttributionTypeOK
    <2> HIDE DEF row
    <2>3. mappings' \in Seq(Mapping)
      BY <2>1, <2>2
    <2>4. \A p \in DOMAIN mappings' : mappings'[p].client \in Id
      BY <2>1, <2>2, <1>4 DEF AttributionTypeOK
    <2>5. AttributionTypeOK'
      BY <1>4, <2>3, <2>4 DEF CreateMapping, AttributionTypeOK, Id
    <2> QED
      BY <1>4, <2>5 DEF CreateMapping
  <1>5. ASSUME NEW p \in DOMAIN mappings, CommitMapping(p) PROVE AttributionInv'
    <2>1. mappings \in Seq(Mapping) /\ mappings[p] \in Mapping
      BY <1>5 DEF AttributionTypeOK
    <2> DEFINE row == [mappings[p] EXCEPT !.visible = TRUE]
    <2>2. row \in Mapping /\ row.client = mappings[p].client
      BY <2>1 DEF Mapping
    <2>3. mappings' = [mappings EXCEPT ![p] = row]
      BY <1>5 DEF CommitMapping
    <2> HIDE DEF row
    <2>4. mappings' \in Seq(Mapping)
      BY <2>1, <2>2, <2>3
    <2>5. \A q \in DOMAIN mappings' : mappings'[q].client \in Id
      BY <2>1, <2>2, <2>3 DEF AttributionTypeOK
    <2>6. AttributionTypeOK'
      BY <1>5, <2>4, <2>5 DEF CommitMapping, AttributionTypeOK, Id
    <2> QED
      BY <1>5, <2>6 DEF CommitMapping
  <1>6. ASSUME NEW p \in DOMAIN mappings, DropMapping(p) PROVE AttributionInv'
    <2>1. mappings \in Seq(Mapping) /\ p \in 1 .. Len(mappings)
      BY <1>6 DEF AttributionTypeOK
    <2>2. \A q \in 1 .. Len(mappings) - 1 :
            LET kept == IF q < p THEN q ELSE q + 1
            IN  kept \in DOMAIN mappings /\ mappings'[q] = mappings[kept]
      BY <2>1, <1>6 DEF DropMapping
    <2>3. mappings' \in [1 .. Len(mappings) - 1 -> Mapping]
      BY <2>1, <2>2, <1>6 DEF DropMapping
    <2>4. mappings' \in Seq(Mapping) /\ DOMAIN mappings' = 1 .. Len(mappings) - 1
      BY <2>1, <2>3
    <2>5. \A q \in DOMAIN mappings' : mappings'[q].client \in Id
      BY <2>2, <2>4 DEF AttributionTypeOK
    <2>6. AttributionTypeOK'
      BY <1>6, <2>4, <2>5 DEF DropMapping, AttributionTypeOK, Id
    <2> QED
      BY <1>6, <2>6 DEF DropMapping
  <1> QED
    BY <1>1, <1>2, <1>3, <1>4, <1>5, <1>6 DEF Admin

LEMMA ServingKeepsInv ==
  ASSUME AttributionInv, NEW c \in Caller, Serve(c)
  PROVE  AttributionInv'
  <1> USE DEF AttributionInv, OffIsInactive, InactiveClientsGetNoTime,
              ExportNamesEveryClient
  <1>1. CASE Log(c)
    <2>1. AttributionTypeOK'
      BY <1>1 DEF Log, AttributionTypeOK, Id
    <2> QED
      BY <1>1, <2>1 DEF Log, AttributionTypeOK
  <1>2. CASE ResolveClient(c) \/ ResolveClientCut(c)
    <2>1. PICK rows \in SUBSET Matches(issue[c].labels) :
            found' = [found EXCEPT ![c] = Chosen(rows, issue[c].repo)]
      BY <1>2 DEF ResolveClient, ResolveClientCut, Resolve, Prefixes
    <2>2. /\ Chosen(rows, issue[c].repo) \in Id \cup {NoClient}
          /\ Chosen(rows, issue[c].repo) \notin inactive
      BY ChosenIsActive
    <2>3. /\ pc' = [pc EXCEPT ![c] = "insert"]
          /\ issue' = [issue EXCEPT ![c] = NoIssue]
          /\ UNCHANGED <<clients, inactive, mappings, billed, off, seen>>
      BY <1>2 DEF ResolveClient, ResolveClientCut
    <2>4. AttributionTypeOK'
      BY <2>1, <2>2, <2>3 DEF AttributionTypeOK, Id
    <2>5. found'[c] \notin off[c]
      BY <2>1, <2>2 DEF AttributionTypeOK
    <2> QED
      BY <2>1, <2>3, <2>4, <2>5 DEF AttributionTypeOK
  <1>3. CASE Insert(c)
    <2>1. billed' \subseteq Id
      BY <1>3 DEF Insert, AttributionTypeOK
    <2>2. AttributionTypeOK'
      BY <1>3, <2>1 DEF Insert, AttributionTypeOK, Id, NoClient
    <2> QED
      BY <1>3, <2>2 DEF Insert, AttributionTypeOK
  <1>4. CASE ListEntries(c) \/ SendSheet(c)
    <2>1. AttributionTypeOK'
      BY <1>4 DEF ListEntries, SendSheet, AttributionTypeOK, Id
    <2> QED
      BY <1>4, <2>1 DEF ListEntries, SendSheet, AttributionTypeOK
  <1>5. CASE NameClients(c)
    <2>1. seen'[c] = {}
      BY <1>5 DEF NameClients, AttributionTypeOK
    <2>2. AttributionTypeOK'
      BY <1>5 DEF NameClients, AttributionTypeOK, Id
    <2> QED
      BY <1>5, <2>1, <2>2 DEF NameClients, AttributionTypeOK
  <1>6. CASE NameClientsCut(c)
    <2>1. AttributionTypeOK'
      BY <1>6 DEF NameClientsCut, AttributionTypeOK, Id
    <2> QED
      BY <1>6, <2>1 DEF NameClientsCut, AttributionTypeOK
  <1> QED
    BY <1>1, <1>2, <1>3, <1>4, <1>5, <1>6 DEF Serve

LEMMA NextKeepsInv == AttributionInv /\ [Next]_vars => AttributionInv'
  <1> SUFFICES ASSUME AttributionInv, [Next]_vars
               PROVE  AttributionInv'
    OBVIOUS
  <1>1. CASE Retire \/ UNCHANGED vars
    <2>1. AttributionTypeOK'
      BY <1>1 DEF Retire, vars, AttributionInv, AttributionTypeOK, Id
    <2> QED
      BY <1>1, <2>1 DEF Retire, vars, AttributionInv, OffIsInactive,
         InactiveClientsGetNoTime, ExportNamesEveryClient
  <1> QED
    BY <1>1, AdminKeepsInv, ServingKeepsInv DEF Next

\* Entries, mappings and goroutines refer to clients that exist; a deactivated
\* client gets no time from requests that begin later; and every exported
\* client has a name.  This holds for any number of callers and admins.
THEOREM AttributionCorrect == Spec => []AttributionInv
  BY InitInv, NextKeepsInv, PTL DEF Spec

\* A client that is inactive from the moment a /log reads its labels gets no
\* entry from it (resolver.go:40).
THEOREM NoTimeForInactive == Spec => []InactiveClientsGetNoTime
  <1>1. AttributionInv => InactiveClientsGetNoTime
    BY DEF AttributionInv
  <1> QED
    BY <1>1, AttributionCorrect, PTL

\* The two queries of an export never disagree on which clients exist
\* (api.go:351-386).
THEOREM ExportsAreNamed == Spec => []ExportNamesEveryClient
  <1>1. AttributionInv => ExportNamesEveryClient
    BY DEF AttributionInv
  <1> QED
    BY <1>1, AttributionCorrect, PTL

----------------------------------------------------------------------------
\* Precedence

LEMMA OwnWins ==
  ASSUME AttributionTypeOK, NEW i \in Issues, Own(i.labels, i.repo) # {}
  PROVE  Resolve(i.labels, i.repo) = OldestClient(Own(i.labels, i.repo))
  <1> DEFINE own == Own(i.labels, i.repo)
  <1>1. own = {p \in Matches(i.labels) : mappings[p].repo = i.repo}
    BY DEF Own
  <1>2. Resolve(i.labels, i.repo) = mappings[First(own)].client
    BY <1>1 DEF Resolve, Chosen
  <1>3. own \subseteq Nat
    BY PositionsAreNaturals DEF Own, Matches
  <1>4. \A p, q \in own : Specific(p) <=> Specific(q)
    BY <1>1 DEF Specific
  <1> HIDE DEF own
  <1>5. OldestClient(own) = mappings[First(own)].client
    BY <1>3, <1>4, OldestIsFirst DEF own
  <1> QED
    BY <1>2, <1>5 DEF own

LEMMA GlobalIsNext ==
  ASSUME AttributionTypeOK, NEW i \in Issues, Own(i.labels, i.repo) = {},
         Matches(i.labels) = Global(i.labels), Global(i.labels) # {}
  PROVE  Resolve(i.labels, i.repo) = OldestClient(Global(i.labels))
  <1> DEFINE global == Global(i.labels)
  <1>1. global = {p \in Matches(i.labels) : mappings[p].repo = Anywhere}
    BY DEF Global, Own
  <1>2. Resolve(i.labels, i.repo) = mappings[First(global)].client
    BY DEF Resolve, Chosen, Own
  <1>3. global \subseteq Nat
    BY PositionsAreNaturals DEF Global, Own, Matches
  <1>4. \A p, q \in global : Specific(p) <=> Specific(q)
    BY <1>1 DEF Specific
  <1> HIDE DEF global
  <1>5. OldestClient(global) = mappings[First(global)].client
    BY <1>3, <1>4, OldestIsFirst DEF global
  <1> QED
    BY <1>2, <1>5 DEF global

\* A mapping for the issue's repository beats every other one, and the oldest
\* of several wins; global mappings come next, provided no other repository's
\* mapping matches (client-attribution.md:28, resolver.go:60-74).
THEOREM PrecedenceHolds == Spec => []RepositoryMappingWins
  <1>1. ASSUME AttributionTypeOK PROVE RepositoryMappingWins
    <2> SUFFICES ASSUME NEW i \in Issues
                 PROVE  /\ Own(i.labels, i.repo) # {} =>
                             Resolve(i.labels, i.repo) = OldestClient(Own(i.labels, i.repo))
                        /\ Matches(i.labels) = Global(i.labels) /\ Global(i.labels) # {} =>
                             Resolve(i.labels, i.repo) = OldestClient(Global(i.labels))
                        /\ Matches(i.labels) = {} => Resolve(i.labels, i.repo) = NoClient
      BY DEF RepositoryMappingWins
    <2>1. i.repo # Anywhere
      BY AnywhereAssumption DEF Issues
    <2>2. Matches(i.labels) = Global(i.labels) => Own(i.labels, i.repo) = {}
      BY <2>1 DEF Global, Own
    <2>3. Matches(i.labels) = {} => Resolve(i.labels, i.repo) = NoClient
      BY DEF Resolve, Chosen
    <2> QED
      BY <1>1, <2>2, <2>3, OwnWins, GlobalIsNext
  <1>2. AttributionInv => RepositoryMappingWins
    BY <1>1 DEF AttributionInv
  <1> QED
    BY <1>2, AttributionCorrect, PTL

----------------------------------------------------------------------------
\* Later mappings

OwnPrevails ==
  \A i \in Issues :
    Own(i.labels, i.repo) # {} =>
      Resolve(i.labels, i.repo) = OldestClient(Own(i.labels, i.repo))

\* Only its own commit makes a mapping visible where it is.
LEMMA OnlyCommitShows ==
  ASSUME AttributionTypeOK, [Next]_vars, Len(mappings') = Len(mappings),
         NEW p \in DOMAIN mappings, ~mappings[p].visible, mappings'[p].visible
  PROVE  CommitMapping(p)
  <1>1. mappings \in Seq(Mapping) /\ Len(mappings) \in Nat
    BY DEF AttributionTypeOK
  <1>2. Admin
    BY DEF Next, vars, Retire, Serve, Log, ResolveClient, ResolveClientCut,
       Insert, ListEntries, NameClients, NameClientsCut, SendSheet
  <1>3. ASSUME NEW l \in Label, NEW k \in Id, NEW r \in Repo \cup {Anywhere},
               CreateMapping(l, k, r)
        PROVE  FALSE
    <2> DEFINE row == [label |-> l, client |-> k, repo |-> r, visible |-> FALSE]
    <2>1. row \in [label : {l}, client : {k}, repo : {r}, visible : {FALSE}]
      OBVIOUS
    <2>2. mappings' = Append(mappings, row)
      BY <1>3 DEF CreateMapping
    <2> HIDE DEF row
    <2>3. Len(mappings') = Len(mappings) + 1
      BY <1>1, <2>2
    <2> QED
      BY <1>1, <2>3
  <1>4. ASSUME NEW q \in DOMAIN mappings, DropMapping(q) PROVE FALSE
    <2>1. mappings' = [m \in 1 .. Len(mappings) - 1 |->
                         IF m < q THEN mappings[m] ELSE mappings[m + 1]]
      BY <1>4 DEF DropMapping
    <2>2. PICK n \in Nat : n + 1 = Len(mappings)
      BY <1>1, <1>4
    <2>3. mappings' \in [1 .. n -> {mappings'[m] : m \in 1 .. n}]
      BY <2>1, <2>2
    <2>4. Len(mappings') = n
      BY <2>2, <2>3
    <2> QED
      BY <2>2, <2>4
  <1>5. ASSUME NEW q \in DOMAIN mappings, CommitMapping(q) PROVE q = p
    BY <1>1, <1>5 DEF CommitMapping
  <1> QED
    BY <1>2, <1>3, <1>4, <1>5 DEF Admin, CreateClient, Deactivate, Activate

\* The mapping that becomes visible comes after an older one, and changes none
\* of the others.
LEMMA ShowingKeepsOldest ==
  ASSUME AttributionTypeOK, NEW i \in Issues, NEW p \in DOMAIN mappings,
         CommitMapping(p), NEW o \in Own(i.labels, i.repo), o < p
  PROVE  /\ Own(i.labels, i.repo)' # {}
         /\ OldestClient(Own(i.labels, i.repo))' = OldestClient(Own(i.labels, i.repo))
  <1> DEFINE own == Own(i.labels, i.repo)
  <1>1. mappings \in Seq(Mapping) /\ mappings[p] \in Mapping /\ inactive' = inactive
    BY DEF AttributionTypeOK, CommitMapping
  <1>2. /\ DOMAIN mappings' = DOMAIN mappings /\ DOMAIN mappings \subseteq Nat
        /\ \A q \in DOMAIN mappings \ {p} : mappings'[q] = mappings[q]
        /\ \A q \in DOMAIN mappings : mappings'[q].client = mappings[q].client
    BY <1>1 DEF CommitMapping, Mapping
  <1>3. p \notin own
    BY DEF CommitMapping, Own, Matches
  <1>4. own \subseteq own' /\ own' \subseteq own \cup {p} /\ own \subseteq DOMAIN mappings
    BY <1>1, <1>2, <1>3 DEF Own, Matches
  <1>5. o \in own
    OBVIOUS
  <1> DEFINE new == own'
  <1>6. own \subseteq new /\ new \subseteq own \cup {p}
    BY <1>4
  <1>7. OldestClient(own)' = mappings'[CHOOSE q \in new : \A n \in new : q <= n].client
    BY DEF OldestClient
  <1> HIDE DEF own, new
  <1>8. PICK m \in own : \A q \in own : m <= q
    <2>1. own \subseteq Nat
      BY <1>2, <1>4
    <2> QED
      BY <1>5, <2>1, LeastExists
  <1>9. m \in Nat /\ p \in Nat /\ o \in Nat /\ m <= o /\ m \in DOMAIN mappings
    BY <1>2, <1>4, <1>5, <1>8
  <1>10. \A q \in own : (\A n \in own : q <= n) => q = m
    <2> SUFFICES ASSUME NEW q \in own, \A n \in own : q <= n PROVE q = m
      OBVIOUS
    <2>1. q <= m /\ m <= q /\ q \in Nat
      BY <1>2, <1>4, <1>8
    <2> QED
      BY <2>1, <1>9
  <1>11. m \in new /\ \A q \in new : m <= q
    BY <1>6, <1>8, <1>9
  <1>12. \A q \in new : (\A n \in new : q <= n) => q = m
    <2> SUFFICES ASSUME NEW q \in new, \A n \in new : q <= n PROVE q = m
      OBVIOUS
    <2>1. q <= m /\ m <= q /\ q \in Nat
      BY <1>2, <1>4, <1>6, <1>9, <1>11
    <2> QED
      BY <2>1, <1>9
  <1>13. (CHOOSE q \in own : \A n \in own : q <= n) = m
    BY <1>8, <1>10
  <1>14. (CHOOSE q \in new : \A n \in new : q <= n) = m
    BY <1>11, <1>12
  <1>15. OldestClient(own) = mappings[m].client
    BY <1>13 DEF OldestClient
  <1>16. OldestClient(own)' = mappings[m].client
    BY <1>2, <1>7, <1>9, <1>14
  <1>17. new # {}
    BY <1>11
  <1> QED
    BY <1>15, <1>16, <1>17 DEF own, new

\* Whatever mapping becomes visible, and in whatever order the INSERTs commit:
\* an issue stays with its client if its own repository's mappings cover it
\* through one that is older than that mapping (resolver.go:37-39).
THEOREM ReroutingIsRefused == Spec => LaterMappingsDoNotReroute
  <1>1. AttributionTypeOK => OwnPrevails
    BY OwnWins DEF OwnPrevails
  <1>2. ASSUME AttributionTypeOK, OwnPrevails, OwnPrevails', [Next]_vars,
               NEW i \in Issues, NEW p \in DOMAIN mappings,
               Len(mappings') = Len(mappings),
               ~mappings[p].visible, mappings'[p].visible,
               NEW q \in Own(i.labels, i.repo), q < p
        PROVE  Resolve(i.labels, i.repo)' = Resolve(i.labels, i.repo)
    <2>1. CommitMapping(p)
      BY <1>2, OnlyCommitShows
    <2>2. /\ Own(i.labels, i.repo)' # {}
          /\ OldestClient(Own(i.labels, i.repo))' = OldestClient(Own(i.labels, i.repo))
      BY <1>2, <2>1, ShowingKeepsOldest
    <2>3. Resolve(i.labels, i.repo) = OldestClient(Own(i.labels, i.repo))
      BY <1>2 DEF OwnPrevails
    <2>4. Resolve(i.labels, i.repo)' = OldestClient(Own(i.labels, i.repo))'
      BY <1>2, <2>2 DEF OwnPrevails
    <2> QED
      BY <2>2, <2>3, <2>4
  <1>3. AttributionTypeOK /\ OwnPrevails /\ OwnPrevails' /\ [Next]_vars =>
          [\A p \in DOMAIN mappings :
             /\ Len(mappings') = Len(mappings)
             /\ ~mappings[p].visible /\ mappings'[p].visible
             => \A i \in Issues :
                  (\E q \in Own(i.labels, i.repo) : q < p) =>
                    Resolve(i.labels, i.repo)' = Resolve(i.labels, i.repo)]_vars
    BY <1>2
  <1>4. AttributionInv => AttributionTypeOK /\ OwnPrevails
    BY <1>1 DEF AttributionInv
  <1> QED
    BY <1>3, <1>4, AttributionCorrect, PTL DEF Spec, LaterMappingsDoNotReroute

=============================================================================
