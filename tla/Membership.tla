----------------------------- MODULE Membership -----------------------------
(***************************************************************************)
(* auth.MembershipChecker (internal/auth/membership.go): is a GitHub user  *)
(* still allowed to act through Billbird?  One checker per process, shared *)
(* by the webhook and the bearer-token middleware, caches its decisions    *)
(* per user for TTL, and the map of the App's installations until the      *)
(* process ends.  An action is what happens between two acquisitions of    *)
(* the checker's mutex or around one call to GitHub; the mutex is released *)
(* between them, so any number of callers interleave.                      *)
(***************************************************************************)
EXTENDS Integers, Sequences, FiniteSets

CONSTANTS
  User,          \* GitHub logins that act through Billbird
  NoOne,         \* not a login
  Org,           \* accounts of type Organization; any other is a User's
  AllowedOrgs,   \* ALLOWED_ORGS, in the order of the configuration
  Caller,        \* goroutines that may be inside IsAllowed
  TTL,           \* how long a decision is cached (5 minutes)
  MaxTime        \* bound: the clock stops here

Allowed == {AllowedOrgs[k] : k \in DOMAIN AllowedOrgs}
Account == Allowed \cup Org

\* config.Load rejects an empty list.
ASSUME AllowedAssumption == AllowedOrgs \in Seq(Allowed) \ {<<>>}
ASSUME LoginsAssumption == User \cap Org = {} /\ NoOne \notin User
ASSUME TTLAssumption == TTL \in Nat \ {0}
ASSUME MaxTimeAssumption == MaxTime \in Nat

VARIABLES
  now,         \* the clock, in units that matter to TTL
  members,     \* GitHub: who is a member of which organisation
  installed,   \* GitHub: the accounts the App is installed on
  orgInstall,  \* the checker's copy of it (an account's type never changes)
  cache,       \* the cached decisions
  call,        \* the goroutines inside IsAllowed
  lastIn,      \* history: when a user was last entitled
  lastOut      \* history: when a user was last not recognised by an account

membershipVars ==
  <<now, members, installed, orgInstall, cache, call, lastIn, lastOut>>

Never == -1
Time == 0 .. MaxTime

\* The owner of an allowed account, or a member of an allowed organisation.
Entitled(u, mem) == \E a \in Allowed : u = a \/ <<u, a>> \in mem

\* What a question about u and a is answered, if no call fails, to a caller
\* with this installation map: GitHub is not asked about a User's account, and
\* an organisation only answers while the App is installed.
RecognisedBy(u, a, mem, inst, map) ==
  /\ a \in map
  /\ u = a \/ (<<u, a>> \in mem /\ a \in inst)

\* A cached decision, NoDecision where there is none.
Decision == [isMember : BOOLEAN, at : Time \cup {Never}]
NoDecision == [isMember |-> FALSE, at |-> Never]

\* A goroutine's locals: whom it asks about, when it entered, its copy of the
\* installation map, the entry of ALLOWED_ORGS it has reached, its answer.
Call == [pc      : {"idle", "lookup", "check", "refresh", "copy", "ask",
                    "store", "done"},
         user    : User \cup {NoOne},
         at      : Time \cup {Never},
         mapping : SUBSET Account,
         k       : Nat,
         answer  : BOOLEAN]

Idle == [pc |-> "idle", user |-> NoOne, at |-> Never, mapping |-> {}, k |-> 0,
         answer |-> FALSE]

MembershipTypeOK ==
  /\ now \in Time
  /\ members \subseteq User \X Org
  /\ installed \subseteq Account
  /\ orgInstall \subseteq Account
  /\ cache \in [User -> Decision]
  /\ call \in [Caller -> Call]
  /\ \A c \in Caller :
       /\ call[c].pc # "idle" => call[c].user \in User /\ call[c].at \in Time
       /\ call[c].pc = "ask" => call[c].k \in DOMAIN AllowedOrgs
  /\ lastIn \in [User -> Time \cup {Never}]
  /\ lastOut \in [User \X Allowed -> Time \cup {Never}]

\* Startup: PrimeInstallations has filled the map, or failed and left it empty.
MembershipInit ==
  /\ now = 0
  /\ members \in SUBSET (User \X Org)
  /\ installed \in SUBSET Account
  /\ orgInstall \in {installed, {}}
  /\ cache = [u \in User |-> NoDecision]
  /\ call = [c \in Caller |-> Idle]
  /\ lastIn = [u \in User |-> IF Entitled(u, members) THEN 0 ELSE Never]
  /\ lastOut = [x \in User \X Allowed |->
                  IF RecognisedBy(x[1], x[2], members, installed, orgInstall)
                  THEN Never ELSE 0]

\* The latest moment of a step at which a condition held, if it held before
\* (was) or after it (is).
Latest(is, was, before) == IF is THEN now' ELSE IF was THEN now ELSE before

\* The history after a step.
Witness ==
  /\ lastIn' = [u \in User |->
       Latest(Entitled(u, members'), Entitled(u, members), lastIn[u])]
  /\ lastOut' = [x \in User \X Allowed |->
       Latest(~RecognisedBy(x[1], x[2], members', installed', orgInstall'),
              ~RecognisedBy(x[1], x[2], members, installed, orgInstall),
              lastOut[x])]

----------------------------------------------------------------------------
\* IsAllowed and checkOrgs, one action per critical section or GitHub call.

Enter(c, u) ==
  /\ call[c].pc = "idle"
  /\ call' = [call EXCEPT ![c] =
                [Idle EXCEPT !.pc = "lookup", !.user = u, !.at = now]]

\* Mutant of Hit: the comparison is the wrong way round for the boundary.
HitTooLong(d, at) == d.at # Never /\ at - d.at <= TTL

\* A decision younger than TTL when the caller entered answers it.
Hit(d, at) == d.at # Never /\ at - d.at < TTL

Lookup(c) ==
  /\ call[c].pc = "lookup"
  /\ LET d == cache[call[c].user]
     IN  call' = [call EXCEPT
                    ![c].pc = IF Hit(d, call[c].at) THEN "done" ELSE "check",
                    ![c].answer = Hit(d, call[c].at) /\ d.isMember]

\* An empty map is read again; a filled one never is.
Check(c) ==
  /\ call[c].pc = "check"
  /\ call' = [call EXCEPT ![c].pc = IF orgInstall = {} THEN "refresh" ELSE "copy"]

\* refreshInstallationsLocked(true) holds the mutex during the HTTP call, so
\* nobody sees the map between GitHub's answer and the assignment.
Refresh(c) ==
  /\ call[c].pc = "refresh"
  /\ orgInstall' = installed
  /\ call' = [call EXCEPT ![c].pc = "copy"]

\* The failure becomes a cached "no".
RefreshFails(c) ==
  /\ call[c].pc = "refresh"
  /\ call' = [call EXCEPT ![c].pc = "store"]
  /\ lastOut' = [x \in User \X Allowed |->
                   IF x[1] = call[c].user THEN now ELSE lastOut[x]]

Copy(c) ==
  /\ call[c].pc = "copy"
  /\ call' = [call EXCEPT ![c].pc = "ask", ![c].mapping = orgInstall, ![c].k = 1]

\* The answer about one entry of ALLOWED_ORGS: a "yes" ends the loop.
Answered(c, yes) ==
  call' = [call EXCEPT
             ![c].pc = IF yes \/ call[c].k = Len(AllowedOrgs)
                       THEN "store" ELSE "ask",
             ![c].k = @ + 1,
             ![c].answer = yes]

\* An entry is skipped without an installation, compared with the login if it
\* is a User's account, and else a question to GitHub.
Ask(c) ==
  /\ call[c].pc = "ask"
  /\ Answered(c, RecognisedBy(call[c].user, AllowedOrgs[call[c].k],
                              members, installed, call[c].mapping))

\* The question fails: an error, or a status other than 204, counts as "no".
AskFails(c) ==
  LET a == AllowedOrgs[call[c].k]
  IN  /\ call[c].pc = "ask"
      /\ a \in call[c].mapping \cap Org
      /\ Answered(c, FALSE)
      /\ lastOut' = [lastOut EXCEPT ![<<call[c].user, a>>] = now]

\* Mutant of StoredAt: the time is taken when the answer is there.
StoredLate(c) == now

\* The decision is as old as the call, not as the answer.
StoredAt(c) == call[c].at

Store(c) ==
  /\ call[c].pc = "store"
  /\ cache' = [cache EXCEPT ![call[c].user] =
                 [isMember |-> call[c].answer, at |-> StoredAt(c)]]
  /\ call' = [call EXCEPT ![c].pc = "done", ![c].mapping = {}, ![c].k = 0]

Leave(c) ==
  /\ call[c].pc = "done"
  /\ call' = [call EXCEPT ![c] = Idle]

\* A step of the checker.
CheckerStep(c) ==
  /\ \/ (Lookup(c) \/ Check(c) \/ Copy(c) \/ Ask(c)) /\ UNCHANGED <<orgInstall, cache>>
     \/ Refresh(c) /\ UNCHANGED cache
     \/ Store(c) /\ UNCHANGED orgInstall
  /\ UNCHANGED <<now, members, installed>>
  /\ Witness

\* A step in which a call to GitHub fails.
CheckerFault(c) ==
  /\ RefreshFails(c) \/ AskFails(c)
  /\ UNCHANGED <<now, members, installed, orgInstall, cache, lastIn>>

----------------------------------------------------------------------------
\* What happens outside the checker.

Tick == now < MaxTime /\ now' = now + 1 /\ UNCHANGED <<members, installed>>

\* Somebody joins or leaves an organisation; the App is installed on an
\* account or removed from it.
Change ==
  /\ \/ /\ \E x \in User \X Org : members' \in {members \cup {x}, members \ {x}}
        /\ UNCHANGED installed
     \/ /\ \E a \in Account : installed' \in {installed \cup {a}, installed \ {a}}
        /\ UNCHANGED members
  /\ UNCHANGED now

World ==
  /\ Tick \/ Change
  /\ UNCHANGED <<orgInstall, cache, call>>
  /\ Witness

\* The process is restarted (main.go: PrimeInstallations, whose failure is
\* only logged).
Restart ==
  /\ orgInstall' \in {installed, {}}
  /\ cache' = [u \in User |-> NoDecision]
  /\ call' = [c \in Caller |-> Idle]
  /\ UNCHANGED <<now, members, installed>>
  /\ Witness

EnterOrLeave(c) ==
  /\ Leave(c) \/ \E u \in User : Enter(c, u)
  /\ UNCHANGED <<now, members, installed, orgInstall, cache, lastIn, lastOut>>

MembershipNext ==
  \/ World
  \/ Restart
  \/ \E c \in Caller : EnterOrLeave(c) \/ CheckerStep(c) \/ CheckerFault(c)

MembershipSpec == MembershipInit /\ [][MembershipNext]_membershipVars

----------------------------------------------------------------------------
\* A user whom IsAllowed lets through was entitled less than TTL before the
\* call, in whatever order concurrent calls ask and store what they found
\* (docs/reference/api-tokens.md: "A user removed from every allowed org loses
\* token-based API access within that window").
RevocationWithinTTL ==
  \A c \in Caller :
    call[c].pc = "done" /\ call[c].answer
      => lastIn[call[c].user] > call[c].at - TTL

\* A user who is turned away was, less than TTL before the call, not to be
\* recognised by each of the entries, or GitHub failed to say so: a stale "no"
\* lasts no longer than a stale "yes".  (The entries are asked one after the
\* other, so somebody who moves from one organisation to another may be turned
\* away although at every moment one of them would have recognised him.)
DenialWithinTTL ==
  \A c \in Caller :
    call[c].pc = "done" /\ ~call[c].answer
      => \A a \in Allowed : lastOut[<<call[c].user, a>>] > call[c].at - TTL

\* The checker keeps the promise of MembershipPolicy, which sees of a call
\* only who asks, when, and what is answered.
AskedBy(k) ==
  [pc     |-> IF k.pc = "idle" THEN "idle"
              ELSE IF k.pc = "done" THEN "answered"
              ELSE "asked",
   user   |-> k.user,
   at     |-> k.at,
   answer |-> k.pc = "done" /\ k.answer]

Policy == INSTANCE MembershipPolicy
  WITH entitled <- {u \in User : Entitled(u, members)},
       asked <- [c \in Caller |-> AskedBy(call[c])]

ImplementsPolicy == Policy!PolicySpec

----------------------------------------------------------------------------
\* Why they hold.  The history is up to date.
HistoryInv ==
  /\ \A u \in User :
       /\ lastIn[u] <= now
       /\ Entitled(u, members) => lastIn[u] = now
  /\ \A u \in User, a \in Allowed :
       /\ lastOut[<<u, a>>] <= now
       /\ ~RecognisedBy(u, a, members, installed, orgInstall)
            => lastOut[<<u, a>>] = now

\* At some moment since at, u was entitled, or was not recognised by a.
InSince(u, at) == lastIn[u] >= at
OutSince(u, a, at) == lastOut[<<u, a>>] >= at

\* A cached decision was right at some time since it is dated.
CacheInv ==
  \A u \in User : cache[u].at # Never =>
    IF cache[u].isMember THEN InSince(u, cache[u].at)
    ELSE \A a \in Allowed : OutSince(u, a, cache[u].at)

\* A caller's answer is right at some time since it entered; and so it knows
\* of the accounts it has asked about, or will skip, that they did not
\* recognise the user at some time since.
CallerInv(c) ==
  /\ call[c].at <= now
  /\ call[c].answer => call[c].pc \in {"store", "done"}
  /\ call[c].pc = "store" =>
       IF call[c].answer THEN InSince(call[c].user, call[c].at)
       ELSE \A a \in Allowed : OutSince(call[c].user, a, call[c].at)
  /\ call[c].pc = "ask" =>
       \A j \in DOMAIN AllowedOrgs :
         j < call[c].k \/ AllowedOrgs[j] \notin call[c].mapping
           => OutSince(call[c].user, AllowedOrgs[j], call[c].at)

MembershipInv ==
  /\ HistoryInv
  /\ CacheInv
  /\ \A c \in Caller : CallerInv(c)
  /\ RevocationWithinTTL
  /\ DenialWithinTTL

=============================================================================
