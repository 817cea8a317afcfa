-------------------------- MODULE MembershipPolicy --------------------------
(***************************************************************************)
(* What auth.MembershipPolicy promises to the webhook and to the API:      *)
(* IsAllowed lets only users through who were entitled less than TTL       *)
(* before the call, and may always say no.  Membership shows that          *)
(* MembershipChecker keeps the promise; ApiAccess relies on it.            *)
(***************************************************************************)
EXTENDS Integers

CONSTANTS
  User,      \* GitHub logins that act through Billbird
  NoOne,     \* not a login
  Caller,    \* goroutines that may be inside IsAllowed
  TTL,       \* how long a decision may be remembered (5 minutes)
  MaxTime    \* bound: the clock stops here

ASSUME UserAssumption == NoOne \notin User
ASSUME TTLAssumption == TTL \in Nat \ {0}
ASSUME MaxTimeAssumption == MaxTime \in Nat

VARIABLES
  now,       \* the clock
  entitled,  \* GitHub: the members of an allowed organisation and the owners
             \* of allowed accounts
  lastIn,    \* history: when a user was last entitled
  asked      \* the goroutines inside IsAllowed

policyVars == <<now, entitled, lastIn, asked>>

Never == -1
Time == 0 .. MaxTime

Question == [pc     : {"idle", "asked", "answered"},
             user   : User \cup {NoOne},
             at     : Time \cup {Never},
             answer : BOOLEAN]
Idle == [pc |-> "idle", user |-> NoOne, at |-> Never, answer |-> FALSE]

PolicyTypeOK ==
  /\ now \in Time
  /\ entitled \subseteq User
  /\ lastIn \in [User -> Time \cup {Never}]
  /\ asked \in [Caller -> Question]

PolicyInit ==
  /\ now = 0
  /\ entitled \in SUBSET User
  /\ lastIn = [u \in User |-> IF u \in entitled THEN 0 ELSE Never]
  /\ asked = [c \in Caller |-> Idle]

Ask(c, u) ==
  /\ asked[c].pc = "idle"
  /\ asked' = [asked EXCEPT ![c] =
                 [pc |-> "asked", user |-> u, at |-> now, answer |-> FALSE]]

Answer(c, yes) ==
  /\ asked[c].pc = "asked"
  /\ yes => lastIn[asked[c].user] > asked[c].at - TTL
  /\ asked' = [asked EXCEPT ![c] =
                 [pc |-> "answered", user |-> asked[c].user, at |-> asked[c].at,
                  answer |-> yes]]

Leave(c) ==
  /\ asked[c].pc = "answered"
  /\ asked' = [asked EXCEPT ![c] = Idle]

\* Time passes, or somebody becomes entitled or ceases to be.
World ==
  /\ \/ now < MaxTime /\ now' = now + 1 /\ UNCHANGED entitled
     \/ entitled' \in SUBSET User /\ UNCHANGED now
  /\ lastIn' = [u \in User |-> IF u \in entitled' THEN now'
                               ELSE IF u \in entitled THEN now
                               ELSE lastIn[u]]
  /\ UNCHANGED asked

Restart ==
  /\ asked' = [c \in Caller |-> Idle]
  /\ UNCHANGED <<now, entitled, lastIn>>

PolicyNext ==
  \/ World
  \/ Restart
  \/ /\ \E c \in Caller : \/ \E u \in User : Ask(c, u)
                          \/ \E yes \in BOOLEAN : Answer(c, yes)
                          \/ Leave(c)
     /\ UNCHANGED <<now, entitled, lastIn>>

PolicySpec == PolicyInit /\ [][PolicyNext]_policyVars

=============================================================================
