--------------------------- MODULE MembershipProofs -------------------------
(***************************************************************************)
(* For any users, organisations, callers and TTL: a stale yes and a stale  *)
(* no of MembershipChecker both last less than TTL, and the checker keeps  *)
(* the promise of MembershipPolicy.                                        *)
(***************************************************************************)
EXTENDS Membership, TLAPS

\* The assumptions about the constants, in the form the provers need.
LEMMA Constants ==
  /\ AllowedOrgs \in Seq(Allowed)
  /\ Len(AllowedOrgs) \in Nat \ {0}
  /\ DOMAIN AllowedOrgs = 1 .. Len(AllowedOrgs)
  /\ \A j \in DOMAIN AllowedOrgs : AllowedOrgs[j] \in Allowed
  /\ Allowed \subseteq Account /\ Org \subseteq Account
  /\ TTL \in Nat /\ TTL > 0
  /\ MaxTime \in Nat
  /\ NoOne \notin User
<1>1. AllowedOrgs \in Seq(Allowed) /\ AllowedOrgs # <<>>
  BY AllowedAssumption
<1> QED
  BY <1>1, TTLAssumption, MaxTimeAssumption, LoginsAssumption DEF Allowed, Account

\* Everybody who may be asked about is in ALLOWED_ORGS.
LEMMA AllowedIsListed ==
  \A a \in Allowed : \E j \in DOMAIN AllowedOrgs : a = AllowedOrgs[j]
BY DEF Allowed

\* Whoever is recognised is entitled.
LEMMA RecognisedIsEntitled ==
  ASSUME NEW u, NEW a \in Allowed, NEW mem, NEW inst, NEW map,
         RecognisedBy(u, a, mem, inst, map)
  PROVE  Entitled(u, mem)
BY DEF RecognisedBy, Entitled

----------------------------------------------------------------------------
\* Types.

LEMMA InitType == MembershipInit => MembershipTypeOK
BY Constants
   DEF MembershipInit, MembershipTypeOK, Decision, NoDecision, Call, Idle, Time,
       Never

\* The history stays typed when it is brought up to date.
LEMMA WitnessType ==
  ASSUME MembershipTypeOK, now' \in Time, Witness
  PROVE  /\ lastIn' \in [User -> Time \cup {Never}]
         /\ lastOut' \in [User \X Allowed -> Time \cup {Never}]
BY DEF MembershipTypeOK, Witness, Latest

\* What every action does to the locals: they stay typed.
CallTypeOK ==
  /\ call \in [Caller -> Call]
  /\ \A c \in Caller :
       /\ call[c].pc # "idle" => call[c].user \in User /\ call[c].at \in Time
       /\ call[c].pc = "ask" => call[c].k \in DOMAIN AllowedOrgs

LEMMA AnsweredType ==
  ASSUME MembershipTypeOK, NEW c \in Caller, call[c].pc = "ask",
         NEW yes \in BOOLEAN, Answered(c, yes)
  PROVE  CallTypeOK'
<1>1. call[c].k + 1 \in Nat
  BY Constants DEF MembershipTypeOK
<1>2. call' \in [Caller -> Call]
  BY <1>1 DEF MembershipTypeOK, Answered, Call
<1>3. \A d \in Caller \ {c} : call'[d] = call[d]
  BY DEF Answered, MembershipTypeOK
<1>4. /\ call'[c].pc \in {"ask", "store"}
      /\ call'[c].user = call[c].user /\ call'[c].at = call[c].at
      /\ call'[c].pc = "ask" => call[c].k # Len(AllowedOrgs)
      /\ call'[c].k = call[c].k + 1
  BY DEF Answered, MembershipTypeOK, Call
<1>5. call'[c].pc = "ask" => call'[c].k \in DOMAIN AllowedOrgs
  BY <1>4, Constants DEF MembershipTypeOK
<1> QED
  BY <1>2, <1>3, <1>4, <1>5 DEF CallTypeOK, MembershipTypeOK

LEMMA CallType ==
  ASSUME MembershipTypeOK, NEW c \in Caller,
         \/ EnterOrLeave(c) \/ CheckerStep(c) \/ CheckerFault(c)
  PROVE  CallTypeOK'
<1> USE DEF MembershipTypeOK, CallTypeOK, Call
<1>1. ASSUME NEW u \in User, Enter(c, u) PROVE CallTypeOK'
  BY <1>1 DEF Enter, Idle
<1>2. CASE Leave(c)
  BY <1>2 DEF Leave, Idle, Never
<1>3. CASE Lookup(c)
  <2> DEFINE d == cache[call[c].user]
             hit == Hit(d, call[c].at)
             yes == hit /\ d.isMember
  <2>1. d.isMember \in BOOLEAN
    BY <1>3 DEF Lookup, Decision
  <2> DEFINE pc == IF hit THEN "done" ELSE "check"
  <2>2. yes \in BOOLEAN /\ pc \in {"done", "check"}
    BY <2>1 DEF Hit
  <2>3. call' = [call EXCEPT ![c].pc = pc, ![c].answer = yes]
    BY <1>3 DEF Lookup
  <2> HIDE DEF hit, yes, pc
  <2>4. call' \in [Caller -> Call]
    <3>1. [call[c] EXCEPT !.pc = pc, !.answer = yes] \in Call
      BY <2>2
    <3> QED
      BY <2>3, <3>1
  <2>5. /\ \A e \in Caller \ {c} : call'[e] = call[e]
        /\ call'[c].pc \in {"done", "check"}
        /\ call'[c].user = call[c].user /\ call'[c].at = call[c].at
    BY <2>2, <2>3
  <2>6. call[c].pc = "lookup"
    BY <1>3 DEF Lookup
  <2> QED
    BY <2>4, <2>5, <2>6
<1>4. CASE Check(c)
  BY <1>4 DEF Check
<1>5. CASE Refresh(c)
  BY <1>5 DEF Refresh
<1>6. CASE RefreshFails(c)
  <2>1. call' = [call EXCEPT ![c].pc = "store"] /\ call[c].pc = "refresh"
    BY <1>6 DEF RefreshFails
  <2> QED
    BY <2>1
<1>7. CASE Copy(c)
  <2>1. call' \in [Caller -> Call]
    <3>1. [call[c] EXCEPT !.pc = "ask", !.mapping = orgInstall, !.k = 1] \in Call
      OBVIOUS
    <3> QED
      BY <1>7, <3>1 DEF Copy
  <2>2. /\ \A e \in Caller \ {c} : call'[e] = call[e]
        /\ call[c].pc = "copy" /\ call'[c].k = 1
        /\ call'[c].user = call[c].user /\ call'[c].at = call[c].at
    BY <1>7 DEF Copy
  <2>3. 1 \in DOMAIN AllowedOrgs
    BY Constants
  <2> QED
    BY <2>1, <2>2, <2>3
<1>8. CASE Ask(c) \/ AskFails(c)
  BY <1>8, AnsweredType DEF Ask, AskFails, RecognisedBy
<1>9. CASE Store(c)
  <2>1. call' \in [Caller -> Call]
    <3>1. [call[c] EXCEPT !.pc = "done", !.mapping = {}, !.k = 0] \in Call
      OBVIOUS
    <3> QED
      BY <1>9, <3>1 DEF Store
  <2>2. /\ \A e \in Caller \ {c} : call'[e] = call[e]
        /\ call[c].pc = "store" /\ call'[c].pc = "done"
        /\ call'[c].user = call[c].user /\ call'[c].at = call[c].at
    BY <1>9 DEF Store
  <2> QED
    BY <2>1, <2>2
<1> QED
  BY <1>1, <1>2, <1>3, <1>4, <1>5, <1>6, <1>7, <1>8, <1>9
     DEF EnterOrLeave, CheckerStep, CheckerFault

LEMMA TypeStep ==
  MembershipTypeOK /\ [MembershipNext]_membershipVars => MembershipTypeOK'
<1> SUFFICES ASSUME MembershipTypeOK, [MembershipNext]_membershipVars
             PROVE  MembershipTypeOK'
  OBVIOUS
<1>1. CASE World
  <2>1. now' \in Time
    BY <1>1, Constants DEF World, Tick, Change, Time, MembershipTypeOK
  <2>2. members' \subseteq User \X Org /\ installed' \subseteq Account
    BY <1>1 DEF World, Tick, Change, MembershipTypeOK
  <2> QED
    BY <1>1, <2>1, <2>2, WitnessType DEF World, MembershipTypeOK
<1>2. CASE Restart
  BY <1>2, WitnessType, Constants
     DEF Restart, MembershipTypeOK, Decision, NoDecision, Call, Idle, Never
<1>3. ASSUME NEW c \in Caller, EnterOrLeave(c) PROVE MembershipTypeOK'
  BY <1>3, CallType DEF EnterOrLeave, CallTypeOK, MembershipTypeOK
<1>4. ASSUME NEW c \in Caller, CheckerStep(c) PROVE MembershipTypeOK'
  <2>1. CallTypeOK'
    BY <1>4, CallType
  <2>2. orgInstall' \subseteq Account
    BY <1>4 DEF CheckerStep, Refresh, MembershipTypeOK
  <2>3. cache' \in [User -> Decision]
    <3>1. CASE Store(c)
      <4>1. [isMember |-> call[c].answer, at |-> call[c].at] \in Decision
        BY DEF Decision, Call, MembershipTypeOK
      <4> QED
        BY <3>1, <4>1 DEF Store, StoredAt, MembershipTypeOK
    <3>2. CASE UNCHANGED cache
      BY <3>2 DEF MembershipTypeOK
    <3> QED
      BY <1>4, <3>1, <3>2 DEF CheckerStep
  <2> QED
    BY <1>4, <2>1, <2>2, <2>3, WitnessType
       DEF CheckerStep, CallTypeOK, MembershipTypeOK
<1>5. ASSUME NEW c \in Caller, CheckerFault(c) PROVE MembershipTypeOK'
  <2>1. CallTypeOK'
    BY <1>5, CallType
  <2>2. lastOut' \in [User \X Allowed -> Time \cup {Never}]
    BY <1>5 DEF CheckerFault, RefreshFails, AskFails, MembershipTypeOK
  <2> QED
    BY <1>5, <2>1, <2>2 DEF CheckerFault, CallTypeOK, MembershipTypeOK
<1>6. CASE UNCHANGED membershipVars
  BY <1>6 DEF membershipVars, MembershipTypeOK
<1> QED
  BY <1>1, <1>2, <1>3, <1>4, <1>5, <1>6 DEF MembershipNext

----------------------------------------------------------------------------
\* The history.

\* Time does not go back, and nor does what the history records.
Onward ==
  /\ now <= now'
  /\ \A u \in User : lastIn[u] <= lastIn'[u]
  /\ \A u \in User, a \in Allowed : lastOut[<<u, a>>] <= lastOut'[<<u, a>>]

\* All times are integers.
LEMMA Integral ==
  ASSUME MembershipTypeOK
  PROVE  /\ now \in Int
         /\ \A u \in User : lastIn[u] \in Int /\ cache[u].at \in Int
         /\ \A u \in User, a \in Allowed : lastOut[<<u, a>>] \in Int
         /\ \A c \in Caller : call[c].at \in Int
BY Constants DEF MembershipTypeOK, Decision, Call, Time, Never

\* The history of one user, before and after a step.
LEMMA UserHistory ==
  ASSUME MembershipTypeOK, MembershipTypeOK', Onward, NEW u \in User
  PROVE  /\ lastIn[u] \in Int /\ lastIn'[u] \in Int /\ lastIn[u] <= lastIn'[u]
         /\ \A a \in Allowed : /\ lastOut[<<u, a>>] \in Int
                              /\ lastOut'[<<u, a>>] \in Int
                              /\ lastOut[<<u, a>>] <= lastOut'[<<u, a>>]
<1>1. lastIn'[u] \in Int /\ \A a \in Allowed : lastOut'[<<u, a>>] \in Int
  BY Constants DEF MembershipTypeOK, Time, Never
<1> QED
  BY <1>1, Integral DEF Onward

LEMMA WitnessStep ==
  ASSUME MembershipTypeOK, MembershipTypeOK', HistoryInv, Witness, now <= now'
  PROVE  HistoryInv' /\ Onward
<1>1. ASSUME NEW u \in User
      PROVE  /\ lastIn[u] <= lastIn'[u] /\ lastIn'[u] <= now'
             /\ Entitled(u, members') => lastIn'[u] = now'
  <2> DEFINE is == Entitled(u, members')
             was == Entitled(u, members)
  <2>1. lastIn'[u] = IF is THEN now' ELSE IF was THEN now ELSE lastIn[u]
    BY Zenon DEF Witness, Latest
  <2>2. lastIn[u] <= now
    BY DEF HistoryInv
  <2>3. lastIn[u] \in Int /\ now \in Int /\ now' \in Int
    BY Integral, Constants DEF MembershipTypeOK, Time
  <2> HIDE DEF is, was
  <2>4. lastIn[u] <= lastIn'[u] /\ lastIn'[u] <= now' /\ (is => lastIn'[u] = now')
    BY <2>1, <2>2, <2>3
  <2> QED
    BY <2>4 DEF is
<1>2. ASSUME NEW u \in User, NEW a \in Allowed
      PROVE  /\ lastOut[<<u, a>>] <= lastOut'[<<u, a>>]
             /\ lastOut'[<<u, a>>] <= now'
             /\ ~RecognisedBy(u, a, members', installed', orgInstall')
                  => lastOut'[<<u, a>>] = now'
  <2> DEFINE x == <<u, a>>
             is == ~RecognisedBy(u, a, members', installed', orgInstall')
             was == ~RecognisedBy(u, a, members, installed, orgInstall)
  <2>1. x \in User \X Allowed /\ x[1] = u /\ x[2] = a
    OBVIOUS
  <2>2. lastOut'[x] = IF is THEN now' ELSE IF was THEN now ELSE lastOut[x]
    BY <2>1, Zenon DEF Witness, Latest
  <2>3. lastOut[x] <= now /\ (was => lastOut[x] = now)
    BY DEF HistoryInv
  <2>4. lastOut[x] \in Int /\ now \in Int /\ now' \in Int
    BY Integral, Constants DEF MembershipTypeOK, Time
  <2> HIDE DEF x, is, was
  <2>5. lastOut[x] <= lastOut'[x] /\ lastOut'[x] <= now' /\ (is => lastOut'[x] = now')
    BY <2>2, <2>3, <2>4
  <2> QED
    BY <2>5 DEF x, is
<1> QED
  BY <1>1, <1>2 DEF HistoryInv, Onward

\* A failed call to GitHub counts as not being recognised.
LEMMA FaultStep ==
  ASSUME MembershipTypeOK, MembershipTypeOK', HistoryInv, NEW c \in Caller,
         CheckerFault(c)
  PROVE  HistoryInv' /\ Onward
<1>1. \A x \in User \X Allowed : lastOut'[x] \in {lastOut[x], now}
  BY DEF CheckerFault, RefreshFails, AskFails, MembershipTypeOK
<1>2. UNCHANGED <<now, members, installed, orgInstall, lastIn>>
  BY DEF CheckerFault
<1>3. \A u \in User, a \in Allowed : lastOut'[<<u, a>>] \in {lastOut[<<u, a>>], now}
  BY <1>1
<1> QED
  BY <1>2, <1>3, Integral DEF HistoryInv, Onward

LEMMA HistoryStep ==
  ASSUME MembershipTypeOK, MembershipTypeOK', HistoryInv,
         [MembershipNext]_membershipVars
  PROVE  HistoryInv' /\ Onward
<1>1. CASE World
  BY <1>1, WitnessStep, Integral DEF World, Tick, Change
<1>2. CASE Restart
  BY <1>2, WitnessStep, Integral DEF Restart
<1>3. ASSUME NEW c \in Caller, EnterOrLeave(c) PROVE HistoryInv' /\ Onward
  BY <1>3, Integral DEF EnterOrLeave, HistoryInv, Onward
<1>4. ASSUME NEW c \in Caller, CheckerStep(c) PROVE HistoryInv' /\ Onward
  BY <1>4, WitnessStep, Integral DEF CheckerStep
<1>5. ASSUME NEW c \in Caller, CheckerFault(c) PROVE HistoryInv' /\ Onward
  BY <1>5, FaultStep
<1>6. CASE UNCHANGED membershipVars
  BY <1>6, Integral DEF membershipVars, HistoryInv, Onward
<1> QED
  BY <1>1, <1>2, <1>3, <1>4, <1>5, <1>6 DEF MembershipNext

----------------------------------------------------------------------------
\* The answers.

\* What the two properties say of one caller.
AnswerInv(c) ==
  call[c].pc = "done" =>
    IF call[c].answer THEN lastIn[call[c].user] > call[c].at - TTL
    ELSE \A a \in Allowed : lastOut[<<call[c].user, a>>] > call[c].at - TTL

LEMMA Answers ==
  ASSUME MembershipTypeOK
  PROVE  RevocationWithinTTL /\ DenialWithinTTL <=> \A c \in Caller : AnswerInv(c)
BY DEF RevocationWithinTTL, DenialWithinTTL, AnswerInv

\* A caller that does nothing loses nothing.
LEMMA OthersKeep ==
  ASSUME MembershipTypeOK, MembershipTypeOK', Onward, NEW d \in Caller,
         call'[d] = call[d], CallerInv(d), AnswerInv(d)
  PROVE  CallerInv(d)' /\ AnswerInv(d)'
<1>1. CASE call[d].pc = "idle"
  BY <1>1, Integral, Constants DEF CallerInv, AnswerInv, Onward, MembershipTypeOK, Time
<1>2. CASE call[d].pc # "idle"
  <2> DEFINE u == call[d].user
             at == call[d].at
  <2>1. u \in User /\ at \in Int /\ now \in Int /\ now' \in Int
    BY <1>2, Constants DEF MembershipTypeOK, Time
  <2>2. /\ lastIn[u] \in Int /\ lastIn'[u] \in Int /\ lastIn[u] <= lastIn'[u]
        /\ \A a \in Allowed : /\ lastOut[<<u, a>>] \in Int
                             /\ lastOut'[<<u, a>>] \in Int
                             /\ lastOut[<<u, a>>] <= lastOut'[<<u, a>>]
    BY <2>1, UserHistory
  <2>3. \A j \in DOMAIN AllowedOrgs : AllowedOrgs[j] \in Allowed
    BY Constants
  <2> HIDE DEF u, at
  <2>4. now <= now' /\ TTL \in Int
    BY Constants DEF Onward
  <2>5. CallerInv(d)'
    BY <2>1, <2>2, <2>3, <2>4 DEF CallerInv, InSince, OutSince, u, at
  <2>6. AnswerInv(d)'
    BY <2>1, <2>2, <2>4 DEF AnswerInv, u, at
  <2> QED
    BY <2>5, <2>6
<1> QED
  BY <1>1, <1>2

\* So does the cache.
CachedInv(u) ==
  cache[u].at # Never =>
    IF cache[u].isMember THEN InSince(u, cache[u].at)
    ELSE \A a \in Allowed : OutSince(u, a, cache[u].at)

LEMMA CacheKeeps ==
  ASSUME MembershipTypeOK, MembershipTypeOK', Onward, NEW u \in User,
         cache'[u] = cache[u], CachedInv(u)
  PROVE  CachedInv(u)'
<1> DEFINE at == cache[u].at
<1>1. /\ at \in Int
      /\ lastIn[u] \in Int /\ lastIn'[u] \in Int /\ lastIn[u] <= lastIn'[u]
      /\ \A a \in Allowed : /\ lastOut[<<u, a>>] \in Int
                           /\ lastOut'[<<u, a>>] \in Int
                           /\ lastOut[<<u, a>>] <= lastOut'[<<u, a>>]
  BY Integral, UserHistory
<1> QED
  BY <1>1 DEF CachedInv, InSince, OutSince

\* What one step of a caller has to show of that caller.
Told(c) == CallerInv(c) /\ AnswerInv(c)

LEMMA EnterOrLeaveTold ==
  ASSUME MembershipTypeOK, MembershipTypeOK', NEW c \in Caller, EnterOrLeave(c)
  PROVE  Told(c)'
<1>1. ASSUME NEW u \in User, Enter(c, u) PROVE Told(c)'
  <2>1. /\ call'[c].pc = "lookup" /\ call'[c].at = now
        /\ call'[c].answer = FALSE /\ now' = now
    BY <1>1 DEF EnterOrLeave, Enter, Idle, MembershipTypeOK
  <2> QED
    BY <2>1, Integral DEF Told, CallerInv, AnswerInv
<1>2. CASE Leave(c)
  BY <1>2, Integral, Constants
     DEF Told, CallerInv, AnswerInv, EnterOrLeave, Leave, Idle, MembershipTypeOK,
         Time, Never
<1> QED
  BY <1>1, <1>2 DEF EnterOrLeave

\* A cached decision that is not yet TTL old when the caller enters was right
\* less than TTL before.
LEMMA LookupTold ==
  ASSUME MembershipTypeOK, MembershipTypeOK', Onward, CacheInv, NEW c \in Caller,
         CallerInv(c), Lookup(c), UNCHANGED now
  PROVE  Told(c)'
<1> DEFINE u == call[c].user
           at == call[c].at
           d == cache[u]
<1>1. /\ call[c].pc = "lookup" /\ u \in User /\ at \in Int /\ at <= now
      /\ d.at \in Int /\ TTL \in Int
      /\ lastIn'[u] \in Int /\ lastIn[u] \in Int /\ lastIn[u] <= lastIn'[u]
      /\ \A a \in Allowed : /\ lastOut[<<u, a>>] \in Int
                           /\ lastOut'[<<u, a>>] \in Int
                           /\ lastOut[<<u, a>>] <= lastOut'[<<u, a>>]
  <2>1. call[c].pc = "lookup" /\ u \in User
    BY DEF Lookup, MembershipTypeOK
  <2>2. at \in Int /\ d.at \in Int /\ TTL \in Int /\ at <= now
    BY <2>1, Integral, Constants DEF CallerInv
  <2> HIDE DEF u
  <2> QED
    BY <2>1, <2>2, UserHistory
<1>2. /\ call'[c].user = u /\ call'[c].at = at
      /\ call'[c].pc = IF Hit(d, at) THEN "done" ELSE "check"
      /\ call'[c].answer = (Hit(d, at) /\ d.isMember)
  <2>1. d.isMember \in BOOLEAN /\ Hit(d, at) \in BOOLEAN
    BY <1>1 DEF Hit, MembershipTypeOK, Decision
  <2>2. call' = [call EXCEPT ![c].pc = IF Hit(d, at) THEN "done" ELSE "check",
                             ![c].answer = Hit(d, at) /\ d.isMember]
    BY DEF Lookup
  <2> HIDE DEF d
  <2> QED
    BY <2>1, <2>2 DEF MembershipTypeOK, Call
<1>3. Hit(d, at) => /\ d.isMember => InSince(u, d.at)
                    /\ ~d.isMember => \A a \in Allowed : OutSince(u, a, d.at)
  BY <1>1 DEF CacheInv, Hit
<1> HIDE DEF u, at, d
<1>4. CallerInv(c)'
  BY <1>1, <1>2 DEF CallerInv
<1>5. AnswerInv(c)'
  <2>1. CASE ~Hit(d, at)
    BY <1>2, <2>1 DEF AnswerInv
  <2>2. CASE Hit(d, at) /\ d.isMember
    <3>1. call'[c].answer
      BY <1>2, <2>2
    <3>2. lastIn'[u] > at - TTL
      BY <1>1, <1>3, <2>2 DEF InSince, Hit
    <3> QED
      BY <1>2, <3>1, <3>2 DEF AnswerInv
  <2>3. CASE Hit(d, at) /\ ~d.isMember
    <3>1. ~call'[c].answer
      BY <1>2, <2>3
    <3>2. \A a \in Allowed : lastOut'[<<u, a>>] > at - TTL
      BY <1>1, <1>3, <2>3 DEF OutSince, Hit
    <3> QED
      BY <1>2, <3>1, <3>2 DEF AnswerInv
  <2> QED
    BY <2>1, <2>2, <2>3
<1> QED
  BY <1>4, <1>5 DEF Told

\* Between a miss and the questions there is no answer yet.
LEMMA NoAnswerTold ==
  ASSUME MembershipTypeOK, MembershipTypeOK', NEW c \in Caller, CallerInv(c),
         Check(c) \/ Refresh(c), UNCHANGED now
  PROVE  Told(c)'
<1>1. /\ call'[c].pc \in {"refresh", "copy"} /\ ~call[c].answer
      /\ call'[c].answer = call[c].answer /\ call'[c].at = call[c].at
  <2>1. call[c].pc \in {"check", "refresh"}
    BY DEF Check, Refresh
  <2>2. ~call[c].answer
    BY <2>1 DEF CallerInv
  <2>3. CASE Check(c)
    BY <2>2, <2>3 DEF Check, MembershipTypeOK
  <2>4. CASE Refresh(c)
    BY <2>2, <2>4 DEF Refresh, MembershipTypeOK
  <2> QED
    BY <2>3, <2>4
<1> QED
  BY <1>1 DEF Told, CallerInv, AnswerInv

\* A failed refresh counts as not being recognised by anybody.
LEMMA RefreshFailsTold ==
  ASSUME MembershipTypeOK, MembershipTypeOK', NEW c \in Caller, CallerInv(c),
         RefreshFails(c), UNCHANGED now
  PROVE  Told(c)'
<1>1. /\ call'[c].pc = "store" /\ ~call'[c].answer
      /\ call'[c].at = call[c].at /\ call'[c].user = call[c].user
      /\ call[c].at <= now /\ call[c].user \in User
  BY DEF CallerInv, RefreshFails, MembershipTypeOK
<1>2. \A a \in Allowed : lastOut'[<<call[c].user, a>>] = now
  BY <1>1 DEF RefreshFails
<1> QED
  BY <1>1, <1>2 DEF Told, CallerInv, AnswerInv, OutSince

\* What the copy of the map lacks is not recognised at that moment.
LEMMA CopyTold ==
  ASSUME MembershipTypeOK, MembershipTypeOK', Onward, HistoryInv,
         NEW c \in Caller, CallerInv(c), Copy(c), UNCHANGED now
  PROVE  Told(c)'
<1> DEFINE u == call[c].user
           at == call[c].at
<1>1. /\ call'[c].pc = "ask" /\ ~call'[c].answer /\ call'[c].k = 1
      /\ call'[c].mapping = orgInstall /\ call'[c].at = at /\ call'[c].user = u
      /\ at <= now /\ u \in User
  BY DEF CallerInv, Copy, MembershipTypeOK
<1>2. ASSUME NEW a \in Allowed, a \notin orgInstall
      PROVE  lastOut'[<<u, a>>] >= at
  <2>1. lastOut[<<u, a>>] = now
    BY <1>1, <1>2 DEF HistoryInv, RecognisedBy
  <2>2. lastOut[<<u, a>>] <= lastOut'[<<u, a>>]
    BY <1>1 DEF Onward
  <2>3. lastOut'[<<u, a>>] \in Int /\ at \in Int /\ now \in Int
    BY <1>1, Integral, Constants DEF MembershipTypeOK, Time, Never
  <2> QED
    BY <1>1, <2>1, <2>2, <2>3
<1> HIDE DEF u, at
<1>3. CallerInv(c)'
  BY <1>1, <1>2, Constants DEF CallerInv, OutSince
<1> QED
  BY <1>1, <1>3 DEF Told, AnswerInv

\* A question that is answered truly, or that is counted as a no.
LEMMA AnsweredTold ==
  ASSUME MembershipTypeOK, MembershipTypeOK', Onward,
         NEW c \in Caller, CallerInv(c), call[c].pc = "ask", UNCHANGED now,
         NEW yes \in BOOLEAN, Answered(c, yes),
         yes => lastIn'[call[c].user] >= call[c].at,
         ~yes => lastOut'[<<call[c].user, AllowedOrgs[call[c].k]>>] >= call[c].at
  PROVE  Told(c)'
<1> DEFINE u == call[c].user
           at == call[c].at
           k == call[c].k
<1>1. /\ u \in User /\ at \in Int /\ at <= now /\ k \in DOMAIN AllowedOrgs
  BY Constants DEF CallerInv, MembershipTypeOK, Time
<1>2. /\ call'[c].pc = IF yes \/ k = Len(AllowedOrgs) THEN "store" ELSE "ask"
      /\ call'[c].k = k + 1 /\ call'[c].answer = yes
      /\ call'[c].mapping = call[c].mapping
      /\ call'[c].user = u /\ call'[c].at = at
  <2> DEFINE pc == IF yes \/ k = Len(AllowedOrgs) THEN "store" ELSE "ask"
  <2>1. call' = [call EXCEPT ![c].pc = pc, ![c].k = @ + 1, ![c].answer = yes]
    BY DEF Answered
  <2> HIDE DEF pc
  <2>2. /\ call'[c].pc = pc /\ call'[c].k = k + 1 /\ call'[c].answer = yes
        /\ call'[c].mapping = call[c].mapping
        /\ call'[c].user = u /\ call'[c].at = at
    BY <2>1 DEF MembershipTypeOK, Call
  <2> QED
    BY <2>2 DEF pc
<1>3. ASSUME ~yes, NEW j \in DOMAIN AllowedOrgs,
             j <= k \/ AllowedOrgs[j] \notin call[c].mapping
      PROVE  lastOut'[<<u, AllowedOrgs[j]>>] >= at
  <2>1. CASE j = k
    BY <1>3, <2>1
  <2>2. CASE j # k
    <3>1. lastOut[<<u, AllowedOrgs[j]>>] >= at
      BY <1>1, <1>3, <2>2, Constants DEF CallerInv, OutSince
    <3>2. AllowedOrgs[j] \in Allowed
      BY Constants
    <3>3. /\ lastOut[<<u, AllowedOrgs[j]>>] <= lastOut'[<<u, AllowedOrgs[j]>>]
          /\ lastOut[<<u, AllowedOrgs[j]>>] \in Int
          /\ lastOut'[<<u, AllowedOrgs[j]>>] \in Int
      BY <1>1, <3>2, Integral, Constants DEF Onward, MembershipTypeOK, Time, Never
    <3> QED
      BY <1>1, <3>1, <3>3
  <2> QED
    BY <2>1, <2>2
<1> HIDE DEF u, at, k
<1>4. CASE yes
  <2>1. call'[c].pc = "store" /\ call'[c].answer /\ lastIn'[u] >= at
    BY <1>2, <1>4 DEF u, at
  <2> QED
    BY <1>1, <1>2, <2>1 DEF Told, CallerInv, AnswerInv, InSince
<1>5. CASE ~yes /\ k = Len(AllowedOrgs)
  <2>1. call'[c].pc = "store" /\ ~call'[c].answer
    BY <1>2, <1>5
  <2>2. \A a \in Allowed : lastOut'[<<u, a>>] >= at
    BY <1>3, <1>5, AllowedIsListed, Constants
  <2> QED
    BY <1>1, <1>2, <2>1, <2>2 DEF Told, CallerInv, AnswerInv, OutSince
<1>6. CASE ~yes /\ k # Len(AllowedOrgs)
  <2>1. call'[c].pc = "ask" /\ ~call'[c].answer
    BY <1>2, <1>6
  <2>2. \A j \in DOMAIN AllowedOrgs :
          j < k + 1 \/ AllowedOrgs[j] \notin call[c].mapping
            => lastOut'[<<u, AllowedOrgs[j]>>] >= at
    BY <1>1, <1>3, <1>6, Constants
  <2> QED
    BY <1>1, <1>2, <2>1, <2>2 DEF Told, CallerInv, AnswerInv, OutSince
<1> QED
  BY <1>4, <1>5, <1>6

\* GitHub answers: whom it recognises is entitled at that moment; and whom it
\* does not recognise, although the map has the account, is not recognised
\* by a caller with the latest map either.
LEMMA AskTold ==
  ASSUME MembershipTypeOK, MembershipTypeOK', HistoryInv, Onward,
         NEW c \in Caller, CallerInv(c), Ask(c), UNCHANGED now
  PROVE  Told(c)'
<1> DEFINE u == call[c].user
           at == call[c].at
           a == AllowedOrgs[call[c].k]
           yes == RecognisedBy(u, a, members, installed, call[c].mapping)
<1>1. /\ call[c].pc = "ask" /\ u \in User /\ a \in Allowed
      /\ at \in Int /\ now \in Int /\ at <= now
      /\ lastIn'[u] \in Int /\ lastIn[u] <= lastIn'[u]
      /\ lastOut'[<<u, a>>] \in Int /\ lastOut[<<u, a>>] \in Int
      /\ lastOut[<<u, a>>] <= lastOut'[<<u, a>>]
  <2>1. call[c].pc = "ask" /\ u \in User /\ a \in Allowed
    BY Constants DEF Ask, MembershipTypeOK
  <2> HIDE DEF a
  <2>2. at \in Int /\ now \in Int /\ at <= now
    BY <2>1, Integral DEF CallerInv
  <2> HIDE DEF u
  <2> QED
    BY <2>1, <2>2, UserHistory
<1>2. Answered(c, yes) /\ yes \in BOOLEAN
  BY DEF Ask, RecognisedBy
<1>3. yes => lastIn'[u] >= at
  <2>1. yes => Entitled(u, members)
    BY <1>1 DEF RecognisedBy, Entitled
  <2>2. yes => lastIn[u] = now
    BY <1>1, <2>1 DEF HistoryInv
  <2> HIDE DEF a, yes
  <2> QED
    BY <1>1, <2>2
<1>4. ~yes => lastOut'[<<u, a>>] >= at
  <2>1. CASE a \notin call[c].mapping
    <3>1. lastOut[<<u, a>>] >= at
      BY <1>1, <2>1 DEF CallerInv, OutSince, MembershipTypeOK
    <3> HIDE DEF a
    <3> QED
      BY <1>1, <3>1
  <2>2. CASE a \in call[c].mapping
    <3>1. ~yes => ~RecognisedBy(u, a, members, installed, orgInstall)
      BY <2>2 DEF RecognisedBy
    <3>2. ~yes => lastOut[<<u, a>>] = now
      BY <1>1, <3>1 DEF HistoryInv
    <3> HIDE DEF a, yes
    <3> QED
      BY <1>1, <3>2
  <2> QED
    BY <2>1, <2>2
<1> HIDE DEF yes
<1> QED
  BY <1>1, <1>2, <1>3, <1>4, AnsweredTold

LEMMA AskFailsTold ==
  ASSUME MembershipTypeOK, MembershipTypeOK', HistoryInv, Onward,
         NEW c \in Caller, CallerInv(c), AskFails(c), UNCHANGED now
  PROVE  Told(c)'
<1> DEFINE u == call[c].user
           a == AllowedOrgs[call[c].k]
<1>1. call[c].pc = "ask" /\ u \in User /\ a \in Allowed /\ Answered(c, FALSE)
  BY Constants DEF AskFails, MembershipTypeOK
<1>2. lastOut'[<<u, a>>] = now
  BY <1>1 DEF AskFails, MembershipTypeOK
<1>3. lastOut'[<<u, a>>] >= call[c].at
  BY <1>2, Integral DEF CallerInv
<1> QED
  BY <1>1, <1>3, AnsweredTold

\* What is stored was right at some time since the caller entered.
LEMMA StoreTold ==
  ASSUME MembershipTypeOK, MembershipTypeOK', Onward, CacheInv,
         NEW c \in Caller, CallerInv(c), Store(c), UNCHANGED now
  PROVE  Told(c)' /\ CacheInv'
<1> DEFINE u == call[c].user
           at == call[c].at
           answer == call[c].answer
<1>1. /\ call[c].pc = "store" /\ u \in User /\ at \in Int /\ at <= now
      /\ TTL \in Int /\ TTL > 0
      /\ lastIn'[u] \in Int /\ lastIn[u] \in Int /\ lastIn[u] <= lastIn'[u]
      /\ \A a \in Allowed : /\ lastOut[<<u, a>>] \in Int
                           /\ lastOut'[<<u, a>>] \in Int
                           /\ lastOut[<<u, a>>] <= lastOut'[<<u, a>>]
  <2>1. call[c].pc = "store" /\ u \in User
    BY DEF Store, MembershipTypeOK
  <2>2. at \in Int /\ TTL \in Int /\ TTL > 0 /\ at <= now
    BY <2>1, Integral, Constants DEF CallerInv
  <2> HIDE DEF u
  <2> QED
    BY <2>1, <2>2, UserHistory
<1>2. /\ call'[c].pc = "done" /\ call'[c].user = u /\ call'[c].at = at
      /\ call'[c].answer = answer
      /\ cache'[u].isMember = answer /\ cache'[u].at = at
      /\ \A v \in User \ {u} : cache'[v] = cache[v]
  BY <1>1 DEF Store, StoredAt, MembershipTypeOK
<1>3. IF answer THEN InSince(u, at) ELSE \A a \in Allowed : OutSince(u, a, at)
  BY <1>1 DEF CallerInv
<1> HIDE DEF u, at, answer
<1>4. IF answer THEN lastIn'[u] >= at ELSE \A a \in Allowed : lastOut'[<<u, a>>] >= at
  BY <1>1, <1>3 DEF InSince, OutSince
<1>5. CallerInv(c)' /\ AnswerInv(c)'
  BY <1>1, <1>2, <1>4 DEF CallerInv, AnswerInv
<1>6. ASSUME NEW v \in User PROVE CachedInv(v)'
  <2>1. CASE v = u
    BY <1>2, <1>4, <2>1 DEF CachedInv, InSince, OutSince
  <2>2. CASE v # u
    BY <1>2, <2>2, CacheKeeps DEF CacheInv, CachedInv
  <2> QED
    BY <2>1, <2>2
<1> QED
  BY <1>5, <1>6 DEF Told, CacheInv, CachedInv

----------------------------------------------------------------------------
\* The inductive invariant.

Inv == MembershipTypeOK /\ MembershipInv

LEMMA InvParts ==
  ASSUME MembershipTypeOK
  PROVE  MembershipInv <=> HistoryInv /\ CacheInv /\ \A c \in Caller : Told(c)
BY Answers DEF MembershipInv, Told

LEMMA InitInv == MembershipInit => Inv
<1> SUFFICES ASSUME MembershipInit PROVE Inv
  OBVIOUS
<1>1. MembershipTypeOK
  BY InitType
<1>2. HistoryInv
  <2>1. now = 0 /\ lastIn = [u \in User |-> IF Entitled(u, members) THEN 0 ELSE Never]
    BY DEF MembershipInit
  <2>2. ASSUME NEW u \in User, NEW a \in Allowed
        PROVE  lastOut[<<u, a>>] =
                 IF RecognisedBy(u, a, members, installed, orgInstall)
                 THEN Never ELSE 0
    BY Zenon DEF MembershipInit
  <2> QED
    BY <2>1, <2>2 DEF HistoryInv, Never
<1>3. CacheInv
  BY DEF MembershipInit, CacheInv, NoDecision
<1>4. \A c \in Caller : Told(c)
  BY DEF MembershipInit, Told, CallerInv, AnswerInv, Idle, Never
<1> QED
  BY <1>1, <1>2, <1>3, <1>4, InvParts DEF Inv

\* The callers that a step of c leaves alone.
LEMMA OneCallerMoves ==
  ASSUME MembershipTypeOK, NEW c \in Caller,
         EnterOrLeave(c) \/ CheckerStep(c) \/ CheckerFault(c)
  PROVE  \A d \in Caller \ {c} : call'[d] = call[d]
BY DEF EnterOrLeave, Enter, Leave, CheckerStep, Lookup, Check, Copy, Ask, Refresh,
       Store, CheckerFault, RefreshFails, AskFails, Answered, MembershipTypeOK

LEMMA InvStep == Inv /\ [MembershipNext]_membershipVars => Inv'
<1> SUFFICES ASSUME MembershipTypeOK, HistoryInv, CacheInv,
                    \A c \in Caller : Told(c),
                    [MembershipNext]_membershipVars
             PROVE  Inv'
  BY InvParts DEF Inv
<1>1. MembershipTypeOK'
  BY TypeStep
<1>2. HistoryInv' /\ Onward
  BY <1>1, HistoryStep
<1>3. ASSUME UNCHANGED cache PROVE CacheInv'
  BY <1>1, <1>2, <1>3, CacheKeeps DEF CacheInv, CachedInv
<1>4. ASSUME NEW d \in Caller, call'[d] = call[d] PROVE Told(d)'
  BY <1>1, <1>2, <1>4, OthersKeep DEF Told
<1>p. CacheInv' /\ (\A c \in Caller : Told(c)') => Inv'
  <2>1. (\A c \in Caller : Told(c)')
          => RevocationWithinTTL' /\ DenialWithinTTL' /\ \A c \in Caller : CallerInv(c)'
    BY DEF Told, AnswerInv, RevocationWithinTTL, DenialWithinTTL
  <2> QED
    BY <1>1, <1>2, <2>1 DEF Inv, MembershipInv
<1>5. CASE World \/ UNCHANGED membershipVars
  <2>1. UNCHANGED <<cache, call>>
    BY <1>5 DEF World, membershipVars
  <2> QED
    BY <1>3, <1>4, <1>p, <2>1
<1>6. CASE Restart
  <2>1. CacheInv'
    BY <1>6 DEF Restart, CacheInv, NoDecision
  <2>2. ASSUME NEW c \in Caller PROVE Told(c)'
    <3>1. call'[c].pc = "idle" /\ ~call'[c].answer /\ call'[c].at = Never /\ now \in Nat
      BY <1>6, Constants DEF Restart, Idle, MembershipTypeOK, Time
    <3> QED
      BY <1>6, <3>1 DEF Restart, Told, CallerInv, AnswerInv, Never
  <2> QED
    BY <1>p, <2>1, <2>2
<1>7. ASSUME NEW c \in Caller, Told(c)', CacheInv',
             EnterOrLeave(c) \/ CheckerStep(c) \/ CheckerFault(c)
      PROVE  Inv'
  <2>1. \A d \in Caller \ {c} : Told(d)'
    BY <1>4, <1>7, OneCallerMoves
  <2> QED
    BY <1>p, <1>7, <2>1
<1>8. ASSUME NEW c \in Caller, EnterOrLeave(c) PROVE Inv'
  BY <1>1, <1>3, <1>7, <1>8, EnterOrLeaveTold DEF EnterOrLeave
<1>9. ASSUME NEW c \in Caller, CheckerStep(c) PROVE Inv'
  <2>1. now' = now
    BY <1>9 DEF CheckerStep
  <2>2. CASE Store(c)
    BY <1>1, <1>2, <1>7, <1>9, <2>1, <2>2, StoreTold DEF Told
  <2>3. CASE Lookup(c) /\ UNCHANGED cache
    BY <1>1, <1>2, <1>3, <1>7, <1>9, <2>1, <2>3, LookupTold DEF Told
  <2>4. CASE (Check(c) \/ Refresh(c)) /\ UNCHANGED cache
    BY <1>1, <1>3, <1>7, <1>9, <2>1, <2>4, NoAnswerTold DEF Told
  <2>5. CASE Copy(c) /\ UNCHANGED cache
    BY <1>1, <1>2, <1>3, <1>7, <1>9, <2>1, <2>5, CopyTold DEF Told
  <2>6. CASE Ask(c) /\ UNCHANGED cache
    BY <1>1, <1>2, <1>3, <1>7, <1>9, <2>1, <2>6, AskTold DEF Told
  <2> QED
    BY <1>9, <2>2, <2>3, <2>4, <2>5, <2>6 DEF CheckerStep
<1>10. ASSUME NEW c \in Caller, CheckerFault(c) PROVE Inv'
  <2>1. UNCHANGED <<now, cache>>
    BY <1>10 DEF CheckerFault
  <2>2. CASE RefreshFails(c)
    BY <1>1, <1>3, <1>7, <1>10, <2>1, <2>2, RefreshFailsTold DEF Told
  <2>3. CASE AskFails(c)
    BY <1>1, <1>2, <1>3, <1>7, <1>10, <2>1, <2>3, AskFailsTold DEF Told
  <2> QED
    BY <1>10, <2>2, <2>3 DEF CheckerFault
<1> QED
  BY <1>5, <1>6, <1>8, <1>9, <1>10 DEF MembershipNext

\* The history, the cache and the callers' answers agree, however concurrent
\* calls of IsAllowed interleave and fail.
THEOREM MembershipCorrect == MembershipSpec => []MembershipInv
<1>1. Inv /\ [MembershipNext]_membershipVars => Inv'
  BY InvStep
<1>2. Inv => MembershipInv
  BY DEF Inv
<1> QED
  BY InitInv, <1>1, <1>2, PTL DEF MembershipSpec

\* Whoever IsAllowed lets through was entitled less than TTL before the call.
THEOREM StaleYesIsBounded == MembershipSpec => []RevocationWithinTTL
<1>1. MembershipInv => RevocationWithinTTL
  BY DEF MembershipInv
<1> QED
  BY MembershipCorrect, <1>1, PTL

\* Whoever it turns away was, less than TTL before, not to be recognised.
THEOREM StaleNoIsBounded == MembershipSpec => []DenialWithinTTL
<1>1. MembershipInv => DenialWithinTTL
  BY DEF MembershipInv
<1> QED
  BY MembershipCorrect, <1>1, PTL

----------------------------------------------------------------------------
\* The checker implements MembershipPolicy.

\* Without time or a change at GitHub the history of the entitled stands still.
LEMMA HistoryStands ==
  ASSUME MembershipTypeOK, MembershipTypeOK', HistoryInv, Witness,
         UNCHANGED <<now, members>>
  PROVE  lastIn' = lastIn
<1>1. \A u \in User : lastIn'[u] = lastIn[u]
  BY DEF Witness, Latest, HistoryInv
<1> QED
  BY <1>1 DEF MembershipTypeOK

\* What the policy sees of a call, field by field.
LEMMA AskedByIdle == AskedBy(Idle) = Policy!Idle
<1>1. ("idle" = "done" /\ FALSE) = FALSE
  OBVIOUS
<1> QED
  BY <1>1 DEF AskedBy, Idle, Policy!Idle, Never, Policy!Never

LEMMA AskedByOther ==
  ASSUME NEW k, k.pc \notin {"idle", "done"}
  PROVE  AskedBy(k) = [pc |-> "asked", user |-> k.user, at |-> k.at, answer |-> FALSE]
<1>1. (k.pc = "done" /\ k.answer) = FALSE
  OBVIOUS
<1> QED
  BY <1>1 DEF AskedBy

LEMMA AskedByDone ==
  ASSUME NEW k, k.pc = "done", k.answer \in BOOLEAN
  PROVE  AskedBy(k) = [pc |-> "answered", user |-> k.user, at |-> k.at,
                       answer |-> k.answer]
<1>1. (k.pc = "done" /\ k.answer) = k.answer
  BY Zenon
<1> QED
  BY <1>1 DEF AskedBy

\* A call that goes on is about the same user and entered at the same time.
LEMMA CallGoesOn ==
  ASSUME MembershipTypeOK, NEW c \in Caller, CheckerStep(c) \/ CheckerFault(c)
  PROVE  /\ call[c].pc \notin {"idle", "done"}
         /\ call'[c].pc # "idle"
         /\ call'[c].user = call[c].user
         /\ call'[c].at = call[c].at
BY DEF CheckerStep, Lookup, Check, Copy, Ask, Refresh, Store, CheckerFault,
       RefreshFails, AskFails, Answered, MembershipTypeOK, Call

LEMMA PolicyInitially == MembershipInit => Policy!PolicyInit
<1> SUFFICES ASSUME MembershipInit PROVE Policy!PolicyInit
  OBVIOUS
<1>1. [c \in Caller |-> AskedBy(call[c])] = [c \in Caller |-> Policy!Idle]
  BY DEF MembershipInit, AskedBy, Idle, Policy!Idle, Never, Policy!Never
<1>2. lastIn = [u \in User |-> IF u \in {v \in User : Entitled(v, members)}
                               THEN 0 ELSE Policy!Never]
  BY DEF MembershipInit, Never, Policy!Never
<1> QED
  BY <1>1, <1>2 DEF MembershipInit, Policy!PolicyInit

LEMMA PolicyStep ==
  ASSUME Inv, Inv', [MembershipNext]_membershipVars
  PROVE  [Policy!PolicyNext]_(Policy!policyVars)
<1> DEFINE entitled == {u \in User : Entitled(u, members)}
           asked == [c \in Caller |-> AskedBy(call[c])]
<1>1. MembershipTypeOK /\ MembershipTypeOK' /\ HistoryInv
  BY DEF Inv, MembershipInv
<1>2. CASE UNCHANGED membershipVars
  BY <1>2 DEF membershipVars, Policy!policyVars
<1>3. CASE World
  <2>1. UNCHANGED asked
    BY <1>3 DEF World
  <2>2. lastIn' = [u \in User |-> IF u \in entitled' THEN now'
                                  ELSE IF u \in entitled THEN now
                                  ELSE lastIn[u]]
    BY <1>3 DEF World, Witness, Latest
  <2>3. \/ now < MaxTime /\ now' = now + 1 /\ UNCHANGED entitled
        \/ entitled' \in SUBSET User /\ UNCHANGED now
    BY <1>3 DEF World, Tick, Change
  <2> QED
    BY <2>1, <2>2, <2>3 DEF Policy!World, Policy!PolicyNext
<1>4. CASE Restart
  <2>1. asked' = [c \in Caller |-> Policy!Idle]
    BY <1>4 DEF Restart, AskedBy, Idle, Policy!Idle, Never, Policy!Never
  <2>2. UNCHANGED <<now, members, lastIn>>
    BY <1>1, <1>4, HistoryStands DEF Restart
  <2> QED
    BY <2>1, <2>2 DEF Policy!Restart, Policy!PolicyNext
<1>5. ASSUME NEW c \in Caller,
             EnterOrLeave(c) \/ CheckerStep(c) \/ CheckerFault(c)
      PROVE  [Policy!PolicyNext]_(Policy!policyVars)
  <2>1. UNCHANGED <<now, members, lastIn>>
    BY <1>1, <1>5, HistoryStands DEF EnterOrLeave, CheckerStep, CheckerFault
  <2>2. asked' = [asked EXCEPT ![c] = AskedBy(call'[c])]
    BY <1>1, <1>5, OneCallerMoves
  <2>3. asked[c] = AskedBy(call[c])
    OBVIOUS
  <2>4. ASSUME Leave(c) PROVE Policy!Leave(c)
    <3>1. call[c].pc = "done" /\ call'[c] = Idle
      BY <1>1, <2>4 DEF Leave, MembershipTypeOK
    <3>2. AskedBy(call[c]).pc = "answered" /\ AskedBy(call'[c]) = Policy!Idle
      BY <3>1, AskedByIdle DEF AskedBy
    <3> QED
      BY <2>2, <2>3, <3>2 DEF Policy!Leave
  <2>5. ASSUME NEW u \in User, Enter(c, u) PROVE Policy!Ask(c, u)
    <3>1. call[c].pc = "idle" /\ call'[c] = [Idle EXCEPT !.pc = "lookup", !.user = u, !.at = now]
      BY <1>1, <2>5 DEF Enter, MembershipTypeOK
    <3>2. /\ AskedBy(call[c]).pc = "idle"
          /\ AskedBy(call'[c]) = [pc |-> "asked", user |-> u, at |-> now, answer |-> FALSE]
      BY <3>1 DEF AskedBy, Idle
    <3> QED
      BY <2>2, <2>3, <3>2 DEF Policy!Ask
  <2>6. ASSUME CheckerStep(c) \/ CheckerFault(c), call'[c].pc = "done"
        PROVE  Policy!Answer(c, call'[c].answer) /\ call'[c].answer \in BOOLEAN
    <3>1. AskedBy(call[c]) = [pc |-> "asked", user |-> call[c].user,
                              at |-> call[c].at, answer |-> FALSE]
      BY <1>1, <2>6, CallGoesOn, AskedByOther
    <3>2. call'[c].answer \in BOOLEAN
      BY <1>1 DEF MembershipTypeOK, Call
    <3>3. AskedBy(call'[c]) = [pc |-> "answered", user |-> call[c].user,
                               at |-> call[c].at, answer |-> call'[c].answer]
      BY <1>1, <2>6, <3>2, CallGoesOn, AskedByDone
    <3>4. call'[c].answer => lastIn[call[c].user] > call[c].at - TTL
      BY <1>1, <2>1, <2>6, CallGoesOn DEF Inv, MembershipInv, RevocationWithinTTL
    <3>5. /\ asked[c].pc = "asked" /\ asked[c].user = call[c].user
          /\ asked[c].at = call[c].at
      BY <2>3, <3>1
    <3> HIDE DEF asked
    <3>6. asked' = [asked EXCEPT ![c] =
                      [pc |-> "answered", user |-> asked[c].user,
                       at |-> asked[c].at, answer |-> call'[c].answer]]
      BY <2>2, <3>3, <3>5
    <3> USE DEF asked
    <3> QED
      BY <3>2, <3>4, <3>5, <3>6 DEF Policy!Answer
  <2>7. ASSUME CheckerStep(c) \/ CheckerFault(c), call'[c].pc # "done"
        PROVE  AskedBy(call'[c]) = asked[c]
    BY <1>1, <2>7, CallGoesOn DEF AskedBy
  <2> QED
    <3>1. CASE EnterOrLeave(c)
      BY <2>1, <2>4, <2>5, <3>1 DEF EnterOrLeave, Policy!PolicyNext
    <3>2. CASE (CheckerStep(c) \/ CheckerFault(c)) /\ call'[c].pc = "done"
      BY <2>1, <2>6, <3>2 DEF Policy!PolicyNext
    <3>3. CASE (CheckerStep(c) \/ CheckerFault(c)) /\ call'[c].pc # "done"
      BY <2>1, <2>2, <2>7, <3>3 DEF Policy!policyVars
    <3> QED
      BY <1>5, <3>1, <3>2, <3>3
<1> QED
  BY <1>2, <1>3, <1>4, <1>5 DEF MembershipNext

\* MembershipChecker keeps the promise the webhook and the API rely on: each
\* of its steps is one of MembershipPolicy, or is invisible to it.
THEOREM CheckerKeepsPromise == MembershipSpec => ImplementsPolicy
<1>1. MembershipSpec => []Inv
  <2>1. Inv /\ [MembershipNext]_membershipVars => Inv'
    BY InvStep
  <2> QED
    BY InitInv, <2>1, PTL DEF MembershipSpec
<1>2. Inv /\ Inv' /\ [MembershipNext]_membershipVars
        => [Policy!PolicyNext]_(Policy!policyVars)
  BY PolicyStep
<1> QED
  BY PolicyInitially, <1>1, <1>2, PTL DEF MembershipSpec, ImplementsPolicy, Policy!PolicySpec

=============================================================================
