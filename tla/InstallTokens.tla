--------------------------- MODULE InstallTokens ----------------------------
(***************************************************************************)
(* The installation tokens of internal/github/client.go: the cache, the    *)
(* margin before a token's expiry, and the singleflight group that makes   *)
(* concurrent callers share one fetch.  Callers are the goroutines in      *)
(* PostComment, GetIssueLabels and IsOrgMember.  Installations have        *)
(* separate cache entries and separate flights, so one is modelled.        *)
(***************************************************************************)
EXTENDS Integers, FiniteSets

CONSTANTS
  Caller,    \* goroutines that call GitHub for the installation
  Nobody,    \* not a caller
  Life,      \* GitHub's lifetime of a token (one hour)
  Margin,    \* how long before its expiry a token is renewed (60 seconds)
  Timeout,   \* of one HTTP call (10 seconds)
  MaxTime    \* bound: the clock stops here

ASSUME NobodyAssumption == Nobody \notin Caller
ASSUME TimesAssumption ==
  /\ {Life, Margin, Timeout, MaxTime} \subseteq Nat
  /\ Timeout <= Margin
  /\ Margin + Timeout < Life

VARIABLES
  now,     \* the clock, the same here and at GitHub
  cached,  \* expiresAt of the cached token, 0 if there is none
  flight,  \* the leader of the flight in progress, or Nobody
  call     \* the callers

vars == <<now, cached, flight, call>>

\* expires is that of the token a caller got; deadline is when the HTTP
\* client gives its call up.
Call == [pc       : {"idle", "slow", "waiting", "recheck", "fetch", "issued",
                     "return", "ready", "using"},
         expires  : Nat,
         deadline : Nat]
Idle == [pc |-> "idle", expires |-> 0, deadline |-> 0]

\* The one who runs the function given to singleflight.Do.
Leading(c) == call[c].pc \in {"recheck", "fetch", "issued", "return"}

TypeOK ==
  /\ now \in 0 .. MaxTime
  /\ cached \in Nat
  /\ flight \in Caller \cup {Nobody}
  /\ call \in [Caller -> Call]
  /\ \A c \in Caller : Leading(c) <=> flight = c
  /\ \A c \in Caller : call[c].pc = "waiting" => flight # Nobody

Init ==
  /\ now = 0
  /\ cached = 0
  /\ flight = Nobody
  /\ call = [c \in Caller |-> Idle]

\* Mutant of Usable: no margin.
UsableToTheEnd(expires) == now < expires

\* A token that may still be handed out.
Usable(expires) == now < expires - Margin

----------------------------------------------------------------------------
\* getInstallationToken

\* The fast path, or a miss.
Lookup(c) ==
  /\ call[c].pc = "idle"
  /\ call' = [call EXCEPT
       ![c] = IF Usable(cached) THEN [Idle EXCEPT !.pc = "ready", !.expires = cached]
                                ELSE [Idle EXCEPT !.pc = "slow"]]
  /\ UNCHANGED <<cached, flight>>

\* Mutant of Do: everybody fetches.
DoAlone(c) ==
  /\ call[c].pc = "slow"
  /\ flight' = c
  /\ call' = [call EXCEPT ![c].pc = "recheck"]
  /\ UNCHANGED cached

\* singleflight.Do: lead a flight, or wait for the one in progress.
Do(c) ==
  /\ call[c].pc = "slow"
  /\ IF flight = Nobody
     THEN flight' = c /\ call' = [call EXCEPT ![c].pc = "recheck"]
     ELSE call' = [call EXCEPT ![c].pc = "waiting"] /\ UNCHANGED flight
  /\ UNCHANGED cached

\* Mutant of Recheck: no second look.
RecheckSkipped(c) ==
  /\ call[c].pc = "recheck"
  /\ call' = [call EXCEPT
       ![c] = [Idle EXCEPT !.pc = "fetch", !.deadline = now + Timeout]]
  /\ UNCHANGED <<cached, flight>>

\* The leader looks once more: a flight may have ended since it missed.
Recheck(c) ==
  /\ call[c].pc = "recheck"
  /\ call' = [call EXCEPT
       ![c] = IF Usable(cached)
              THEN [Idle EXCEPT !.pc = "return", !.expires = cached]
              ELSE [Idle EXCEPT !.pc = "fetch", !.deadline = now + Timeout]]
  /\ UNCHANGED <<cached, flight>>

\* GitHub issues a token at some moment of the fetch.
Issue(c) ==
  /\ call[c].pc = "fetch"
  /\ call' = [call EXCEPT ![c].pc = "issued", ![c].expires = now + Life]
  /\ UNCHANGED <<cached, flight>>

\* The response arrives and is cached.
StoreToken(c) ==
  /\ call[c].pc = "issued"
  /\ cached' = call[c].expires
  /\ call' = [call EXCEPT ![c].pc = "return", ![c].deadline = 0]
  /\ UNCHANGED flight

Waiters == {d \in Caller : call[d].pc = "waiting"}

\* The flight ends: the leader and all who wait for it get its result.
Share(c) ==
  /\ call[c].pc = "return"
  /\ flight' = Nobody
  /\ call' = [d \in Caller |->
                IF d \in Waiters \cup {c}
                THEN [Idle EXCEPT !.pc = "ready", !.expires = call[c].expires]
                ELSE call[d]]
  /\ UNCHANGED cached

\* Mutant of FetchFails: only the leader hears of it.
FetchFailsAlone(c) ==
  /\ call[c].pc \in {"fetch", "issued"}
  /\ flight' = Nobody
  /\ call' = [call EXCEPT ![c] = Idle]
  /\ UNCHANGED cached

\* The fetch fails, before or after GitHub issued a token; so do all.
FetchFails(c) ==
  /\ call[c].pc \in {"fetch", "issued"}
  /\ flight' = Nobody
  /\ call' = [d \in Caller |-> IF d \in Waiters \cup {c} THEN Idle ELSE call[d]]
  /\ UNCHANGED cached

\* The call that needed the token, and its end.
UseToken(c) ==
  /\ call[c].pc = "ready"
  /\ call' = [call EXCEPT ![c].pc = "using", ![c].deadline = now + Timeout]
  /\ UNCHANGED <<cached, flight>>

Done(c) ==
  /\ call[c].pc = "using"
  /\ call' = [call EXCEPT ![c] = Idle]
  /\ UNCHANGED <<cached, flight>>

----------------------------------------------------------------------------
\* A step of a call under way.
Proceed(c) ==
  /\ \/ Do(c) \/ Recheck(c) \/ Issue(c) \/ StoreToken(c) \/ Share(c)
     \/ FetchFails(c) \/ UseToken(c) \/ Done(c)
  /\ UNCHANGED now

\* Time passes.  No HTTP call outlives its timeout, and a goroutine that
\* holds a token goes on to use it within the unit of time.
Tick ==
  /\ now < MaxTime
  /\ \A c \in Caller :
       /\ call[c].pc \notin {"return", "ready"}
       /\ call[c].pc \in {"fetch", "issued", "using"} => now < call[c].deadline
  /\ now' = now + 1
  /\ UNCHANGED <<cached, flight, call>>

\* The process restarts with an empty cache.
Restart ==
  /\ cached' = 0 /\ flight' = Nobody /\ call' = [c \in Caller |-> Idle]
  /\ UNCHANGED now

Next ==
  \/ Tick \/ Restart
  \/ \E c \in Caller : Proceed(c) \/ (Lookup(c) /\ UNCHANGED now)

\* Go runs every goroutine and every HTTP call returns.
Spec == Init /\ [][Next]_vars /\ \A c \in Caller : WF_vars(Proceed(c))

----------------------------------------------------------------------------
\* A token is valid from the moment it is handed out to the end of the call
\* that uses it, however long its holder waited for somebody else's fetch.
TokenOutlivesItsUse ==
  \A c \in Caller : call[c].pc \in {"ready", "using"} => now < call[c].expires

\* docs/how-to/operations.md: "at most one fetch per installation ID runs at
\* a time", and none while the cache holds a token that would do.
OneFetchAndOnlyIfNeeded ==
  \A c \in Caller : call[c].pc \in {"fetch", "issued"}
    => /\ ~Usable(cached)
       /\ \A d \in Caller \ {c} : ~Leading(d)

\* The same document: rate-limit pressure stays proportional to the
\* "token-expiry rate".  Until a restart, tokens that are stored one after the
\* other are issued at least Life - Margin apart.
RefreshesAreSpaced ==
  [][cached # 0 /\ cached' \notin {0, cached} => cached' - cached >= Life - Margin]_vars

\* Whoever waits for another's flight is released, whatever becomes of it.
WaitersAreReleased ==
  \A c \in Caller : call[c].pc = "waiting" ~> call[c].pc # "waiting"

----------------------------------------------------------------------------
\* Why the first three hold.  A fetch begins when the cached token is within
\* Margin of its expiry, ends within Timeout, and brings a token that is issued
\* after it began; what is handed out is usable at that moment, and so until a
\* call that begins then has ended.
CallInv(c) ==
  /\ call[c].pc \in {"fetch", "issued"} =>
       /\ call[c].deadline - Timeout <= now
       /\ now <= call[c].deadline
       /\ cached - Margin <= call[c].deadline - Timeout
  /\ call[c].pc = "issued" =>
       call[c].expires >= call[c].deadline - Timeout + Life
  /\ call[c].pc \in {"return", "ready"} => Usable(call[c].expires)
  /\ call[c].pc = "using" =>
       /\ now <= call[c].deadline
       /\ call[c].deadline < call[c].expires

TokenInv == \A c \in Caller : CallInv(c)

=============================================================================
