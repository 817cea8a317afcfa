----------------------------- MODULE ApiAccess ------------------------------
(***************************************************************************)
(* Who may use the REST API and the admin panel, and for how long: bearer  *)
(* tokens (internal/apitoken), cookie sessions (internal/auth/auth.go) and *)
(* the middleware that asks them and the MembershipChecker                 *)
(* (internal/auth/api_auth.go).  The endpoints behind the middleware are   *)
(* the three that manage tokens, and "use" for all others, which leave     *)
(* this state alone.  A caller is the goroutine of one HTTP request; while *)
(* the middleware waits for IsAllowed, it is a caller of MembershipPolicy. *)
(***************************************************************************)
EXTENDS MembershipPolicy, Sequences

CONSTANTS
  SessionLife,   \* how long a session lasts (24 hours)
  Throttle,      \* LastUsedThrottle (one minute)
  MaxTokens      \* bound: rows of api_tokens

ASSUME AccessAssumption ==
  SessionLife \in Nat /\ Throttle \in Nat \ {0} /\ MaxTokens \in Nat

VARIABLES
  tokens,        \* the rows of api_tokens
  lastUsedMemo,  \* the process's memo of when it wrote last_used_at
  sessions,      \* the rows of sessions
  http,          \* the goroutine of each HTTP request
  lastUse,       \* history: when a token was last accepted by Verify
  lost           \* history: tokens whose latest UPDATE of last_used_at failed

accessVars == <<tokens, lastUsedMemo, sessions, http, lastUse, lost>>
vars == <<policyVars, accessVars>>

Token == [owner     : User,
          lastUsed  : Time \cup {Never},
          revokedAt : Time \cup {Never},
          revokedBy : User \cup {NoOne}]

Revoked(t) == tokens[t].revokedAt # Never

Session == [user : User, expires : Nat]

\* A request's locals: the credential it came with, when that was looked up
\* and on whose behalf it is let through, and the token it is to revoke.
Http == [pc     : {"idle", "used", "record", "member", "wait", "act", "update",
                   "open"},
         by     : {"token", "cookie", "login", "none"},
         token  : Nat,
         user   : User \cup {NoOne},
         at     : Time \cup {Never},
         target : Nat]

Blank == [pc |-> "idle", by |-> "none", token |-> 0, user |-> NoOne,
          at |-> Never, target |-> 0]

AccessTypeOK ==
  /\ PolicyTypeOK
  /\ tokens \in Seq(Token) /\ Len(tokens) <= MaxTokens
  /\ lastUsedMemo \in [1 .. MaxTokens -> Time \cup {Never}]
  /\ sessions \subseteq Session
  /\ http \in [Caller -> Http]
  /\ lastUse \in [1 .. MaxTokens -> Time \cup {Never}]
  /\ lost \subseteq 1 .. MaxTokens
  /\ \A t \in DOMAIN tokens : Revoked(t) <=> tokens[t].revokedBy # NoOne
  /\ \A c \in Caller :
       /\ http[c].by = "token" => http[c].token \in DOMAIN tokens
       /\ http[c].pc \in {"used", "record", "member", "wait"} => http[c].by = "token"
       /\ http[c].pc = "update" => http[c].target \in DOMAIN tokens

AccessInit ==
  /\ PolicyInit
  /\ tokens = <<>>
  /\ lastUsedMemo = [t \in 1 .. MaxTokens |-> Never]
  /\ sessions = {}
  /\ http = [c \in Caller |-> Blank]
  /\ lastUse = [t \in 1 .. MaxTokens |-> Never]
  /\ lost = {}

\* A request is let in, goes on to pc, or is over.
LetIn(c, pc, by, token, u) ==
  /\ http[c].pc = "idle"
  /\ http' = [http EXCEPT ![c] = [pc |-> pc, by |-> by, token |-> token,
                                  user |-> u, at |-> now, target |-> 0]]
Goto(c, pc) == http' = [http EXCEPT ![c].pc = pc]
End(c) == http' = [http EXCEPT ![c] = Blank]

----------------------------------------------------------------------------
\* Bearer tokens

\* Mutant of Live: the SELECT forgets "revoked = false".
LiveAnyway(t) == TRUE

\* Whether Verify's SELECT returns the row.
Live(t) == ~Revoked(t)

\* A request comes with token t and the SELECT finds its row.  (Any other
\* string, and a revoked token, is answered 401 and leaves no trace.)
Verify(c, t) ==
  /\ Live(t)
  /\ LetIn(c, "used", "token", t, tokens[t].owner)
  /\ UNCHANGED <<tokens, lastUsedMemo, sessions, lastUse, lost>>

\* Mutant of Throttled: one write per process.
ThrottledForever(t) == lastUsedMemo[t] # Never

\* The memo says that last_used_at was written a moment ago.
Throttled(t) == lastUsedMemo[t] # Never /\ now - lastUsedMemo[t] < Throttle

\* recordLastUsed up to the release of its mutex: the memo is set before the
\* UPDATE is tried.
RecordLastUsed(c) ==
  LET t == http[c].token
  IN  /\ http[c].pc = "used"
      /\ IF Throttled(t)
         THEN Goto(c, "member") /\ UNCHANGED lastUsedMemo
         ELSE Goto(c, "record") /\ lastUsedMemo' = [lastUsedMemo EXCEPT ![t] = now]
      /\ lastUse' = [lastUse EXCEPT ![t] = now]
      /\ UNCHANGED <<tokens, sessions, lost>>

\* The UPDATE of last_used_at, best-effort.
UpdateLastUsed(c) ==
  LET t == http[c].token
  IN  /\ http[c].pc = "record"
      /\ Goto(c, "member")
      /\ tokens' = [tokens EXCEPT ![t].lastUsed = now]
      /\ lost' = lost \ {t}
      /\ UNCHANGED <<lastUsedMemo, sessions, lastUse>>

UpdateLastUsedFails(c) ==
  /\ http[c].pc = "record"
  /\ Goto(c, "member")
  /\ lost' = lost \cup {http[c].token}
  /\ UNCHANGED <<tokens, lastUsedMemo, sessions, lastUse>>

\* RequireAPIAuth calls IsAllowed and hears its answer: 401 on a "no".
AskMembership(c) ==
  /\ http[c].pc = "member"
  /\ Ask(c, http[c].user)
  /\ Goto(c, "wait")
  /\ UNCHANGED <<tokens, lastUsedMemo, sessions, lastUse, lost>>

HearMembership(c) ==
  /\ http[c].pc = "wait"
  /\ IF asked[c].answer THEN Goto(c, "act") ELSE End(c)
  /\ Leave(c)
  /\ UNCHANGED <<tokens, lastUsedMemo, sessions, lastUse, lost>>

----------------------------------------------------------------------------
\* Sessions

\* Callback: the membership check with the user's own OAuth token succeeds.
\* (The owner of an allowed personal account is entitled but may be refused,
\* since he is not a member of any organisation.  The expiry is computed a few
\* statements after GitHub's answer, at the same moment here.)
Login(c, u) ==
  /\ u \in entitled
  /\ LetIn(c, "open", "login", 0, u)
  /\ UNCHANGED <<tokens, lastUsedMemo, sessions, lastUse, lost>>

OpenSession(c) ==
  /\ http[c].pc = "open"
  /\ End(c)
  /\ sessions' = sessions \cup
       {[user |-> http[c].user, expires |-> http[c].at + SessionLife]}
  /\ UNCHANGED <<tokens, lastUsedMemo, lastUse, lost>>

\* Mutant of Valid: the SELECT forgets "expires_at > now()".
ValidForever(s) == TRUE

\* Whether ValidateSession's SELECT returns the row.
Valid(s) == s.expires > now

\* A request comes with the cookie of a session.  (Logout only clears the
\* browser's copy of it; the row stays.)
ValidateSession(c, s) ==
  /\ Valid(s)
  /\ LetIn(c, "act", "cookie", 0, s.user)
  /\ UNCHANGED <<tokens, lastUsedMemo, sessions, lastUse, lost>>

----------------------------------------------------------------------------
\* What a request does once it is let through: an endpoint that leaves this
\* state alone, CreateToken or RevokeToken (of internal/api or of the panel).

Use(c) ==
  /\ http[c].pc = "act"
  /\ End(c)
  /\ UNCHANGED <<tokens, lastUsedMemo, sessions, lastUse, lost>>

\* A request with a token is answered 403.
CreateToken(c) ==
  /\ http[c].pc = "act" /\ http[c].by = "cookie"
  /\ Len(tokens) < MaxTokens
  /\ End(c)
  /\ tokens' = Append(tokens, [owner |-> http[c].user, lastUsed |-> Never,
                               revokedAt |-> Never, revokedBy |-> NoOne])
  /\ UNCHANGED <<lastUsedMemo, sessions, lastUse, lost>>

\* GetByID, and 403 unless the token is the caller's own.
GetToken(c, t) ==
  /\ http[c].pc = "act"
  /\ IF tokens[t].owner = http[c].user
     THEN http' = [http EXCEPT ![c].pc = "update", ![c].target = t]
     ELSE End(c)
  /\ UNCHANGED <<tokens, lastUsedMemo, sessions, lastUse, lost>>

\* Mutant of Revocable: the UPDATE forgets "revoked = false".
RevocableAgain(t) == TRUE

\* Whether Revoke's UPDATE finds the row.
Revocable(t) == ~Revoked(t)

Revoke(c) ==
  LET t == http[c].target
  IN  /\ http[c].pc = "update"
      /\ End(c)
      /\ tokens' = IF Revocable(t)
                   THEN [tokens EXCEPT ![t].revokedAt = now,
                                       ![t].revokedBy = http[c].user]
                   ELSE tokens
      /\ UNCHANGED <<lastUsedMemo, sessions, lastUse, lost>>

\* A statement of the request fails, and it is answered 500.
RequestFails(c) ==
  /\ http[c].pc \in {"act", "update", "open"}
  /\ End(c)
  /\ UNCHANGED <<tokens, lastUsedMemo, sessions, lastUse, lost>>

----------------------------------------------------------------------------
\* Steps of a request outside IsAllowed.
Serve(c) ==
  /\ \/ \E t \in DOMAIN tokens : Verify(c, t) \/ GetToken(c, t)
     \/ \E s \in sessions : ValidateSession(c, s)
     \/ \E u \in User : Login(c, u)
     \/ RecordLastUsed(c) \/ UpdateLastUsed(c) \/ UpdateLastUsedFails(c)
     \/ OpenSession(c) \/ Use(c) \/ CreateToken(c) \/ Revoke(c)
     \/ RequestFails(c)
  /\ UNCHANGED policyVars

\* Its steps into and out of IsAllowed, and the answer.
Consult(c) ==
  /\ \/ AskMembership(c)
     \/ HearMembership(c)
     \/ (\E yes \in BOOLEAN : Answer(c, yes)) /\ UNCHANGED accessVars
  /\ UNCHANGED <<now, entitled, lastIn>>

\* The process restarts: every request in flight is gone, and the memo.
RestartAll ==
  /\ Restart
  /\ lastUsedMemo' = [t \in 1 .. MaxTokens |-> Never]
  /\ http' = [c \in Caller |-> Blank]
  /\ lost' = lost \cup
       {http[c].token : c \in {d \in Caller : http[d].pc = "record"}}
  /\ UNCHANGED <<tokens, sessions, lastUse>>

AccessNext ==
  \/ RestartAll
  \/ World /\ UNCHANGED accessVars
  \/ \E c \in Caller : Serve(c) \/ Consult(c)

AccessSpec == AccessInit /\ [][AccessNext]_vars

----------------------------------------------------------------------------
\* A request acts for a user who was entitled recently: less than TTL before
\* its token was looked up, or less than SessionLife before its session was,
\* whatever IsAllowed remembers, however long it takes, and across restarts
\* (docs/reference/api-tokens.md, "Authorisation re-check").
ActsForTheEntitled ==
  \A c \in Caller :
    http[c].pc \in {"act", "update"}
      => lastIn[http[c].user] >
           http[c].at - (IF http[c].by = "token" THEN TTL ELSE SessionLife)

\* "Once revoked, a token fails authentication immediately on the next
\* request" (docs/reference/api-tokens.md): a request whose token is revoked
\* only acts if it was under way by then.
RevokedTokenIsRefused ==
  \A c \in Caller :
    http[c].by = "token" /\ Revoked(http[c].token)
      => tokens[http[c].token].revokedAt >= http[c].at

\* The row says who revoked a token and when, and neither a second revocation
\* nor one that overlapped the first changes that; a revoked token stays
\* revoked.
RevocationIsFinal ==
  [][\A t \in DOMAIN tokens :
       Revoked(t) => /\ tokens'[t].revokedAt = tokens[t].revokedAt
                     /\ tokens'[t].revokedBy = tokens[t].revokedBy]_vars

\* last_used_at lags behind the last use by less than Throttle, unless an
\* UPDATE of it is under way or the latest one failed.  The memo, the row and
\* the clock are three things that concurrent requests and restarts could get
\* out of step.
LastUsedIsRecent ==
  \A t \in DOMAIN tokens :
    \/ lastUse[t] = Never
    \/ t \in lost
    \/ \E c \in Caller : http[c].pc = "record" /\ http[c].token = t
    \/ tokens[t].lastUsed > lastUse[t] - Throttle

\* "What tokens cannot do: Create or revoke other tokens.  Token management is
\* only available via the browser session" (docs/reference/api-tokens.md): a
\* request with a token revokes no token, its own perhaps excepted.
BrowserRevokesTokens ==
  [][\A t \in DOMAIN tokens :
       ~Revoked(t) /\ tokens'[t].revokedAt # Never
         => \E c \in Caller : /\ http[c].pc = "update" /\ http[c].target = t
                              /\ http[c].by = "cookie" \/ http[c].token = t
                              /\ http'[c].pc = "idle"]_vars

=============================================================================
