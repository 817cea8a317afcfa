---------------------------- MODULE AccessProofs ----------------------------
(***************************************************************************)
(* API access, on top of any checker that keeps MembershipPolicy: requests *)
(* act for recently entitled users only, a revocation takes effect at once *)
(* and for good, and last_used_at does not fall behind.                    *)
(***************************************************************************)
EXTENDS ApiAccess, TLAPS

\* How long before a request's credential was looked up its user may have
\* been entitled for the last time.
Grace(by) == IF by = "token" THEN TTL ELSE SessionLife

\* The history of entitlement is up to date, and a session is no older than
\* its user's entitlement.
HistoryInv ==
  /\ \A u \in User : lastIn[u] <= now /\ (u \in entitled => lastIn[u] = now)
  /\ \A s \in sessions : lastIn[s.user] >= s.expires - SessionLife

\* A request that waits for IsAllowed has asked after it looked its token up,
\* and one that has been let in was let in for a reason.
RequestInv(c) ==
  /\ http[c].pc = "idle" <=> http[c].by = "none"
  /\ http[c].pc # "idle" =>
       http[c].user \in User /\ http[c].at \in Time /\ http[c].at <= now
  /\ http[c].pc \in {"act", "update"} =>
       lastIn[http[c].user] > http[c].at - Grace(http[c].by)
  /\ http[c].pc = "open" => lastIn[http[c].user] >= http[c].at
  /\ asked[c].pc # "idle" =>
       /\ http[c].pc = "wait" /\ http[c].by = "token"
       /\ asked[c].user = http[c].user
       /\ asked[c].at \in Time /\ asked[c].at >= http[c].at
  /\ asked[c].pc = "answered" /\ asked[c].answer =>
       lastIn[asked[c].user] > asked[c].at - TTL
  /\ http[c].by = "token" /\ Revoked(http[c].token) =>
       tokens[http[c].token].revokedAt >= http[c].at

\* An UPDATE of last_used_at that was not lost is under way.
Recording(t) == \E c \in Caller : http[c].pc = "record" /\ http[c].token = t

\* The row is as recent as the memo, unless an UPDATE is outstanding.
RowInv(t) ==
  /\ lastUsedMemo[t] <= now /\ lastUse[t] <= now
  /\ t \notin DOMAIN tokens => lastUsedMemo[t] = Never /\ lastUse[t] = Never
  /\ t \in DOMAIN tokens =>
       \/ t \in lost \/ Recording(t)
       \/ /\ lastUsedMemo[t] # Never => tokens[t].lastUsed >= lastUsedMemo[t]
          /\ lastUse[t] # Never => tokens[t].lastUsed > lastUse[t] - Throttle

AccessInv ==
  /\ HistoryInv
  /\ \A c \in Caller : RequestInv(c)
  /\ \A t \in 1 .. MaxTokens : RowInv(t)

----------------------------------------------------------------------------
\* Types

\* What the operators of a request do to the goroutines.
LEMMA Requests ==
  ASSUME AccessTypeOK, NEW c \in Caller
  PROVE  /\ \A d \in Caller : http[d] \in Http
         /\ Blank \in Http
         /\ End(c) => /\ http' \in [Caller -> Http] /\ http'[c] = Blank
                      /\ \A d \in Caller \ {c} : http'[d] = http[d]
         /\ \A pc \in {"used", "record", "member", "wait", "act", "update", "open"} :
              Goto(c, pc) =>
                /\ http' \in [Caller -> Http]
                /\ \A d \in Caller \ {c} : http'[d] = http[d]
                /\ http'[c].pc = pc /\ http'[c].by = http[c].by
                /\ http'[c].token = http[c].token /\ http'[c].user = http[c].user
                /\ http'[c].at = http[c].at /\ http'[c].target = http[c].target
         /\ \A pc \in {"used", "act", "open"}, by \in {"token", "cookie", "login"},
               t \in Nat, u \in User :
              LetIn(c, pc, by, t, u) =>
                /\ http[c].pc = "idle"
                /\ http' \in [Caller -> Http]
                /\ \A d \in Caller \ {c} : http'[d] = http[d]
                /\ http'[c].pc = pc /\ http'[c].by = by
                /\ http'[c].token = t /\ http'[c].user = u
                /\ http'[c].at = now /\ http'[c].target = 0
  <1>1. http \in [Caller -> Http] /\ now \in Time
    BY DEF AccessTypeOK, PolicyTypeOK
  <1>2. Blank \in Http
    BY DEF Blank, Http
  <1>3. End(c) => /\ http' \in [Caller -> Http] /\ http'[c] = Blank
                  /\ \A d \in Caller \ {c} : http'[d] = http[d]
    BY <1>1, <1>2 DEF End
  <1>4. ASSUME NEW pc \in {"used", "record", "member", "wait", "act", "update", "open"},
               Goto(c, pc)
        PROVE  /\ http' \in [Caller -> Http]
               /\ \A d \in Caller \ {c} : http'[d] = http[d]
               /\ http'[c].pc = pc /\ http'[c].by = http[c].by
               /\ http'[c].token = http[c].token /\ http'[c].user = http[c].user
               /\ http'[c].at = http[c].at /\ http'[c].target = http[c].target
    <2>1. PICK h \in Http : h = http[c]
      BY <1>1
    <2> DEFINE g == [h EXCEPT !.pc = pc]
    <2>2. /\ g \in Http /\ g.pc = pc /\ g.by = h.by /\ g.token = h.token
          /\ g.user = h.user /\ g.at = h.at /\ g.target = h.target
      BY <2>1 DEF Http
    <2>3. http' = [http EXCEPT ![c] = g]
      BY <1>4, <2>1 DEF Goto
    <2> HIDE DEF g
    <2> QED
      BY <1>1, <2>1, <2>2, <2>3
  <1>5. ASSUME NEW pc \in {"used", "act", "open"},
               NEW by \in {"token", "cookie", "login"}, NEW t \in Nat,
               NEW u \in User, LetIn(c, pc, by, t, u)
        PROVE  /\ http[c].pc = "idle"
               /\ http' \in [Caller -> Http]
               /\ \A d \in Caller \ {c} : http'[d] = http[d]
               /\ http'[c].pc = pc /\ http'[c].by = by
               /\ http'[c].token = t /\ http'[c].user = u
               /\ http'[c].at = now /\ http'[c].target = 0
    <2> DEFINE g == [pc |-> pc, by |-> by, token |-> t, user |-> u, at |-> now,
                     target |-> 0]
    <2>1. g \in Http
      BY <1>1 DEF Http
    <2>2. http' = [http EXCEPT ![c] = g] /\ http[c].pc = "idle"
      BY <1>5 DEF LetIn
    <2> QED
      BY <1>1, <2>1, <2>2
  <1> QED
    BY <1>1, <1>2, <1>3, <1>4, <1>5

\* What the UPDATEs do to the rows.
LEMMA Rows ==
  ASSUME AccessTypeOK, NEW t \in DOMAIN tokens
  PROVE  /\ t \in 1 .. MaxTokens /\ t \in Nat
         /\ \A k \in DOMAIN tokens : tokens[k] \in Token
         /\ tokens' = [tokens EXCEPT ![t].lastUsed = now] =>
              /\ tokens' \in Seq(Token) /\ Len(tokens') = Len(tokens)
              /\ DOMAIN tokens' = DOMAIN tokens
              /\ \A k \in DOMAIN tokens :
                   /\ tokens'[k].revokedAt = tokens[k].revokedAt
                   /\ tokens'[k].revokedBy = tokens[k].revokedBy
                   /\ k # t => tokens'[k] = tokens[k]
              /\ tokens'[t].lastUsed = now
         /\ \A u \in User :
              tokens' = [tokens EXCEPT ![t].revokedAt = now, ![t].revokedBy = u] =>
                /\ tokens' \in Seq(Token) /\ Len(tokens') = Len(tokens)
                /\ DOMAIN tokens' = DOMAIN tokens
                /\ \A k \in DOMAIN tokens :
                     /\ k # t => tokens'[k] = tokens[k]
                     /\ tokens'[k].lastUsed = tokens[k].lastUsed
                /\ tokens'[t].revokedAt = now /\ tokens'[t].revokedBy = u
  <1>1. tokens \in Seq(Token) /\ Len(tokens) <= MaxTokens /\ now \in Time
    BY DEF AccessTypeOK, PolicyTypeOK
  <1>2. t \in 1 .. MaxTokens /\ t \in Nat /\ \A k \in DOMAIN tokens : tokens[k] \in Token
    BY <1>1, AccessAssumption
  <1>3. PICK row \in Token : row = tokens[t]
    BY <1>2
  <1>4. ASSUME tokens' = [tokens EXCEPT ![t].lastUsed = now]
        PROVE  /\ tokens' \in Seq(Token) /\ Len(tokens') = Len(tokens)
               /\ DOMAIN tokens' = DOMAIN tokens
               /\ \A k \in DOMAIN tokens :
                    /\ tokens'[k].revokedAt = tokens[k].revokedAt
                    /\ tokens'[k].revokedBy = tokens[k].revokedBy
                    /\ k # t => tokens'[k] = tokens[k]
               /\ tokens'[t].lastUsed = now
    <2> DEFINE g == [row EXCEPT !.lastUsed = now]
    <2>1. g \in Token /\ g.lastUsed = now /\ g.revokedAt = row.revokedAt
          /\ g.revokedBy = row.revokedBy
      BY <1>1, <1>3 DEF Token
    <2>2. tokens' = [tokens EXCEPT ![t] = g]
      BY <1>3, <1>4
    <2> HIDE DEF g
    <2> QED
      BY <1>1, <1>2, <1>3, <2>1, <2>2
  <1>5. ASSUME NEW u \in User,
               tokens' = [tokens EXCEPT ![t].revokedAt = now, ![t].revokedBy = u]
        PROVE  /\ tokens' \in Seq(Token) /\ Len(tokens') = Len(tokens)
               /\ DOMAIN tokens' = DOMAIN tokens
               /\ \A k \in DOMAIN tokens :
                    /\ k # t => tokens'[k] = tokens[k]
                    /\ tokens'[k].lastUsed = tokens[k].lastUsed
               /\ tokens'[t].revokedAt = now /\ tokens'[t].revokedBy = u
    <2> DEFINE g == [row EXCEPT !.revokedAt = now, !.revokedBy = u]
    <2>1. g \in Token /\ g.lastUsed = row.lastUsed /\ g.revokedAt = now
          /\ g.revokedBy = u
      BY <1>1, <1>3 DEF Token
    <2>2. tokens' = [tokens EXCEPT ![t] = g]
      BY <1>3, <1>5
    <2> HIDE DEF g
    <2> QED
      BY <1>1, <1>2, <1>3, <2>1, <2>2
  <1> QED
    BY <1>2, <1>4, <1>5

\* A step of one request, by what it may do to everything.
Moved(c) ==
  /\ http' \in [Caller -> Http] /\ \A d \in Caller \ {c} : http'[d] = http[d]
  /\ asked' \in [Caller -> Question] /\ \A d \in Caller \ {c} : asked'[d] = asked[d]
  /\ UNCHANGED <<now, entitled, lastIn>>
  /\ tokens' \in Seq(Token) /\ Len(tokens') <= MaxTokens
  /\ DOMAIN tokens \subseteq DOMAIN tokens'
  /\ \A t \in DOMAIN tokens :
       \/ /\ tokens'[t].revokedAt = tokens[t].revokedAt
          /\ tokens'[t].revokedBy = tokens[t].revokedBy
       \/ /\ ~Revoked(t)
          /\ tokens'[t].revokedAt = now /\ tokens'[t].revokedBy \in User
  /\ \A t \in DOMAIN tokens' \ DOMAIN tokens :
       tokens'[t].revokedAt = Never /\ tokens'[t].revokedBy = NoOne
  /\ lastUsedMemo' \in [1 .. MaxTokens -> Time \cup {Never}]
  /\ lastUse' \in [1 .. MaxTokens -> Time \cup {Never}]
  /\ lost' \subseteq 1 .. MaxTokens
  /\ sessions' \subseteq Session

\* What a request's locals say of each other.
RequestType(h, rows) ==
  /\ h.by = "token" => h.token \in rows
  /\ h.pc \in {"used", "record", "member", "wait"} => h.by = "token"
  /\ h.pc = "update" => h.target \in rows

LEMMA MovedTypes ==
  ASSUME AccessTypeOK, NEW c \in Caller, Moved(c),
         RequestType(http'[c], DOMAIN tokens')
  PROVE  AccessTypeOK'
  <1>1. PolicyTypeOK'
    BY DEF AccessTypeOK, PolicyTypeOK, Moved
  <1>2. \A d \in Caller : RequestType(http'[d], DOMAIN tokens')
    BY DEF AccessTypeOK, Moved, RequestType
  <1>3. \A t \in DOMAIN tokens' : tokens'[t].revokedAt # Never <=> tokens'[t].revokedBy # NoOne
    BY UserAssumption DEF AccessTypeOK, Moved, Revoked, PolicyTypeOK, Time, Never
  <1> QED
    BY <1>1, <1>2, <1>3 DEF AccessTypeOK, Moved, RequestType, Revoked

LEMMA MovedRequests ==
  ASSUME AccessTypeOK, AccessInv, NEW c \in Caller, Moved(c), RequestInv(c)'
  PROVE  \A d \in Caller : RequestInv(d)'
  <1> SUFFICES ASSUME NEW d \in Caller, d # c
               PROVE  RequestInv(d)'
    OBVIOUS
  <1>1. RequestInv(d) /\ http'[d] = http[d] /\ asked'[d] = asked[d]
        /\ UNCHANGED <<now, lastIn>>
    BY DEF AccessInv, Moved
  <1>2. http[d].by = "token" /\ Revoked(http[d].token)' =>
          tokens'[http[d].token].revokedAt >= http[d].at
    <2> SUFFICES ASSUME http[d].by = "token", Revoked(http[d].token)'
                 PROVE  tokens'[http[d].token].revokedAt >= http[d].at
      OBVIOUS
    <2>1. http[d].token \in DOMAIN tokens /\ now \in Time
      BY DEF AccessTypeOK, PolicyTypeOK
    <2>2. http[d].at \in Time /\ http[d].at <= now
      BY <1>1 DEF RequestInv
    <2> QED
      BY <1>1, <2>1, <2>2 DEF Moved, RequestInv, Revoked, Time
  <1> QED
    BY <1>1, <1>2 DEF RequestInv

\* A step that does nothing about last_used_at.
LEMMA QuietRows ==
  ASSUME AccessTypeOK, AccessInv, NEW c \in Caller, Moved(c),
         UNCHANGED <<lastUsedMemo, lastUse, lost>>,
         DOMAIN tokens' = DOMAIN tokens,
         \A t \in DOMAIN tokens : tokens'[t].lastUsed = tokens[t].lastUsed,
         http[c].pc # "record"
  PROVE  \A t \in 1 .. MaxTokens : RowInv(t)'
  <1> SUFFICES ASSUME NEW t \in 1 .. MaxTokens
               PROVE  RowInv(t)'
    OBVIOUS
  <1>1. RowInv(t) /\ now' = now
    BY DEF AccessInv, Moved
  <1>2. Recording(t) => Recording(t)'
    BY DEF Recording, Moved
  <1> QED
    BY <1>1, <1>2 DEF RowInv

----------------------------------------------------------------------------
\* The actions

\* What every step of a request keeps.
Kept(c) ==
  /\ Moved(c) /\ RequestType(http'[c], DOMAIN tokens') /\ RequestInv(c)'
  /\ \A s \in sessions' : lastIn[s.user] >= s.expires - SessionLife
  /\ \A t \in 1 .. MaxTokens : RowInv(t)'

\* A step that changes nothing but the request's own locals.
LEMMA OwnLocals ==
  ASSUME AccessTypeOK, AccessInv, NEW c \in Caller,
         http' \in [Caller -> Http], \A d \in Caller \ {c} : http'[d] = http[d],
         asked' \in [Caller -> Question],
         \A d \in Caller \ {c} : asked'[d] = asked[d],
         UNCHANGED <<now, entitled, lastIn, tokens, lastUsedMemo, sessions,
                     lastUse, lost>>,
         http[c].pc # "record", RequestType(http'[c], DOMAIN tokens),
         RequestInv(c)'
  PROVE  Kept(c)
  <1>1. Moved(c)
    BY DEF Moved, AccessTypeOK
  <1>2. \A t \in 1 .. MaxTokens : RowInv(t)'
    BY <1>1, QuietRows
  <1> QED
    BY <1>1, <1>2 DEF Kept, AccessInv, HistoryInv

\* A request comes with a token, with a cookie, or to log in.
LEMMA Begins ==
  ASSUME AccessTypeOK, AccessInv, NEW c \in Caller, UNCHANGED policyVars,
         \/ \E t \in DOMAIN tokens : Verify(c, t)
         \/ \E s \in sessions : ValidateSession(c, s)
         \/ \E u \in User : Login(c, u)
  PROVE  Kept(c)
  <1>1. /\ RequestInv(c) /\ HistoryInv
        /\ now \in Time /\ asked \in [Caller -> Question] /\ lastIn \in [User -> Time \cup {Never}]
    BY DEF AccessInv, AccessTypeOK, PolicyTypeOK
  <1>2. /\ UNCHANGED <<now, entitled, lastIn, asked>>
        /\ UNCHANGED <<tokens, lastUsedMemo, sessions, lastUse, lost>>
    BY DEF policyVars, Verify, ValidateSession, Login
  <1>3. CASE \E t \in DOMAIN tokens : Verify(c, t)
    <2>1. PICK t \in DOMAIN tokens : Verify(c, t)
      BY <1>3
    <2>2. t \in Nat /\ tokens[t].owner \in User /\ ~Revoked(t)
      BY <2>1, Rows DEF Token, Verify, Live
    <2>3. /\ http[c].pc = "idle"
          /\ http' \in [Caller -> Http]
          /\ \A d \in Caller \ {c} : http'[d] = http[d]
          /\ http'[c].pc = "used" /\ http'[c].by = "token"
          /\ http'[c].token = t /\ http'[c].user \in User /\ http'[c].at = now
      BY <2>1, <2>2, Requests DEF Verify
    <2>4. RequestInv(c)'
      BY <1>1, <1>2, <2>2, <2>3 DEF RequestInv, Revoked, Time
    <2> QED
      BY <1>1, <1>2, <2>3, <2>4, OwnLocals DEF RequestType
  <1>4. CASE \E s \in sessions : ValidateSession(c, s)
    <2>1. PICK s \in sessions : ValidateSession(c, s)
      BY <1>4
    <2>2. /\ s.user \in User /\ s.expires \in Nat /\ s.expires > now
          /\ lastIn[s.user] >= s.expires - SessionLife
      BY <1>1, <2>1 DEF AccessTypeOK, Session, ValidateSession, Valid, HistoryInv
    <2>3. /\ http[c].pc = "idle"
          /\ http' \in [Caller -> Http]
          /\ \A d \in Caller \ {c} : http'[d] = http[d]
          /\ http'[c].pc = "act" /\ http'[c].by = "cookie"
          /\ http'[c].user = s.user /\ http'[c].at = now
      BY <2>1, <2>2, Requests DEF ValidateSession
    <2>4. lastIn[s.user] > now - SessionLife
      BY <1>1, <2>2, AccessAssumption DEF Time, Never
    <2>5. RequestInv(c)'
      BY <1>1, <1>2, <2>2, <2>3, <2>4 DEF RequestInv, Grace, Time
    <2> QED
      BY <1>1, <1>2, <2>3, <2>5, OwnLocals DEF RequestType
  <1>5. CASE \E u \in User : Login(c, u)
    <2>1. PICK u \in User : Login(c, u)
      BY <1>5
    <2>2. /\ http[c].pc = "idle"
          /\ http' \in [Caller -> Http]
          /\ \A d \in Caller \ {c} : http'[d] = http[d]
          /\ http'[c].pc = "open" /\ http'[c].by = "login"
          /\ http'[c].user = u /\ http'[c].at = now
      BY <2>1, Requests DEF Login
    <2>3. lastIn[u] = now
      BY <1>1, <2>1 DEF Login, HistoryInv
    <2>4. RequestInv(c)'
      BY <1>1, <1>2, <2>2, <2>3 DEF RequestInv, Time
    <2> QED
      BY <1>1, <1>2, <2>2, <2>4, OwnLocals DEF RequestType
  <1> QED
    BY <1>3, <1>4, <1>5

\* A request is over, without a trace.
LEMMA Ends ==
  ASSUME AccessTypeOK, AccessInv, NEW c \in Caller, UNCHANGED policyVars,
         End(c), http[c].pc \in {"act", "update", "open"}
  PROVE  /\ http' \in [Caller -> Http]
         /\ \A d \in Caller \ {c} : http'[d] = http[d]
         /\ RequestType(http'[c], DOMAIN tokens') /\ RequestInv(c)'
  <1>1. RequestInv(c) /\ asked' = asked
    BY DEF AccessInv, policyVars
  <1>2. /\ http' \in [Caller -> Http] /\ http'[c] = Blank
        /\ \A d \in Caller \ {c} : http'[d] = http[d]
    BY Requests
  <1>3. http'[c].pc = "idle" /\ http'[c].by = "none"
    BY <1>2 DEF Blank
  <1>4. RequestInv(c)'
    BY <1>1, <1>3, Requests DEF RequestInv, AccessTypeOK, PolicyTypeOK, Question
  <1> QED
    BY <1>2, <1>3, <1>4 DEF RequestType

LEMMA Finishes ==
  ASSUME AccessTypeOK, AccessInv, NEW c \in Caller, UNCHANGED policyVars,
         \/ Use(c) \/ RequestFails(c)
         \/ \E t \in DOMAIN tokens : GetToken(c, t)
  PROVE  Kept(c)
  <1>1. /\ RequestInv(c) /\ asked' = asked /\ asked \in [Caller -> Question]
        /\ UNCHANGED <<now, entitled, lastIn>>
    BY DEF AccessInv, policyVars, AccessTypeOK, PolicyTypeOK
  <1>2. UNCHANGED <<tokens, lastUsedMemo, sessions, lastUse, lost>>
    BY DEF Use, RequestFails, GetToken
  <1>3. CASE End(c) /\ http[c].pc \in {"act", "update", "open"}
    BY <1>1, <1>2, <1>3, Ends, OwnLocals
  <1>4. CASE \E t \in DOMAIN tokens :
               /\ http[c].pc = "act"
               /\ http' = [http EXCEPT ![c].pc = "update", ![c].target = t]
    <2>1. PICK t \in DOMAIN tokens :
            http' = [http EXCEPT ![c].pc = "update", ![c].target = t]
      BY <1>4
    <2>2. PICK h \in Http : h = http[c]
      BY Requests
    <2>3. t \in Nat
      BY Rows
    <2> DEFINE g == [h EXCEPT !.pc = "update", !.target = t]
    <2>4. /\ g \in Http /\ g.pc = "update" /\ g.target = t /\ g.by = h.by
          /\ g.token = h.token /\ g.user = h.user /\ g.at = h.at
      BY <2>2, <2>3 DEF Http
    <2>5. http' = [http EXCEPT ![c] = g]
      BY <2>1, <2>2
    <2> HIDE DEF g
    <2>6. /\ http' \in [Caller -> Http] /\ http'[c] = g
          /\ \A d \in Caller \ {c} : http'[d] = http[d]
      BY <2>4, <2>5 DEF AccessTypeOK
    <2>7. RequestInv(c)'
      BY <1>1, <1>2, <1>4, <2>2, <2>4, <2>6 DEF RequestInv, Revoked
    <2>8. RequestType(g, DOMAIN tokens)
      BY <2>2, <2>4 DEF RequestType, AccessTypeOK
    <2> QED
      BY <1>1, <1>2, <1>4, <2>6, <2>7, <2>8, OwnLocals
  <1> QED
    BY <1>3, <1>4 DEF Use, RequestFails, GetToken

\* A request asks IsAllowed, is answered, or hears the answer: the bound on a
\* yes is the policy's, seen from the earlier moment of the token's lookup.
LEMMA Consults ==
  ASSUME AccessTypeOK, AccessInv, NEW c \in Caller, Consult(c)
  PROVE  Kept(c)
  <1>1. /\ RequestInv(c) /\ asked \in [Caller -> Question] /\ now \in Time
        /\ http \in [Caller -> Http] /\ lastIn \in [User -> Time \cup {Never}]
        /\ UNCHANGED <<now, entitled, lastIn>>
        /\ RequestType(http[c], DOMAIN tokens)
    BY DEF AccessInv, AccessTypeOK, PolicyTypeOK, Consult, RequestType
  <1>2. UNCHANGED <<tokens, lastUsedMemo, sessions, lastUse, lost>>
    BY DEF Consult, AskMembership, HearMembership, accessVars
  <1>3. CASE AskMembership(c)
    <2>1. /\ http[c].pc = "member" /\ asked[c].pc = "idle"
          /\ http[c].user \in User /\ http[c].by = "token"
      BY <1>1, <1>3 DEF AskMembership, RequestInv, Ask, RequestType
    <2>2. /\ http' \in [Caller -> Http]
          /\ \A d \in Caller \ {c} : http'[d] = http[d]
          /\ http'[c].pc = "wait" /\ http'[c].by = http[c].by
          /\ http'[c].token = http[c].token /\ http'[c].user = http[c].user
          /\ http'[c].at = http[c].at
      BY <1>3, Requests DEF AskMembership
    <2> DEFINE q == [pc |-> "asked", user |-> http[c].user, at |-> now,
                     answer |-> FALSE]
    <2>3. q \in Question
      BY <1>1, <2>1 DEF Question
    <2>4. /\ asked' \in [Caller -> Question] /\ asked'[c] = q
          /\ \A d \in Caller \ {c} : asked'[d] = asked[d]
      BY <1>1, <1>3, <2>3 DEF AskMembership, Ask
    <2>5. /\ asked'[c].pc = "asked" /\ asked'[c].user = http[c].user
          /\ asked'[c].at = now
      BY <2>4
    <2>6. RequestInv(c)'
      BY <1>1, <1>2, <2>1, <2>2, <2>5 DEF RequestInv, Revoked
    <2> QED
      BY <1>1, <1>2, <2>1, <2>2, <2>4, <2>6, OwnLocals DEF RequestType
  <1>4. CASE HearMembership(c)
    <2>1. http[c].pc = "wait" /\ asked[c].pc = "answered"
      BY <1>4 DEF HearMembership, Leave
    <2>2. Idle \in Question /\ Idle.pc = "idle"
      BY DEF Idle, Question
    <2>3. /\ asked' \in [Caller -> Question] /\ asked'[c] = Idle
          /\ \A d \in Caller \ {c} : asked'[d] = asked[d]
      BY <1>1, <1>4, <2>2 DEF HearMembership, Leave
    <2>4. CASE asked[c].answer /\ Goto(c, "act")
      <3>1. /\ http' \in [Caller -> Http]
            /\ \A d \in Caller \ {c} : http'[d] = http[d]
            /\ http'[c].pc = "act" /\ http'[c].by = http[c].by
            /\ http'[c].token = http[c].token /\ http'[c].user = http[c].user
            /\ http'[c].at = http[c].at
        BY <2>4, Requests
      <3>2. http[c].by = "token" /\ asked[c].user = http[c].user
            /\ asked[c].at \in Time /\ asked[c].at >= http[c].at
            /\ http[c].at \in Time /\ http[c].user \in User
        BY <1>1, <2>1 DEF RequestInv
      <3>3. lastIn[http[c].user] > http[c].at - Grace(http[c].by)
        <4>1. lastIn[http[c].user] > asked[c].at - TTL
          BY <1>1, <2>1, <2>4, <3>2 DEF RequestInv
        <4> QED
          BY <1>1, <3>2, <4>1, TTLAssumption DEF Grace, Time, Never
      <3>4. RequestInv(c)'
        BY <1>1, <1>2, <2>1, <2>2, <2>3, <3>1, <3>2, <3>3 DEF RequestInv, Revoked
      <3> QED
        BY <1>1, <1>2, <2>1, <2>3, <3>1, <3>2, <3>4, OwnLocals DEF RequestType
    <2>5. CASE End(c)
      <3>1. /\ http' \in [Caller -> Http] /\ http'[c] = Blank
            /\ \A d \in Caller \ {c} : http'[d] = http[d]
        BY <2>5, Requests
      <3>2. http'[c].pc = "idle" /\ http'[c].by = "none"
        BY <3>1 DEF Blank
      <3>3. RequestInv(c)'
        BY <2>2, <2>3, <3>2 DEF RequestInv
      <3> QED
        BY <1>1, <1>2, <2>1, <2>3, <3>1, <3>2, <3>3, OwnLocals DEF RequestType
    <2> QED
      BY <1>4, <2>4, <2>5 DEF HearMembership
  <1>5. CASE (\E yes \in BOOLEAN : Answer(c, yes)) /\ UNCHANGED accessVars
    <2>1. PICK yes \in BOOLEAN : Answer(c, yes)
      BY <1>5
    <2>2. http' = http
      BY <1>5 DEF accessVars
    <2>3. asked[c].pc = "asked" /\ http[c].pc = "wait"
      BY <1>1, <2>1 DEF Answer, RequestInv
    <2> DEFINE q == [pc |-> "answered", user |-> asked[c].user, at |-> asked[c].at,
                     answer |-> yes]
    <2>4. q \in Question
      BY <1>1 DEF Question
    <2>5. /\ asked' \in [Caller -> Question] /\ asked'[c] = q
          /\ \A d \in Caller \ {c} : asked'[d] = asked[d]
      BY <1>1, <2>1, <2>4 DEF Answer
    <2>6. yes => lastIn[asked[c].user] > asked[c].at - TTL
      BY <2>1 DEF Answer
    <2>7. /\ asked'[c].pc = "answered" /\ asked'[c].user = asked[c].user
          /\ asked'[c].at = asked[c].at
          /\ asked'[c].answer => lastIn[asked[c].user] > asked[c].at - TTL
      BY <2>5, <2>6
    <2>8. RequestInv(c)'
      BY <1>1, <1>2, <2>2, <2>3, <2>7 DEF RequestInv, Revoked
    <2> QED
      BY <1>1, <1>2, <2>2, <2>3, <2>5, <2>8, OwnLocals
  <1> QED
    BY <1>3, <1>4, <1>5 DEF Consult

LEMMA CreateKeeps ==
  ASSUME AccessTypeOK, AccessInv, NEW c \in Caller, UNCHANGED policyVars,
         CreateToken(c)
  PROVE  Kept(c)
  <1> DEFINE n == Len(tokens) + 1
             row == [owner |-> http[c].user, lastUsed |-> Never,
                     revokedAt |-> Never, revokedBy |-> NoOne]
  <1>1. /\ RequestInv(c) /\ tokens \in Seq(Token) /\ Len(tokens) < MaxTokens
        /\ http[c].pc = "act" /\ UNCHANGED <<now, entitled, lastIn, asked>>
        /\ asked \in [Caller -> Question]
    BY DEF AccessInv, AccessTypeOK, PolicyTypeOK, CreateToken, policyVars
  <1>2. row \in Token /\ row.revokedAt = Never /\ row.revokedBy = NoOne
    BY <1>1 DEF RequestInv, Token
  <1>3. tokens' = Append(tokens, row)
        /\ UNCHANGED <<lastUsedMemo, sessions, lastUse, lost>>
    BY DEF CreateToken
  <1> HIDE DEF row
  <1>4. /\ tokens' \in Seq(Token) /\ Len(tokens') = n /\ Len(tokens) \in Nat
        /\ DOMAIN tokens = 1 .. Len(tokens) /\ DOMAIN tokens' = 1 .. n
        /\ tokens'[n] = row
        /\ \A t \in DOMAIN tokens : tokens'[t] = tokens[t]
    BY <1>1, <1>2, <1>3
  <1>5. DOMAIN tokens' = DOMAIN tokens \cup {n} /\ n \notin DOMAIN tokens
        /\ n \in 1 .. MaxTokens /\ n <= MaxTokens
    BY <1>1, <1>4, AccessAssumption
  <1>6. /\ http' \in [Caller -> Http]
        /\ \A d \in Caller \ {c} : http'[d] = http[d]
        /\ RequestType(http'[c], DOMAIN tokens') /\ RequestInv(c)'
    BY <1>1, Ends DEF CreateToken
  <1>7. Moved(c)
    BY <1>1, <1>2, <1>3, <1>4, <1>5, <1>6 DEF Moved, AccessTypeOK
  <1>8. ASSUME NEW t \in 1 .. MaxTokens
        PROVE  RowInv(t)'
    <2>1. RowInv(t) /\ (Recording(t) => Recording(t)')
      BY <1>1, <1>7 DEF AccessInv, Recording, Moved
    <2>2. CASE t = n
      BY <1>1, <1>3, <1>5, <2>1, <2>2 DEF RowInv
    <2>3. CASE t # n
      BY <1>1, <1>3, <1>4, <1>5, <2>1, <2>3 DEF RowInv
    <2> QED
      BY <2>2, <2>3
  <1> QED
    BY <1>1, <1>3, <1>6, <1>7, <1>8 DEF Kept, AccessInv, HistoryInv

LEMMA RevokeKeeps ==
  ASSUME AccessTypeOK, AccessInv, NEW c \in Caller, UNCHANGED policyVars,
         Revoke(c)
  PROVE  Kept(c)
  <1> DEFINE t == http[c].target
  <1>1. /\ RequestInv(c) /\ tokens \in Seq(Token) /\ Len(tokens) <= MaxTokens
        /\ http[c].pc = "update" /\ UNCHANGED <<now, entitled, lastIn, asked>>
        /\ asked \in [Caller -> Question] /\ t \in DOMAIN tokens
        /\ UNCHANGED <<lastUsedMemo, sessions, lastUse, lost>>
        /\ http[c].user \in User
    BY DEF AccessInv, AccessTypeOK, PolicyTypeOK, Revoke, policyVars, RequestInv
  <1>2. /\ http' \in [Caller -> Http]
        /\ \A d \in Caller \ {c} : http'[d] = http[d]
        /\ RequestType(http'[c], DOMAIN tokens') /\ RequestInv(c)'
    BY <1>1, Ends DEF Revoke
  <1>3. \/ tokens' = tokens
        \/ /\ ~Revoked(t)
           /\ tokens' = [tokens EXCEPT ![t].revokedAt = now,
                                       ![t].revokedBy = http[c].user]
    BY DEF Revoke, Revocable
  <1> HIDE DEF t
  <1>4. /\ tokens' \in Seq(Token) /\ Len(tokens') = Len(tokens)
        /\ DOMAIN tokens' = DOMAIN tokens
        /\ \A k \in DOMAIN tokens : tokens'[k].lastUsed = tokens[k].lastUsed
        /\ \A k \in DOMAIN tokens :
             \/ tokens'[k] = tokens[k]
             \/ /\ ~Revoked(k)
                /\ tokens'[k].revokedAt = now /\ tokens'[k].revokedBy \in User
    <2>1. CASE tokens' = tokens
      BY <1>1, <2>1
    <2>2. CASE /\ ~Revoked(t)
               /\ tokens' = [tokens EXCEPT ![t].revokedAt = now,
                                           ![t].revokedBy = http[c].user]
      <3>1. PICK u \in User : u = http[c].user
        BY <1>1
      <3>2. /\ tokens' \in Seq(Token) /\ Len(tokens') = Len(tokens)
            /\ DOMAIN tokens' = DOMAIN tokens
            /\ \A k \in DOMAIN tokens :
                 /\ k # t => tokens'[k] = tokens[k]
                 /\ tokens'[k].lastUsed = tokens[k].lastUsed
            /\ tokens'[t].revokedAt = now /\ tokens'[t].revokedBy = u
        BY <1>1, <2>2, <3>1, Rows
      <3> QED
        BY <2>2, <3>2
    <2> QED
      BY <1>3, <2>1, <2>2
  <1>5. Moved(c)
    BY <1>1, <1>2, <1>4 DEF Moved, AccessTypeOK
  <1>6. \A k \in 1 .. MaxTokens : RowInv(k)'
    BY <1>1, <1>4, <1>5, QuietRows
  <1> QED
    BY <1>1, <1>2, <1>5, <1>6 DEF Kept, AccessInv, HistoryInv

LEMMA OpenKeeps ==
  ASSUME AccessTypeOK, AccessInv, NEW c \in Caller, UNCHANGED policyVars,
         OpenSession(c)
  PROVE  Kept(c)
  <1> DEFINE new == [user |-> http[c].user, expires |-> http[c].at + SessionLife]
  <1>1. /\ RequestInv(c) /\ sessions \subseteq Session
        /\ http[c].pc = "open" /\ UNCHANGED <<now, entitled, lastIn, asked>>
        /\ asked \in [Caller -> Question]
        /\ UNCHANGED <<tokens, lastUsedMemo, lastUse, lost>>
        /\ http[c].user \in User /\ http[c].at \in Time
        /\ lastIn[http[c].user] >= http[c].at
        /\ sessions' = sessions \cup {new}
    BY DEF AccessInv, AccessTypeOK, PolicyTypeOK, OpenSession, policyVars, RequestInv
  <1>2. /\ http' \in [Caller -> Http]
        /\ \A d \in Caller \ {c} : http'[d] = http[d]
        /\ RequestType(http'[c], DOMAIN tokens') /\ RequestInv(c)'
    BY <1>1, Ends DEF OpenSession
  <1>3. new \in Session /\ lastIn[new.user] >= new.expires - SessionLife
    <2>1. http[c].at + SessionLife \in Nat /\ (http[c].at + SessionLife) - SessionLife = http[c].at
      BY <1>1, AccessAssumption DEF Time
    <2> QED
      BY <1>1, <2>1 DEF Session
  <1> HIDE DEF new
  <1>4. Moved(c)
    BY <1>1, <1>2, <1>3 DEF Moved, AccessTypeOK
  <1>5. \A k \in 1 .. MaxTokens : RowInv(k)'
    BY <1>1, <1>4, QuietRows
  <1> QED
    BY <1>1, <1>2, <1>3, <1>4, <1>5 DEF Kept, AccessInv, HistoryInv

\* A use is noted: the memo is trusted only while the row can be no older.
LEMMA RecordKeeps ==
  ASSUME AccessTypeOK, AccessInv, NEW c \in Caller, UNCHANGED policyVars,
         RecordLastUsed(c)
  PROVE  Kept(c)
  <1> DEFINE t == http[c].token
  <1>1. /\ RequestInv(c) /\ now \in Time /\ asked \in [Caller -> Question]
        /\ http[c].pc = "used" /\ http[c].by = "token" /\ t \in DOMAIN tokens
        /\ UNCHANGED <<now, entitled, lastIn, asked, tokens, sessions, lost>>
        /\ lastUse' = [lastUse EXCEPT ![t] = now]
        /\ lastUse \in [1 .. MaxTokens -> Time \cup {Never}]
        /\ lastUsedMemo \in [1 .. MaxTokens -> Time \cup {Never}]
    BY DEF AccessInv, AccessTypeOK, PolicyTypeOK, RecordLastUsed, policyVars
  <1>2. t \in 1 .. MaxTokens
    BY <1>1, Rows
  <1>3. /\ lastUse' \in [1 .. MaxTokens -> Time \cup {Never}] /\ lastUse'[t] = now
        /\ \A k \in 1 .. MaxTokens : k # t => lastUse'[k] = lastUse[k]
    BY <1>1, <1>2
  <1>4. \/ Throttled(t) /\ Goto(c, "member") /\ UNCHANGED lastUsedMemo
        \/ Goto(c, "record") /\ lastUsedMemo' = [lastUsedMemo EXCEPT ![t] = now]
    BY DEF RecordLastUsed
  <1>5. /\ lastUsedMemo' \in [1 .. MaxTokens -> Time \cup {Never}]
        /\ \A k \in 1 .. MaxTokens : k # t => lastUsedMemo'[k] = lastUsedMemo[k]
        /\ lastUsedMemo'[t] \in {lastUsedMemo[t], now}
    BY <1>1, <1>2, <1>4
  <1>6. /\ http' \in [Caller -> Http]
        /\ \A d \in Caller \ {c} : http'[d] = http[d]
        /\ http'[c].pc \in {"member", "record"} /\ http'[c].by = "token"
        /\ http'[c].token = t /\ http'[c].user = http[c].user
        /\ http'[c].at = http[c].at
        /\ \/ Throttled(t) /\ UNCHANGED lastUsedMemo
           \/ http'[c].pc = "record"
    BY <1>1, <1>4, Requests
  <1>7. RequestInv(c)'
    BY <1>1, <1>6 DEF RequestInv, Revoked
  <1>8. RequestType(http'[c], DOMAIN tokens')
    BY <1>1, <1>6 DEF RequestType
  <1>9. Moved(c)
    BY <1>1, <1>3, <1>5, <1>6 DEF Moved, AccessTypeOK
  <1>10. ASSUME NEW k \in 1 .. MaxTokens
         PROVE  RowInv(k)'
    <2>1. RowInv(k)
      BY DEF AccessInv
    <2>2. Recording(k) => Recording(k)'
      BY <1>1, <1>6 DEF Recording
    <2>3. CASE k # t
      BY <1>1, <1>3, <1>5, <2>1, <2>2, <2>3 DEF RowInv
    <2>4. CASE k = t /\ http'[c].pc = "record"
      <3>1. Recording(k)'
        BY <1>6, <2>4 DEF Recording
      <3> QED
        BY <1>1, <1>3, <1>5, <2>1, <2>4, <3>1 DEF RowInv, Time, Never
    <2>5. CASE k = t /\ Throttled(t) /\ UNCHANGED lastUsedMemo
      <3>1. CASE t \in lost \/ Recording(t)
        BY <1>1, <1>3, <2>1, <2>2, <2>5, <3>1 DEF RowInv, Time, Never
      <3>2. CASE ~(t \in lost \/ Recording(t))
        <4>1. tokens[t].lastUsed >= lastUsedMemo[t]
          BY <1>1, <2>1, <2>5, <3>2 DEF RowInv, Throttled
        <4>2. tokens[t].lastUsed \in Time \cup {Never}
          BY <1>1, Rows DEF Token
        <4>3. lastUsedMemo[t] \in Time \cup {Never}
          BY <1>1, <1>2
        <4>4. tokens[t].lastUsed > now - Throttle
          BY <1>1, <2>5, <4>1, <4>2, <4>3, AccessAssumption DEF Throttled, Time, Never
        <4> QED
          BY <1>1, <1>3, <2>1, <2>5, <4>1, <4>4 DEF RowInv, Time, Never
      <3> QED
        BY <3>1, <3>2
    <2> QED
      BY <1>6, <2>3, <2>4, <2>5
  <1> QED
    BY <1>1, <1>7, <1>8, <1>9, <1>10 DEF Kept, AccessInv, HistoryInv

\* The UPDATE, or its failure.
LEMMA UpdateKeeps ==
  ASSUME AccessTypeOK, AccessInv, NEW c \in Caller, UNCHANGED policyVars,
         UpdateLastUsed(c) \/ UpdateLastUsedFails(c)
  PROVE  Kept(c)
  <1> DEFINE t == http[c].token
  <1>1. /\ RequestInv(c) /\ now \in Time /\ asked \in [Caller -> Question]
        /\ http[c].pc = "record" /\ http[c].by = "token" /\ t \in DOMAIN tokens
        /\ UNCHANGED <<now, entitled, lastIn, asked, sessions, lastUsedMemo, lastUse>>
        /\ lost \subseteq 1 .. MaxTokens /\ Goto(c, "member")
        /\ lastUse \in [1 .. MaxTokens -> Time \cup {Never}]
        /\ tokens \in Seq(Token) /\ Len(tokens) <= MaxTokens
    BY DEF AccessInv, AccessTypeOK, PolicyTypeOK, UpdateLastUsed,
           UpdateLastUsedFails, policyVars
  <1>2. t \in 1 .. MaxTokens
    BY <1>1, Rows
  <1>3. /\ http' \in [Caller -> Http]
        /\ \A d \in Caller \ {c} : http'[d] = http[d]
        /\ http'[c].pc = "member" /\ http'[c].by = "token"
        /\ http'[c].token = t /\ http'[c].user = http[c].user
        /\ http'[c].at = http[c].at
    BY <1>1, Requests
  <1>4. /\ tokens' \in Seq(Token) /\ Len(tokens') = Len(tokens)
        /\ DOMAIN tokens' = DOMAIN tokens
        /\ \A k \in DOMAIN tokens :
             /\ tokens'[k].revokedAt = tokens[k].revokedAt
             /\ tokens'[k].revokedBy = tokens[k].revokedBy
             /\ k # t => tokens'[k] = tokens[k]
        /\ lost' \subseteq 1 .. MaxTokens
        /\ \A k : k # t /\ k \in lost => k \in lost'
        /\ t \in lost' \/ tokens'[t].lastUsed = now
    BY <1>1, <1>2, Rows DEF UpdateLastUsed, UpdateLastUsedFails
  <1>5. RequestInv(c)'
    BY <1>1, <1>3, <1>4 DEF RequestInv, Revoked
  <1>6. RequestType(http'[c], DOMAIN tokens')
    BY <1>1, <1>3, <1>4 DEF RequestType
  <1>7. Moved(c)
    BY <1>1, <1>3, <1>4 DEF Moved, AccessTypeOK
  <1>8. ASSUME NEW k \in 1 .. MaxTokens
        PROVE  RowInv(k)'
    <2>1. RowInv(k)
      BY DEF AccessInv
    <2>2. CASE k # t
      <3>1. Recording(k) => Recording(k)'
        BY <1>1, <1>3, <2>2 DEF Recording
      <3> QED
        BY <1>1, <1>4, <2>1, <2>2, <3>1 DEF RowInv
    <2>3. CASE k = t /\ t \in lost'
      BY <1>1, <1>4, <2>1, <2>3 DEF RowInv
    <2>4. CASE k = t /\ tokens'[t].lastUsed = now
      <3>1. lastUse[t] <= now /\ lastUse[t] \in Time \cup {Never}
        BY <1>1, <1>2, <2>1, <2>4 DEF RowInv
      <3>2. now > lastUse[t] - Throttle
        <4>1. PICK m \in Int : m = lastUse[t]
          BY <3>1, MaxTimeAssumption DEF Time, Never
        <4>2. now \in Int /\ m <= now /\ Throttle \in Int /\ Throttle > 0
          BY <1>1, <3>1, <4>1, AccessAssumption DEF Time
        <4> QED
          BY <4>1, <4>2
      <3> QED
        BY <1>1, <1>4, <2>1, <2>4, <3>2 DEF RowInv
    <2> QED
      BY <1>4, <2>2, <2>3, <2>4
  <1> QED
    BY <1>1, <1>5, <1>6, <1>7, <1>8 DEF Kept, AccessInv, HistoryInv

\* Entitlement comes and goes, and time passes: no bound is weakened, since
\* lastIn only moves on.
LEMMA WorldKeeps ==
  ASSUME AccessTypeOK, AccessInv, World, UNCHANGED accessVars
  PROVE  AccessTypeOK' /\ AccessInv'
  <1>1. /\ now \in Time /\ now' \in Time /\ now <= now'
        /\ entitled \subseteq User /\ entitled' \subseteq User /\ asked' = asked
        /\ lastIn \in [User -> Time \cup {Never}]
    BY MaxTimeAssumption DEF AccessTypeOK, PolicyTypeOK, World, Time
  <1>2. ASSUME NEW u \in User
        PROVE  /\ lastIn'[u] \in Time \cup {Never}
               /\ lastIn[u] <= lastIn'[u] /\ lastIn'[u] <= now'
               /\ u \in entitled' => lastIn'[u] = now'
    <2>1. lastIn'[u] = IF u \in entitled' THEN now'
                       ELSE IF u \in entitled THEN now ELSE lastIn[u]
      BY DEF World
    <2>2. lastIn[u] \in Time \cup {Never} /\ lastIn[u] <= now
          /\ (u \in entitled => lastIn[u] = now)
      BY <1>1 DEF AccessInv, HistoryInv
    <2> QED
      BY <1>1, <2>1, <2>2 DEF Time, Never
  <1>3. lastIn' \in [User -> Time \cup {Never}]
    <2>1. lastIn' = [u \in User |-> lastIn'[u]]
      BY DEF World
    <2> QED
      BY <1>2, <2>1
  <1>4. AccessTypeOK'
    BY <1>1, <1>3 DEF AccessTypeOK, PolicyTypeOK, accessVars, Revoked
  <1>5. HistoryInv'
    <2>1. \A s \in sessions : s.user \in User /\ s.expires \in Nat
      BY DEF AccessTypeOK, Session
    <2>2. \A s \in sessions : lastIn[s.user] >= s.expires - SessionLife
      BY DEF AccessInv, HistoryInv
    <2>3. ASSUME NEW s \in sessions
          PROVE  lastIn'[s.user] >= s.expires - SessionLife
      BY <1>1, <1>2, <2>1, <2>2, AccessAssumption DEF Time, Never
    <2> QED
      BY <1>2, <2>3 DEF HistoryInv, accessVars
  <1>6. ASSUME NEW c \in Caller
        PROVE  RequestInv(c)'
    <2>1. RequestInv(c) /\ UNCHANGED <<http, tokens, asked>>
      BY <1>1 DEF AccessInv, accessVars
    <2>2. http[c].pc \in {"act", "update"} =>
            lastIn'[http[c].user] > http[c].at - Grace(http[c].by)
      BY <1>1, <1>2, <2>1, TTLAssumption, AccessAssumption
      DEF RequestInv, Grace, Time, Never
    <2>3. http[c].pc = "open" => lastIn'[http[c].user] >= http[c].at
      BY <1>1, <1>2, <2>1 DEF RequestInv, Time, Never
    <2>4. asked[c].pc = "answered" /\ asked[c].answer =>
            lastIn'[asked[c].user] > asked[c].at - TTL
      <3> SUFFICES ASSUME asked[c].pc = "answered", asked[c].answer
                   PROVE  lastIn'[asked[c].user] > asked[c].at - TTL
        OBVIOUS
      <3>1. asked[c].user \in User /\ asked[c].at \in Time
            /\ lastIn[asked[c].user] > asked[c].at - TTL
        BY <2>1 DEF RequestInv
      <3> QED
        BY <1>1, <1>2, <3>1, TTLAssumption DEF Time, Never
    <2>5. http[c].pc # "idle" => http[c].at <= now'
      BY <1>1, <2>1 DEF RequestInv, Time
    <2> QED
      BY <2>1, <2>2, <2>3, <2>4, <2>5 DEF RequestInv, Revoked
  <1>7. ASSUME NEW t \in 1 .. MaxTokens
        PROVE  RowInv(t)'
    <2>1. /\ RowInv(t)
          /\ UNCHANGED <<http, tokens, lastUsedMemo, lastUse, lost>>
          /\ lastUsedMemo[t] \in Time \cup {Never} /\ lastUse[t] \in Time \cup {Never}
      BY DEF AccessInv, accessVars, AccessTypeOK
    <2>2. lastUsedMemo[t] <= now' /\ lastUse[t] <= now'
      BY <1>1, <2>1 DEF RowInv, Time, Never
    <2>3. Recording(t)' <=> Recording(t)
      BY <2>1 DEF Recording
    <2> QED
      BY <2>1, <2>2, <2>3 DEF RowInv
  <1> QED
    BY <1>4, <1>5, <1>6, <1>7 DEF AccessInv

LEMMA RestartKeeps ==
  ASSUME AccessTypeOK, AccessInv, RestartAll
  PROVE  AccessTypeOK' /\ AccessInv'
  <1>1. /\ UNCHANGED <<now, entitled, lastIn, tokens, sessions, lastUse>>
        /\ lastUsedMemo' = [t \in 1 .. MaxTokens |-> Never]
        /\ http' = [c \in Caller |-> Blank]
        /\ asked' = [c \in Caller |-> Idle]
        /\ lost' = lost \cup
             {http[c].token : c \in {d \in Caller : http[d].pc = "record"}}
    BY DEF RestartAll, Restart
  <1>2. Blank \in Http /\ Idle \in Question /\ Blank.pc = "idle"
        /\ Blank.by = "none" /\ Idle.pc = "idle"
    BY DEF Blank, Http, Idle, Question
  <1>3. lost' \subseteq 1 .. MaxTokens
    <2>1. \A c \in Caller : http[c].pc = "record" => http[c].token \in DOMAIN tokens
      BY DEF AccessTypeOK
    <2>2. DOMAIN tokens \subseteq 1 .. MaxTokens
      BY Rows
    <2> QED
      BY <1>1, <2>1, <2>2 DEF AccessTypeOK
  <1>4. AccessTypeOK'
    <2>1. PolicyTypeOK'
      BY <1>1, <1>2 DEF AccessTypeOK, PolicyTypeOK
    <2>2. http' \in [Caller -> Http]
      BY <1>1, <1>2
    <2> QED
      BY <1>1, <1>2, <1>3, <2>1, <2>2 DEF AccessTypeOK, Revoked
  <1>5. HistoryInv'
    BY <1>1 DEF AccessInv, HistoryInv
  <1>6. \A c \in Caller : RequestInv(c)'
    BY <1>1, <1>2 DEF RequestInv
  <1>7. ASSUME NEW t \in 1 .. MaxTokens
        PROVE  RowInv(t)'
    <2>1. RowInv(t) /\ now \in Time /\ lastUsedMemo'[t] = Never
      BY <1>1 DEF AccessInv, AccessTypeOK, PolicyTypeOK
    <2>2. t \in lost \/ Recording(t) => t \in lost'
      BY <1>1 DEF Recording
    <2> QED
      BY <1>1, <2>1, <2>2 DEF RowInv, Time, Never
  <1> QED
    BY <1>4, <1>5, <1>6, <1>7 DEF AccessInv

----------------------------------------------------------------------------
\* The theorems

LEMMA StepKeeps ==
  ASSUME AccessTypeOK, AccessInv, [AccessNext]_vars
  PROVE  AccessTypeOK' /\ AccessInv'
  <1>1. ASSUME NEW c \in Caller, Kept(c)
        PROVE  AccessTypeOK' /\ AccessInv'
    <2>1. Moved(c) /\ RequestInv(c)' /\ AccessTypeOK'
      BY <1>1, MovedTypes DEF Kept
    <2>2. \A d \in Caller : RequestInv(d)'
      BY <2>1, MovedRequests
    <2>3. HistoryInv'
      BY <1>1 DEF Kept, Moved, AccessInv, HistoryInv
    <2> QED
      BY <1>1, <2>1, <2>2, <2>3 DEF Kept, AccessInv
  <1>2. ASSUME NEW c \in Caller, Serve(c)
        PROVE  Kept(c)
    BY <1>2, Begins, Finishes, CreateKeeps, RevokeKeeps, OpenKeeps, RecordKeeps,
       UpdateKeeps DEF Serve
  <1>3. CASE UNCHANGED vars
    <2>1. UNCHANGED <<now, entitled, lastIn, asked, tokens, lastUsedMemo,
                      sessions, http, lastUse, lost>>
      BY <1>3 DEF vars, policyVars, accessVars
    <2>2. AccessTypeOK'
      BY <2>1 DEF AccessTypeOK, PolicyTypeOK, Revoked
    <2> QED
      BY <2>1, <2>2
      DEF AccessInv, HistoryInv, RequestInv, RowInv, Recording, Revoked
  <1> QED
    BY <1>1, <1>2, <1>3, Consults, WorldKeeps, RestartKeeps DEF AccessNext

\* The tables, the memo and the goroutines' locals keep their types, and the
\* facts that the other theorems follow from hold: AccessInv is inductive.
THEOREM AccessCorrect == AccessSpec => [](AccessTypeOK /\ AccessInv)
  <1>1. AccessInit => AccessTypeOK /\ AccessInv
    <2> SUFFICES ASSUME AccessInit
                 PROVE  AccessTypeOK /\ AccessInv
      OBVIOUS
    <2>1. 0 \in Time /\ Blank \in Http /\ Idle \in Question
          /\ Blank.pc = "idle" /\ Blank.by = "none" /\ Idle.pc = "idle"
      BY MaxTimeAssumption DEF Time, Blank, Http, Idle, Question
    <2>2. PolicyTypeOK
      BY <2>1 DEF AccessInit, PolicyInit, PolicyTypeOK
    <2>3. AccessTypeOK
      BY <2>1, <2>2, AccessAssumption DEF AccessInit, AccessTypeOK
    <2>4. HistoryInv
      BY DEF AccessInit, PolicyInit, HistoryInv, Never
    <2>5. \A c \in Caller : RequestInv(c)
      BY <2>1 DEF AccessInit, PolicyInit, RequestInv
    <2>6. \A t \in 1 .. MaxTokens : RowInv(t)
      BY DEF AccessInit, PolicyInit, RowInv, Never
    <2> QED
      BY <2>3, <2>4, <2>5, <2>6 DEF AccessInv
  <1>2. AccessTypeOK /\ AccessInv /\ [AccessNext]_vars => AccessTypeOK' /\ AccessInv'
    BY StepKeeps
  <1> QED
    BY <1>1, <1>2, PTL DEF AccessSpec

\* A request that RequireAPIAuth, RequireAuth or the panel has let in acts for
\* a user who was entitled within the TTL, or within a session's life, before.
THEOREM RequestsActForTheEntitled == AccessSpec => []ActsForTheEntitled
  <1>1. AccessTypeOK /\ AccessInv => ActsForTheEntitled
    BY DEF AccessInv, RequestInv, Grace, ActsForTheEntitled
  <1> QED
    BY <1>1, AccessCorrect, PTL

\* Verify lets no request in whose token had been revoked when it came.
THEOREM RevocationIsImmediate == AccessSpec => []RevokedTokenIsRefused
  <1>1. AccessTypeOK /\ AccessInv => RevokedTokenIsRefused
    BY DEF AccessInv, RequestInv, RevokedTokenIsRefused
  <1> QED
    BY <1>1, AccessCorrect, PTL

\* The memo of recordLastUsed never suppresses an UPDATE that the row needed.
THEOREM LastUsedKeepsUp == AccessSpec => []LastUsedIsRecent
  <1>1. AccessTypeOK /\ AccessInv => LastUsedIsRecent
    <2> SUFFICES ASSUME AccessTypeOK, AccessInv, NEW t \in DOMAIN tokens
                 PROVE  \/ lastUse[t] = Never
                        \/ t \in lost
                        \/ \E c \in Caller : http[c].pc = "record" /\ http[c].token = t
                        \/ tokens[t].lastUsed > lastUse[t] - Throttle
      BY DEF LastUsedIsRecent
    <2>1. RowInv(t)
      BY Rows DEF AccessInv
    <2> QED
      BY <2>1 DEF RowInv, Recording
  <1> QED
    BY <1>1, AccessCorrect, PTL

\* No step rewrites a revocation: Revoke's UPDATE asks for "revoked = false",
\* and the other statements leave the columns alone.
THEOREM RevocationStands == AccessSpec => RevocationIsFinal
  <1> DEFINE Final == \A t \in DOMAIN tokens :
               Revoked(t) => /\ tokens'[t].revokedAt = tokens[t].revokedAt
                             /\ tokens'[t].revokedBy = tokens[t].revokedBy
  <1>1. AccessTypeOK /\ AccessInv /\ [AccessNext]_vars => Final
    <2> SUFFICES ASSUME AccessTypeOK, AccessInv, [AccessNext]_vars
                 PROVE  Final
      OBVIOUS
    <2>1. CASE \E c \in Caller : Kept(c)
      BY <2>1 DEF Kept, Moved
    <2>2. CASE UNCHANGED tokens
      BY <2>2
    <2>3. (\E c \in Caller : Serve(c) \/ Consult(c)) => \E c \in Caller : Kept(c)
      BY Begins, Finishes, CreateKeeps, RevokeKeeps, OpenKeeps, RecordKeeps,
         UpdateKeeps, Consults DEF Serve
    <2> QED
      BY <2>1, <2>2, <2>3 DEF AccessNext, RestartAll, accessVars, vars
  <1>2. Final => [Final]_vars
    OBVIOUS
  <1> QED
    BY <1>1, AccessCorrect, PTL DEF AccessSpec, RevocationIsFinal

=============================================================================
