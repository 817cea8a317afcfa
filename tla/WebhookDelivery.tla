-------------------------- MODULE WebhookDelivery --------------------------
(***************************************************************************)
(* The webhook endpoint of Billbird (internal/webhook/handler.go): one     *)
(* goroutine per HTTP request, from the signature check over the           *)
(* idempotency claim to the dispatch of the slash command, and the posting *)
(* of the reply at its end.  The commands themselves are the actions of    *)
(* TimeCommands and PlanCommands, which extend this module; Webhook        *)
(* composes the three.                                                     *)
(*                                                                         *)
(* A delivery stands for one event and for the comment that caused it: the *)
(* event's X-GitHub-Delivery UUID and the comment's id identify the same   *)
(* thing, since only action "created" is processed.  GitHub may send it up *)
(* to MaxAttempts times, to any replica and with any overlap.              *)
(***************************************************************************)
EXTENDS Naturals, Sequences, FiniteSets

CONSTANTS
  Delivery,      \* webhook deliveries
  NoHeader,      \* those that come without an X-GitHub-Delivery header
  MaxAttempts,   \* bound: how often one delivery is sent
  User, Issue,   \* comment authors; (repository, number) pairs
  Client,        \* ids of the clients table
  NoClient,      \* the SQL NULL of client_id
  Event          \* the payloads GitHub may send, a subset of Payload

Commands == {"log", "correct", "delete", "plan", "unplan"}

\* What the handler tells apart in a payload.  "other" is every event type
\* without a handler; cmd is commands.Parse's verdict on the comment's body:
\* "none" when no line starts with a command, "invalid" when it is rejected.
Payload == [type   : {"issue_comment", "pull_request_review_comment", "other"},
            parses : BOOLEAN,
            action : {"created", "edited"},
            cmd    : Commands \cup {"none", "invalid"},
            user   : User,
            issue  : Issue]

ASSUME NoHeaderAssumption == NoHeader \subseteq Delivery
ASSUME AttemptsAssumption == MaxAttempts \in Nat \ {0}
ASSUME EventAssumption == Event \subseteq Payload
ASSUME NoClientAssumption == NoClient \notin Client

VARIABLES
  event,       \* what each delivery carries; GitHub repeats it unchanged
  req,         \* the goroutine of each HTTP request
  deliveries,  \* the rows of webhook_deliveries
  comments     \* the bot's comments that GitHub has stored, in their order
               \* and by the delivery they answer

webhookVars == <<event, req, deliveries, comments>>

\* The n-th time GitHub sends a delivery.
Request == Delivery \X (1 .. MaxAttempts)

\* How a request ended: 200, 401, 500, or with its process.
Over == {"ok", "unauthorized", "failed", "dead"}

\* The steps of a command, between winning the claim and posting the reply.
Working == Commands \cup
  {"dispatch", "relabel", "insert", "supersede", "softdelete",
   "replace", "softdeleteplan", "post"}

ReplyKinds == {"error", "logged", "corrected", "deleted",
               "planned", "replanned", "removed"}

\* A goroutine's locals: the row found (prev) and the one created (new), 0
\* for nil; the client to attribute; how many entries were committed when the
\* INSERT's transaction took its timestamp; the reply to post.
Goroutine == [pc     : {"unsent", "claim"} \cup Working \cup Over,
              prev   : Nat,
              new    : Nat,
              client : Client \cup {NoClient},
              since  : Nat,
              reply  : ReplyKinds \cup {"none"}]

Comment == [kind : ReplyKinds, new : Nat, prev : Nat]

Fresh(pc) == [pc |-> pc, prev |-> 0, new |-> 0, client |-> NoClient,
              since |-> 0, reply |-> "none"]

EventOf(r) == event[r[1]]
InFlight(r) == req[r].pc \notin {"unsent"} \cup Over
Answers(d) == {comments[d][n] : n \in DOMAIN comments[d]}

WebhookTypeOK ==
  /\ event \in [Delivery -> Event]
  /\ req \in [Request -> Goroutine]
  /\ \A r \in Request : req[r].pc = "post" => req[r].reply # "none"
  /\ deliveries \subseteq Delivery
  /\ comments \in [Delivery -> Seq(Comment)]

WebhookInit ==
  /\ event \in [Delivery -> Event]
  /\ req = [r \in Request |-> Fresh("unsent")]
  /\ deliveries = {}
  /\ comments = [d \in Delivery |-> <<>>]

----------------------------------------------------------------------------
\* Steps of one goroutine.  A goroutine that ends forgets its locals.

Goto(r, pc) == req' = [req EXCEPT ![r].pc = pc]
End(r, pc) == req' = [req EXCEPT ![r] = Fresh(pc)]
\* Mutant of ReplyWith: the reply's text is never filled in.
ReplyWithNothing(r, kind) == req' = [req EXCEPT ![r] = [@ EXCEPT !.pc = "post"]]

ReplyWith(r, kind) ==
  req' = [req EXCEPT ![r] = [@ EXCEPT !.pc = "post", !.reply = kind]]

\* postError's callers drop what they found.
ReplyError(r) ==
  req' = [req EXCEPT ![r] = [Fresh("post") EXCEPT !.reply = "error"]]

\* GitHub (re)sends r's delivery and verifySignature accepts it.
Receive(r) ==
  /\ req[r].pc = "unsent"
  /\ r[2] > 1 => req[<<r[1], r[2] - 1>>].pc # "unsent"
  /\ Goto(r, "claim")
  /\ UNCHANGED <<event, deliveries, comments>>

\* A request for the same delivery whose signature does not verify: 401.
RejectSignature(r) ==
  /\ req[r].pc = "unsent"
  /\ r[2] > 1 => req[<<r[1], r[2] - 1>>].pc # "unsent"
  /\ End(r, "unauthorized")
  /\ UNCHANGED <<event, deliveries, comments>>

\* Mutant of Claim: RowsAffected is not looked at.
ClaimAnyway(r) ==
  /\ req[r].pc = "claim"
  /\ Goto(r, "dispatch")
  /\ deliveries' = deliveries \cup ({r[1]} \ NoHeader)
  /\ UNCHANGED <<event, comments>>

\* INSERT ... ON CONFLICT DO NOTHING: the request that inserts the row
\* processes the event, any other is answered 200 at once.
Claim(r) ==
  /\ req[r].pc = "claim"
  /\ IF r[1] \in deliveries /\ r[1] \notin NoHeader
       THEN End(r, "ok")
       ELSE Goto(r, "dispatch")
  /\ deliveries' = deliveries \cup ({r[1]} \ NoHeader)
  /\ UNCHANGED <<event, comments>>

\* The claim returns an error, answered 500.  The INSERT may have committed
\* before the connection or the request's context was lost.
ClaimFails(r) ==
  /\ req[r].pc = "claim"
  /\ r[1] \notin NoHeader
  /\ End(r, "failed")
  /\ deliveries' \in {deliveries, deliveries \cup {r[1]}}
  /\ UNCHANGED <<event, comments>>

\* Events that handle and dispatchCommentCommand acknowledge and drop.
Ignored(e) ==
  \/ e.type = "other"
  \/ ~e.parses
  \/ e.action # "created"
  \/ e.cmd = "none"

\* Mutant of Dispatch: a malformed command or a denied author is dropped.
DispatchSilently(r) ==
  /\ req[r].pc = "dispatch"
  /\ \/ End(r, "ok")
     \/ /\ ~Ignored(EventOf(r)) /\ EventOf(r).cmd \in Commands
        /\ Goto(r, EventOf(r).cmd)
  /\ UNCHANGED <<event, deliveries, comments>>

\* The event-type switch, Parse and isAuthorized.  The membership policy
\* answers from a cache or from GitHub and says no on any error of its own:
\* here it may say either.
Dispatch(r) ==
  /\ req[r].pc = "dispatch"
  /\ \/ Ignored(EventOf(r)) /\ End(r, "ok")
     \/ ~Ignored(EventOf(r)) /\ EventOf(r).cmd = "invalid" /\ ReplyError(r)
     \/ /\ ~Ignored(EventOf(r))
        /\ EventOf(r).cmd \in Commands
        /\ \E allowed \in BOOLEAN :
             IF allowed THEN Goto(r, EventOf(r).cmd) ELSE ReplyError(r)
  /\ UNCHANGED <<event, deliveries, comments>>

Reply(r) == [kind |-> req[r].reply, new |-> req[r].new, prev |-> req[r].prev]

\* Mutant of Post: a request whose response was lost is sent again.
PostAgain(r) ==
  /\ req[r].pc = "post"
  /\ \E sent \in {<<Reply(r)>>, <<Reply(r), Reply(r)>>} :
       comments' = [comments EXCEPT ![r[1]] = @ \o sent]
  /\ End(r, "ok")
  /\ UNCHANGED <<event, deliveries>>

\* PostComment succeeds; the handler returns and the request is answered 200.
\* GitHub stores whatever it is sent, a comment like an earlier one included.
Post(r) ==
  /\ req[r].pc = "post"
  /\ comments' = [comments EXCEPT ![r[1]] = Append(@, Reply(r))]
  /\ End(r, "ok")
  /\ UNCHANGED <<event, deliveries>>

\* PostComment fails: logged, never retried, and answered 200 all the same.
\* (A comment that GitHub stored although its response was lost is Post.)
PostFails(r) ==
  /\ req[r].pc = "post"
  /\ End(r, "ok")
  /\ UNCHANGED <<event, deliveries, comments>>

\* The replica serving r dies (or the ten seconds of a graceful shutdown run
\* out).  What the database committed stays.
Crash(r) ==
  /\ InFlight(r)
  /\ End(r, "dead")
  /\ UNCHANGED <<event, deliveries, comments>>

=============================================================================
