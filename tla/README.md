# Billbird in TLA+

Billbird is a GitHub App that keeps time and plan entries. Users write slash
commands (`/log`, `/correct`, `/delete`, `/plan`, `/unplan`) in issue comments;
GitHub delivers them as webhooks, Billbird writes rows to PostgreSQL and answers
with a comment. A REST API and an admin panel read the rows. This directory
models the parts of the program in which order, overlap, failure and time
decide whether it is right, checks them with TLC on small instances, and proves
every result but those about liveness with TLAPS, for every value of the
constants.
`src/...` paths are paths of the repository, relative to its root.

- [The system](#the-system): components, state, interaction, what is hard
- [The modules](#the-modules): which module models what
- [The runs](#the-runs): what TLC checks, bounds, fairness
- [The proofs](#the-proofs): what holds for every instance, and why
- [Disagreements](#disagreements-with-the-documentation) with the documentation
- [Not modelled](#not-modelled), [The plan](#the-plan)

## The system

| Component | State it keeps | Operations | What makes it correct |
|---|---|---|---|
| Webhook handler and delivery claim (`internal/webhook`) | rows of `webhook_deliveries`; a goroutine per HTTP request | verify signature, claim the delivery, dispatch, five commands, reply | a delivery is carried out and answered at most once; replies are true; every command received is answered when nothing fails |
| Time entries (`internal/timeentry`) | rows of `time_entries` with `status` and `superseded_by` | Create, FindLatestActive, Supersede, SoftDelete, GetCorrectionChain | history is append-only; chains keep owner, issue and client, never merge, end; only the author's commands touch an entry |
| Plan entries (`internal/planentry`) | rows of `plan_entries`, unique index on active plans | FindActive, ReplacePlan, SoftDelete, GetChain, ComputePlanVsActual | one active plan per issue; chains as above; a closed plan names the comment that closed it; reports do not count an entry and its correction, and name the latest plan |
| Membership checker (`internal/auth/membership.go`) | cache of decisions, map of installations, one mutex | IsAllowed, PrimeInstallations | no yes is older than the TTL, and no no that rests on the installations the process knows |
| API tokens (`internal/apitoken`), sessions (`internal/auth/auth.go`), API authentication (`internal/auth/api_auth.go`) | rows of `api_tokens` and `sessions`, a memo that throttles `last_used_at` | Verify, Create, Revoke, Callback, ValidateSession, RequireAPIAuth | only recently entitled users act; revocation is immediate and final; `last_used_at` lags by less than a minute |
| GitHub client (`internal/github`) | cache of installation tokens, singleflight group | getInstallationToken, PostComment, GetIssueLabels, IsOrgMember, ListInstallations | one fetch at a time, only when needed; a token outlives the call that uses it; nobody waits for ever |
| Client resolver (`internal/client`) | rows of `clients`, `label_mappings` | ResolveClient | the mapping of the repository before the global one, the older before the newer, never an inactive client |
| Command parser (`internal/commands`) | none | Parse, ParseDuration, FormatDuration | what fits an `int` is exact, and is read back as it was said |
| REST API (`internal/api`), admin panel (`internal/admin`) | none of their own | lists, reports, export, clients, mappings, tokens | as the stores they call; an export names every client |
| `billbird init` (`cmd/billbird/init.go`) | callback server, a channel of capacity 1, `.env` | manifest flow, mergeEnvFile | the credentials of one App, one more for each write cut short, on one line each; no value lost; the first page tells the truth of a run that reports success; init ends |
| Server start (`cmd/billbird/main.go`, `internal/config`, `internal/db`) | none after start | migrations, wiring, graceful shutdown | |
| `billbird doctor`, `smokeseed` | none | diagnostics, test data | |

How they interact: the webhook handler calls the stores, the resolver, the
membership checker (`isAuthorized`) and the GitHub client; the API middleware
calls the token store, the sessions and the same membership checker; the checker
and the replies call the GitHub client. All shared state is in the database, in
the process-wide caches behind a mutex, and at GitHub. Every HTTP request has a
goroutine of its own, several replicas may run against one database
(`docs/how-to/self-hosting.md`), and any of them may be killed. `billbird init`
is a process of its own, run by the operator, that shares only `.env`.

What is hard to test, and is therefore what the models are about (every hazard
is listed with its line in `PROJECT.json`):

- *Overlap.* Commands look a row up, talk to GitHub, and then update the row by
  its id, in separate statements without a transaction. Two `/correct`, a
  `/delete` and a `/correct`, two `/plan` can interleave at every statement, and
  reports, exports and admins come between any two of them.
- *Redelivery.* GitHub repeats deliveries; the claim (`delivery.go:18-33`) makes
  all but one request stop.
- *Crashes and partial failure.* Each statement and each call to GitHub may fail
  before or after it took effect, a result set may break off while it is read, a
  file may be written in part, and a replica may die between any two.
- *Stale decisions.* Membership is cached for five minutes, installations until
  the process ends, sessions last a day, tokens at GitHub an hour.
- *Shared fetches.* Several goroutines wait for one fetch of a token that may
  fail, or come late.
- *Repeated operation.* An operator reloads a callback, keeps an old tab, stops
  `init` and runs it again.
- *Numbers.* Durations wrap around at the width of `int`; the tolerance of a
  verdict is rounded.

## The modules

| Module | Extends | Is |
|---|---|---|
| WebhookDelivery | | a request from its arrival to its reply |
| TimeCommands, PlanCommands | WebhookDelivery | the commands, over the two tables |
| Webhook | TimeCommands, PlanCommands | their composition, its environments, the properties |
| WebhookInv | Webhook | the inductive invariants |
| TimeLedger, PlanLedger | | abstract: what the commands promise |
| Ledgers | Webhook | instances of the two ledgers |
| Chains | | the walks over `superseded_by` |
| WebhookChecks | WebhookInv, Ledgers, Chains | what TLC checks of Webhook (MCWebhook) |
| DocumentedClaims | Webhook | what the documentation says of deliveries (MCClaims) |
| Minutes | | durations and verdicts |
| PlanReport | Webhook, Minutes | a report beside the commands (MCReport, with WebhookChecks) |
| Attribution | | the resolver, its tables, the export (MCAttribution) |
| MembershipPolicy | | abstract: what `IsAllowed` promises |
| Membership | an instance of MembershipPolicy | the checker (MCMembership) |
| ApiAccess | MembershipPolicy | tokens, sessions, requests (MCAccess) |
| InstallTokens | | the token cache (MCInstallTokens) |
| EnvFile, InitFlow | InitFlow extends EnvFile | `billbird init` (MCInit) |

Eight modules hold proofs. Three, each extending the one before, are about the
commands and reports: `WebhookProofs` (of `WebhookInv`), `ChainProofs` (and
`WebhookChecks`) and `LedgerProofs` (and `PlanReport`). `MembershipProofs`,
`AccessProofs`, `InstallTokenProofs`, `AttributionProofs` and `InitProofs` are
each about one module. The exact lines every definition stands for are in the
`map` of `PROJECT.json`.

### The webhook: WebhookDelivery, TimeCommands, PlanCommands, Webhook

`req` holds one goroutine per HTTP request; its `pc` is the statement or call
it is about to make, its other fields are the handler's locals. An action is
what happens between two points at which other goroutines can be seen: one SQL
statement (or one transaction) or one call to GitHub, with the control flow up
to the next one.

| Code | Actions |
|---|---|
| `Handle`, `verifySignature`, `dispatchCommentCommand` | `Receive`, `RejectSignature`, `Claim`, `ClaimFails`, `Dispatch`, `Post`, `PostFails` |
| `handleLog` | `LabelLog`, `CreateEntry`, `CreateEntryFails` |
| `handleCorrect` | `FindEntry`, `LabelCorrection`, `CreateEntry`, `SupersedeEntry` and their failures |
| `handleDelete` | `FindEntry`, `SoftDeleteEntry` and their failures |
| `handlePlan` | `FindPlan`, `ReplacePlan` and their failures |
| `handleUnplan` | `FindPlan`, `SoftDeletePlan` and their failures |
| a replica dies or its shutdown times out | `Crash` |

What is abstracted:

- A delivery, its UUID, its event and its comment are one model value: only the
  action `created` is processed, so they identify each other. GitHub repeats an
  event unchanged.
- An HTTP request is a pair of delivery and attempt number. Any request may be
  served by any replica, so replicas need no name; `Crash(r)` for each request
  of a replica, in any order, is the replica's crash. A request's status code is
  the last `pc` of its goroutine.
- The key of a row is its position in the table. `created_at` is a rank taken
  when the INSERT's transaction starts, while rows become visible in the order
  in which they commit, so that "latest" and "last committed" can differ; ties
  are broken arbitrarily, as `ORDER BY created_at DESC LIMIT 1` leaves it.
- `ReplacePlan` is one transaction, and the unique index is what it conflicts
  with; one action carries out all of it or, on a conflict, none.
- Descriptions, label snapshots and wording are left out. The client a new entry
  is attributed to is any client or none (`Attribution` is about it), the
  membership checker's answer yes or no (`Membership`), and the minutes of
  commands are the same for all (`PlanReport`).
- `comments` has, for each delivery, the sequence of the comments that GitHub has
  stored in answer to it: a comment like an earlier one is another one.
- A failed statement either took effect or did not. A failed `PostComment` that
  GitHub stored nevertheless is the action `Post`: the handler only logs errors.
- A body that cannot be read is answered 400 and, like a signature that does
  not verify (`RejectSignature`), leaves nothing behind.
- The code's `planEntries == nil` and `clientResolver == nil` branches are never
  taken: `main.go` wires both.

`TimeLedger` and `PlanLedger` are what the commands promise: atomic commands on
the latest active entry of a user and issue, or the active plan of an issue.
`Ledgers` maps the tables to them; while a correction has created its row
and not yet retired the old one, the ledger does not show the new row.
`Chains` is the walk of `GetCorrectionChain` and `GetChain`, used by
`ChainsCanBeWalked`. Its two loops are recursive functions with as many rounds as
the table has rows, since the code has no bound at all: that the walk ends means
that the last round changes nothing.

### Reports and durations: PlanReport, Minutes

`ComputePlanVsActual` reads the active plan (`ReadPlan`) and then the sum of the
active entries (`ReadSum`); commands act in between: one at a time
(`ReportSpec`, which TLC checks), or overlapping, failing and crashing
(`BusyReportSpec`, of which a theorem is proved). The Plans page, the dashboard
and the API all call it. `open` of a report is history: which corrections were
half done at the second SELECT. A report that reads the sum then counts both
entries, as the code does; `NoChainCountedTwice` is about all other reports.

`Minutes` has the arithmetic: `ParseDuration` on the numbers that the two groups
of the pattern spell, with Go's wrapping `int`; `FormatDuration`; and
`ClassifyStatus` with its tolerance. Which text is a command at all, and which
one, is `Dispatch`'s choice: the regular expressions are not modelled.

### Attribution

`clients` and `label_mappings` with everything the API and the panel do to them,
`ResolveClient` (the query and its order, the choice among the rows, a query
that breaks off while `rows.Next` reads it, whose error nobody looks at), the
INSERT that follows it in `/log`, and `ExportCSV` with its two queries. `off` is
history: the clients that have been inactive since a `/log` began. `Retire` is
what the other commands do to the set of billed clients.

A mapping's `created_at` is `now()`, the beginning of its INSERT's transaction
(migration 000002), while others see the row when that commits. So its INSERT is
two actions: `CreateMapping` gives the row its place, `CommitMapping` makes it
`visible`, or the INSERT fails (`DropMapping`, which is also what DELETE does).
Mappings may become visible in any order. Two of the same `created_at`, which the
query returns in any order, are not modelled.

### Membership: MembershipPolicy, Membership

`Membership` is `MembershipChecker` between two acquisitions of its mutex:
`Enter`, `Lookup` (the cache), `Check` (is the installation map empty),
`Refresh` (`ListInstallations`, one action since the mutex is held during the
call), `Copy`, one `Ask` per entry of ALLOWED_ORGS, `Store`, `Leave`, and the
failures `RefreshFails` and `AskFails`. GitHub's memberships and installations
(`members`, `installed`) change at any time. `lastIn` and `lastOut` are history:
when a user was last entitled, and last not to be recognised by an account.

`MembershipPolicy` is what callers may rely on: a yes means that the user was
entitled less than TTL before the call; a no may come at any time. `Membership`
implements it (`ImplementsPolicy`), and `ApiAccess` is composed with it in place
of the checker.

Account types are User and Organization and never change. `Invalidate` and `devAllowAllPolicy` have no caller in production.

### API access: ApiAccess

A request carries a bearer token (`Verify`, then `RecordLastUsed`, then
`UpdateLastUsed` or its failure, then the membership re-check through
MembershipPolicy), or a session cookie (`ValidateSession`), or completes the
OAuth login (`Login`, `OpenSession`). Once let in it creates a token
(`CreateToken`), revokes one (`GetToken` and `Revoke`, the SELECT and the UPDATE
of `RevokeToken`) or does something that leaves this state alone (`Use`). The
admin panel's token forms make the same calls with a cookie. Requests that
present nothing valid leave no state and are not modelled. `lastUse` and `lost`
are history.

### Installation tokens: InstallTokens

`getInstallationToken` and `fetchInstallationToken`: the fast path, the
singleflight group (`Do`, `Waiters`, `Share`), the second look at the cache
(`Recheck`), the fetch (`Issue` at GitHub, `StoreToken`, `FetchFails`) and the
call that uses the token. Entries and flights of different installations are
independent, so one installation is modelled. The clocks of GitHub and of the
process agree; the margin of 60 seconds also absorbs a skew that the model does
not have. `Tick` does not let a call outlive the HTTP client's timeout, nor time
pass between a goroutine's getting a token and its use of it.

### billbird init: EnvFile, InitFlow

`EnvFile` is `mergeEnvFile` as an operator from lines to lines: what becomes of
each line (`Rewritten`), and the keys appended in any order, since the code
ranges over a map (`Merges`). `InitFlow` has the goroutines around it: main
(`Start`, `Receive` or `Timeout` at the select, `OpenEnv`, `WriteEnv`,
`Shutdown`), one per callback (`Exchange`, `Send`), GitHub's Apps and one-time
codes, and an operator who confirms, reloads, opens the callback by hand, keeps
tabs of earlier runs, and interrupts (`Kill`).

- Keys are of two kinds, with a value of one line and of several; the App's
  values for them are identified by the App. `SESSION_SECRET` and `BASE_URL` do
  not come from GitHub but behave like other one-line keys.
- Comments and foreign keys in `.env` are kept as they are and left out; a file
  that has a key twice to begin with is not enumerated.
- A write that is cut short leaves a prefix of the lines.
- The success page leaves the response buffer when the handler returns, which is
  after its send, so both are the action `Send`.
- `before`, `shown`, `tears` and `stale` are history: the file when the run began,
  the pages that its callbacks were sent, in order, how many writes of the file
  were cut short so far, and whether `--force` has left lines of an old value.

`OneAppsCredentials` counts the Apps whose values init has put into the file. A run
after a write that was cut short keeps what is there and fills the gaps with the
values of a new App, as the code does, so that the file has the credentials of one
more App for every such write, and of one without. `FirstPageIsTrue` is about the
page that a run sends first, whichever callbacks race and whatever they bring: it
is the one that main acts on. It claims nothing of a page that comes later, nor of
a run that times out, is interrupted or cannot write the file: those are the cases
in which the code's page is untrue (see the disagreements).

### Mutants

`PROJECT.json` lists, for every property of a passing run, a mutant: an operator
defined just before the one it replaces (comment "Mutant of X") that changes it
as a plausible bug would. With the mutant in place TLC refutes the property. No
specification uses these operators.

## The runs

| Run | Question | Instance |
|---|---|---|
| `time_faults` | Do overlapping time commands, failing calls and crashes leave sound chains, true replies and nobody else's entries touched? | 3 deliveries, sent once: one user's `/log`, `/correct`, `/delete` on one issue, another user's `/log` on it, and a `/log` on a second issue |
| `plan_faults` | The same of `/plan` and `/unplan`. | 4 deliveries, sent once, two issues |
| `time_calm` | Is a delivery carried out and answered once, however often it is sent; is every command answered, and does a confirmed correction retire its predecessor, if no call fails? | 2 deliveries of any event, one without the header, each sent twice |
| `serial` | Do commands that do not overlap implement the ledgers? What does a report say that reads between their statements? | 3 deliveries, sent once; 2 users, 2 issues; entries of 21 minutes, plans of 20, ints to 127; one report |
| `membership` | How stale may a yes or a no be? Does the checker keep the policy's promise? | 2 callers, 1 user, 2 organisations, TTL 2, clock 0..2 |
| `api_access` | For whom does a request act, and what becomes of revoked tokens and `last_used_at`? | 2 callers, 1 user, 1 token, TTL 2, sessions 2, throttle 2, clock 0..3 |
| `install_tokens` | Are fetches shared, needed and spaced, do tokens outlive their use, are waiters released? | 3 callers, life 5, margin 2, timeout 1, clock 0..10 |
| `attribution` | Which client is an issue billed to while admins change clients and insert mappings in any order of commits, and does an export name it? | 2 callers, 2 labels, 2 repositories, 2 clients, 2 mappings at a time |
| `init_flow` | What is in `.env` after repeated, interrupted and failing runs of init, does the page tell the truth, does init end? | 2 runs, 2 Apps, 3 callbacks a run, one key of each kind, any initial file |
| `claim_exactly_once`, `claim_token_management`, `claim_repo_mapping` | Three statements of the documentation that the code does not keep; TLC finds a counterexample. | as small as the counterexample allows |

Why the bounds are enough for the questions:

- *Three time commands*: the interference between two commands needs a row
  created by a third, and that is all three. What longer races could do is
  proved for any number (ChainProofs).
- *Four planning commands*: two to create a chain and two to race about it.
- *Two deliveries sent twice*: a claim has one winner and one loser; two
  deliveries show that claims do not interfere.
- *Entries of 21 minutes and plans of 20*: no entry, one, two or three of them
  are 0, 21, 42 and 63 minutes, so that verdicts are under, exactly at the upper
  bound of five per cent, and over; 20 is the smallest plan whose tolerance is
  not the minimum. VerdictsAreExact covers all other numbers.
- *Two callers of the checker*: answers stored out of order need two; the second
  organisation makes the loop over ALLOWED_ORGS more than a single question.
  TTL 2 and a clock to 2 let a decision be of age 0, 1 (used) and 2 (expired).
- *API access*: a token revoked or reused by a second request while a first is
  on its way; a session and a cached decision that expire within the run. With
  one user the comparison of the owner in RevokeToken always succeeds; that the
  owner is compared is in `GetToken`, not in a property.
- *Install tokens*: a leader, a waiter, and one who missed before the flight
  ended; the clock passes two lifetimes.
- *Two mappings*: precedence is a matter of pairs. With two labels and two
  repositories the pairs are: same or other repository, either before the other,
  global or not, of an active client or not; and either INSERT may commit first. Rows of one client that are
  deactivated between the two statements of a `/log` need one client; two let
  its place be taken.
- *Two runs of init*: what a run may find is any initial file and whatever a
  first run, however it ended, leaves. Three callbacks are one more than main
  and the channel can take when main gives up without hearing of one, and as
  many as they can take otherwise plus one.

Symmetry is used where deliveries, callers, or the resolver's labels and
repositories are interchangeable, and no run with a liveness property uses it.
Deadlock is checked in every run but `init_flow`: the specification of the
webhook stutters explicitly (`Finished`) once GitHub has sent everything and
every goroutine is over, so a goroutine that cannot go on would be found. Init
does end, when the operator has used up the runs.

Fairness is assumed in three specifications. `CalmSpec` (run `time_calm`) has
WF on `Step(r)` for each request: the Go scheduler runs every runnable goroutine
and, in this specification, every call returns. `InstallTokens!Spec` has WF on
`Proceed(c)` for each caller: the same, where an HTTP call returns at the latest
with its timeout of ten seconds. `InitFlow!Spec` has WF on `MainStep` and on each
callback's `HandlerStep`: the goroutines run on, the select has a timer of ten
minutes (`init.go:245-258`) and the exchange an HTTP timeout. Arrivals,
callbacks, failures, crashes, new lookups and the passing of time are not fair.

## The proofs

All theorems hold for every value of the constants that satisfies the modules'
assumptions, which are as weak as the code: a TTL and a throttle are positive,
some organisation is configured, an HTTP timeout is at most the margin and the
two together are shorter than a token's life (10 s, 60 s, 1 h), `Anywhere` (SQL's
NULL) is no repository, the width of `int` is not zero, the settings that init
knows are finitely many and the lines that continue a value have none of their
keys.

- **WebhookProofs** (`TypeCorrect`, `ClaimCorrect`, `Idempotent`,
  `AnsweredOnce`): `TypeOK`, by one lemma per action, which the others use; and a
  delivery with a header has at most one row and one comment, counted with
  repetitions. Neither is inductive by itself:
  `ClaimInv` adds that the claim is a lock that is never released (at most one goroutine of a
  delivery is past it, `Owns`) and that its holder has not written or answered
  before it gets to those steps.
  `PlansCorrect`, `AtMostOneActivePlan`, `PlanChainsSound`, `PlanStatusSound`: the
  invariant adds that the plan a goroutine has found, however stale, belongs to its
  issue. One active plan is then due to the conflict check, and a later successor
  to appending within the transaction.
- **ChainProofs** (`CorrectionsCorrect`, `ChainsSound`, `ChainsStaySeparate`,
  `StatusSound`, `OwnEntriesOnly`, `HistoryKept`): chains can only be kept sound
  through the window between Create and Supersede if the row created there is
  later than the one found, alike in owner, issue and client, nobody's
  successor, and known to one goroutine only. That is `PrevInv`, `NewInv` and
  the second conjunct of `ChainInv`. `RepliesAreTrue` follows from it together
  with PlanInv: a goroutine that is about to reply knows a row that is what the
  reply says, and rows only ever retire. Of a corrected row it says only that the
  command could reach it, since Supersede may fail. `CorrectionsRetire` needs that no call
  fails.
  `WalksAlwaysEnd`: in a table of any size, where every link leads to a later row
  and no two to the same (`Links`, which both invariants imply), the walk back
  moves to an earlier row in every round or stands still, so that after as many
  rounds as there are rows it stands at a row without a predecessor; the walk
  forward makes ever later rows until it stands at a row without a successor, and
  passes the row it was asked about.
- **LedgerProofs** (`NothingStale`, `PlansRefine`, `TimeRefines`): serial commands
  implement PlanLedger and TimeLedger, whichever they are and however many, if
  every delivery has its header. `SerialInv` says that one goroutine is in flight
  (`Alone`), that ids and `created_at` give the entries the same order
  (`InOrder`), and that what the goroutine has found or created is still so when
  it acts (`Turn`). Then Create of a `/log`, Supersede, the SoftDeletes and
  ReplacePlan are the ledgers' steps and all other statements are invisible;
  `Conflict` cannot happen, and the claim keeps a delivery from being applied
  twice. Reports run beside (`ReportsOnlyRead`), as in the run `serial`.
  `NoDoubleCount` needs that commands do not overlap, and carries the goroutine of a
  correction from its Create to its Supersede. `LatestPlanIsReported` is about
  `BusyReportSpec`. It adds `LatestIsActive`: only the last plan of an issue can be
  active, so that LIMIT 1 returns it; and a superseded plan has a later one, by
  PlanInv, so that a last plan that is not active was removed
  (`LastIsNotSuperseded`). `VerdictsAreExact`,
  `DurationIsExact` and `FormatRoundTrips` are arithmetic.
- **MembershipProofs** (`MembershipCorrect`, `StaleYesIsBounded`,
  `StaleNoIsBounded`, `CheckerKeepsPromise`): the invariant says of each cached
  decision and of each call under way that its answer was right at some moment
  since the call entered: `InSince` and `OutSince` compare the history with the
  date of the decision, and the history only moves on (`Onward`). A decision is
  used when it is younger than TTL at the entry of the call that uses it, whence
  the bound. The refinement maps a call to its question: the step to `done` is
  the policy's answer, all other steps of the checker are invisible.
- **AccessProofs** (`AccessCorrect`, `RequestsActForTheEntitled`,
  `RevocationIsImmediate`, `LastUsedKeepsUp`, `RevocationStands`): `AccessInv`
  has three parts. `HistoryInv` dates the history, `RequestInv` says of each
  request what it read and when (a token's owner, a session's expiry, a question
  asked after the token was verified), and `RowInv` relates a token's row to the
  memo: what the memo has suppressed was recorded, or is being recorded, or was
  lost. The lag is strictly less than the throttle, so the throttle must be positive.
- **InstallTokenProofs** (`TokensCorrect`, `TokensLastLongEnough`,
  `FetchesAreNeeded`, `RefreshesSpaced`): `CallInv` relates the deadline of a
  fetch to its begin, the token to the moment it was issued, and the cached
  token to the begin of the fetch that will replace it.
- **AttributionProofs** (`AttributionCorrect`, `PrecedenceHolds`,
  `ReroutingIsRefused`, `NoTimeForInactive`, `ExportsAreNamed`): every set of
  positions has a least one (by well-founded induction), so `First` is the row
  that ORDER BY puts first, and for rows of one kind the oldest. A mapping that
  becomes visible behind one of the issue's own repository leaves the oldest of
  these the oldest (`ShowingKeepsOldest`). `OffIsInactive` makes the invariant inductive.

- **InitProofs** (`InitCorrect`, `GapsAreFilled`, `CredentialsOfOneApp`,
  `PageTellsTheTruth`): `Merged` says what mergeEnvFile makes of any file, with any
  keys and any order of the map. FlattenSeq puts segments one behind the other, and
  `Laid` says where each begins (`FlattenOnto`); the keys that are missing are as
  good as blank lines at the end (`Completes`), so that one rule, `Rewritten`,
  explains every line of the outcome (`Placed`). `InitInv` has four parts. `FileInv`
  is what stays true of the file whatever the runs of init did to it: no key has two
  lines (`WellFormed`), even when a write was cut short; the Apps in it
  are at most one more than the writes cut short, and no more than those while a key
  has no value (`OneAppsCredentials`), since only a write of the whole file can fill
  the last gap (`MergedSources`). `MainInv`
  says that main has left the file alone until it writes, and with what it will
  write. `PageInv` says that what the channel holds while main waits, and
  then what main has heard, is what the run's first page said: later callbacks find
  the channel full, or come after main has read it. None
  of the three properties is inductive: a run that fails must not leave a file that
  the next run would complete with another App's credentials or with a second line.

Two pieces of mathematics are not in the library in a form that the provers can
use, and are proved where they are needed: induction up to a number, as the absence
of a least counterexample (`LeastExists` by well-foundedness, `UpTo`), and the
existence of the functions that a recursion defines (`RecursionExists` for the
walks, `GrowthExists` for FlattenSeq), without which nothing could be said of them.
InitProofs and ChainProofs each have their own `LeastExists` and `UpTo`.

Only model-checked are the liveness properties (`EveryCommandAnswered`,
`WaitersAreReleased`, `EndsUnlessCalledTooOften`), which are out of the prover's
reach. The three claims that TLC refutes have, of course, no theorem.

## Disagreements with the documentation

Three are runs that TLC refutes; `findings` in `PROJECT.json` has the lines.

1. *Exactly once* (`claim_exactly_once`): `docs/reference/webhook-idempotency.md`
   promises that a command is processed exactly once. The claim commits first,
   so a crash after it loses the command: at most once.
2. *Tokens cannot revoke other tokens* (`claim_token_management`,
   `docs/reference/api-tokens.md`): RevokeToken does not look at how the request
   was authenticated, unlike CreateToken.
3. *Only applies to a specific repository* (`claim_repo_mapping`,
   `docs/reference/client-attribution.md:23`): without a mapping for the issue's
   repository the resolver falls back to the first match, which may be another
   repository's although a global one exists (`resolver.go:74`).

Met on the way, without a run of their own:

- `docs/reference/commands.md:70`: a correction marks the previous entry as
  superseded. When Supersede fails it is confirmed all the same and both entries
  count (`handler.go:427-429`): `CorrectedEntryIsRetired` is a property of
  `CalmSpec` only.
- The comment in `membership.go:85-86` says that the installation map refreshes
  on the next cache miss; only an empty map is read again (`:136-143`).
- A `/delete` that overlaps a `/correct` of the same entry is confirmed although
  the corrected entry counts, and an `/unplan` that overlaps a `/plan` although
  the new plan is active.
- `openspec/specs/time-planning/spec.md:108` has a tolerance of five per cent;
  for plans under twenty minutes the code's minimum of a minute is more
  (`VerdictFollowsPercentage` starts at twenty).
- `docs/reference/client-attribution.md`, "Multiple labels": that several
  labels match is only logged. And `:76`: a `/correct` copies the client of the
  entry it corrects, active or not.
- `docs/reference/api-tokens.md:15` says that admins can revoke any user's
  tokens, for which there is no code.
- `docs/how-to/setup.md:70` has init write the credentials into `.env`; a file
  that has a value keeps it without `--force`. The page says that they were
  written before main has read the channel (`init.go:265-276`), and nothing is
  written when main times out, is interrupted or cannot write the file, or has
  heard of another callback before. A run after a write cut short mixes the
  credentials of two Apps. `--force` leaves the other lines
  of a private key that spans several (`init.go:395-405`). Run with `docker
  compose run --rm`, init writes into the container unless the directory is
  mounted.
- The parser's pattern has no end of word after a command or a unit: `/unplanned`
  runs `/unplan`, and `/log 1h30` logs one hour with the description "30".

## Not modelled

`billbird doctor` and `smokeseed` change nothing of the program's state. HTML
templates, JSON encoding, logging and the texts of replies are layout. The
filters of the lists of entries and plans, in the API and on the panel's pages,
are one SELECT each and change nothing. Reading the configuration and connecting
to the database happen before the initial states. The OAuth state cookie and the
signatures of cookies, tokens and webhooks are cryptography: a request that does
not verify is an action (`RejectSignature`) or leaves no state. The parser's
regular expressions are text. `UpdateClient`'s statements other than the one
that sets `active` change names, which no property tells apart.

## The plan

Built, in order of importance: the webhook and its two kinds of commands with
their ledgers; the claim; the membership checker with its policy; API access on
top of the policy; installation tokens; reports and durations; attribution;
`billbird init`; and the proofs of all of them.

What would be next:

1. **PlanTx**: ReplacePlan statement by statement under READ COMMITTED with row
   locks and the unique index, shown to implement the atomic action of
   PlanCommands.
2. The client of an entry from Attribution in place of any client in
   TimeCommands, so that a deactivated client is part of the races of `/correct`.
