------------------------------ MODULE InitFlow ------------------------------
(***************************************************************************)
(* billbird init (cmd/billbird/init.go): the operator's browser has GitHub *)
(* create an App and comes back to the one-shot server with a one-time     *)
(* code; the callback's handler trades the code for the App's secrets and  *)
(* hands them to main over a channel of capacity 1, which main reads once. *)
(* Main then merges them into the .env file.  The operator may repeat any  *)
(* of it: click twice, reload the callback, interrupt init and run it      *)
(* again.                                                                  *)
(***************************************************************************)
EXTENDS EnvFile

CONSTANTS
  MaxApps,   \* bound: Apps that GitHub creates
  MaxRuns,   \* bound: runs of init
  MaxCalls   \* bound: callbacks in a run

ASSUME BoundsAssumption == MaxApps \in Nat /\ MaxRuns \in Nat /\ MaxCalls \in Nat

VARIABLES
  file,      \* the lines of .env
  runs,      \* the number of runs so far; a run's state token is its number
  main,      \* the goroutine of runInit
  done,      \* the channel: <<>>, or a result
  calls,     \* the run's callbacks, in order of arrival
  apps,      \* GitHub's: the run whose page created an App, and its code
  before,    \* history: the file when the run began
  shown,     \* history: the pages that the run's callbacks have been sent
  tears,     \* history: how many writes of the file were cut short
  stale      \* history: whether --force has left lines of an old value

vars == <<file, runs, main, done, calls, apps, before, shown, tears, stale>>

App == 1 .. MaxApps
Own == MaxApps + 1   \* a value that is the operator's own
Error == 0           \* initResult with err set; else it is the App

Line == [key : Key \cup {NoKey}, val : {Empty, Own} \cup App]

\* main.app is res.app, main.out what mergeEnvFile is about to write;
\* main.exit says how the run ended.
Main == [pc      : {"off", "select", "open", "write", "close"},
         force   : BOOLEAN,
         serving : BOOLEAN,
         app     : {Error} \cup App,
         out     : Seq(Line),
         exit    : {"none", "ok", "error", "timeout", "unwritten", "killed"}]

InitTypeOK ==
  /\ file \in Seq(Line) /\ before \in Seq(Line)
  /\ runs \in 0 .. MaxRuns
  /\ main \in Main
  /\ done \in {<<>>} \cup {<<a>> : a \in {Error} \cup App}
  /\ calls \in Seq([pc : {"exchange", "send", "gone"}, app : {Error} \cup App])
  /\ Len(calls) <= MaxCalls
  /\ apps \in Seq([run : 1 .. MaxRuns, code : {"fresh", "spent"}])
  /\ Len(apps) <= MaxApps
  /\ shown \in Seq({Error} \cup App)
  /\ tears \in Nat /\ stale \in BOOLEAN

\* Copied from env.example or written by hand: each key is absent, blank or
\* has a value of the operator's.
Init ==
  /\ \E f \in [Key -> {"absent", "blank", "own"}] :
       file = FlattenSeq([n \in 1 .. Cardinality(Key) |->
                LET k == SetToSeq(Key)[n]
                IN  IF f[k] = "absent" THEN <<>>
                    ELSE Written(k, IF f[k] = "own" THEN Own ELSE Empty)])
  /\ runs = 0
  /\ main = [pc |-> "off", force |-> FALSE, serving |-> FALSE, app |-> Error,
             out |-> <<>>, exit |-> "none"]
  /\ done = <<>> /\ calls = <<>> /\ apps = <<>>
  /\ before = file /\ shown = <<>> /\ tears = 0 /\ stale = FALSE

----------------------------------------------------------------------------
\* The run begins, and serves unless the port cannot be had.
Start(force) ==
  /\ main.pc = "off" /\ runs < MaxRuns
  /\ runs' = runs + 1
  /\ \E up \in BOOLEAN :
       /\ main' = [main EXCEPT !.pc = "select", !.force = force, !.serving = up,
                               !.app = Error, !.out = <<>>, !.exit = "none"]
       /\ done' = IF up THEN <<>> ELSE <<Error>>
  /\ calls' = <<>> /\ shown' = <<>>
  /\ before' = file
  /\ UNCHANGED <<file, apps, tears, stale>>

\* The operator confirms, on the page of this run or in a tab that an earlier
\* one has left open.
CreateApp(r) ==
  /\ Len(apps) < MaxApps
  /\ apps' = Append(apps, [run |-> r, code |-> "fresh"])
  /\ UNCHANGED <<file, runs, main, done, calls, before, shown, tears, stale>>

\* GitHub keeps a code for an hour.
Expire(a) ==
  /\ apps' = [apps EXCEPT ![a].code = "spent"]
  /\ UNCHANGED <<file, runs, main, done, calls, before, shown, tears, stale>>

Arrive(call) ==
  /\ main.serving /\ Len(calls) < MaxCalls
  /\ calls' = Append(calls, call)
  /\ UNCHANGED <<file, runs, main, done, apps, before, shown, tears, stale>>

\* GitHub's redirect, or a reload of it.
Callback(a) ==
  Arrive(IF apps[a].run = runs THEN [pc |-> "exchange", app |-> a]
         ELSE [pc |-> "send", app |-> Error])

\* Without a code or without the state: opened by hand, for one.
Stray == Arrive([pc |-> "send", app |-> Error])

\* exchangeManifestCode.
Exchange(c) ==
  /\ calls[c].pc = "exchange"
  /\ LET a == calls[c].app
     IN  /\ calls' = [calls EXCEPT ![c] =
              [pc |-> "send", app |-> IF apps[a].code = "fresh" THEN a ELSE Error]]
         /\ apps' = [apps EXCEPT ![a].code = "spent"]
  /\ UNCHANGED <<file, runs, main, done, before, shown, tears, stale>>

\* The request fails, or only its answer is lost.
ExchangeFails(c) ==
  /\ calls[c].pc = "exchange"
  /\ calls' = [calls EXCEPT ![c] = [pc |-> "send", app |-> Error]]
  /\ apps' \in {apps, [apps EXCEPT ![calls[c].app].code = "spent"]}
  /\ UNCHANGED <<file, runs, main, done, before, shown, tears, stale>>

\* Mutants of Send: a channel without a buffer; one that keeps the latest.
SendUnbuffered(c) ==
  /\ calls[c].pc = "send" /\ done = <<>> /\ main.pc = "select"
  /\ done' = <<calls[c].app>>
  /\ calls' = [calls EXCEPT ![c].pc = "gone"]
  /\ shown' = Append(shown, calls[c].app)
  /\ UNCHANGED <<file, runs, main, apps, before, tears, stale>>
SendLatest(c) ==
  /\ calls[c].pc = "send"
  /\ done' = <<calls[c].app>>
  /\ calls' = [calls EXCEPT ![c].pc = "gone"]
  /\ shown' = Append(shown, calls[c].app)
  /\ UNCHANGED <<file, runs, main, apps, before, tears, stale>>

\* done <- result; it blocks while the channel is full.  The page, though
\* written before, leaves the buffer of the response when the handler returns:
\* it says that the App's secrets have been written, or what went wrong.
Send(c) ==
  /\ calls[c].pc = "send" /\ done = <<>>
  /\ done' = <<calls[c].app>>
  /\ calls' = [calls EXCEPT ![c].pc = "gone"]
  /\ shown' = Append(shown, calls[c].app)
  /\ UNCHANGED <<file, runs, main, apps, before, tears, stale>>

----------------------------------------------------------------------------
Close(exit) ==
  main' = [main EXCEPT !.pc = "close", !.serving = FALSE, !.exit = exit]

\* The select of runInit; when both are ready, either.
Receive ==
  /\ main.pc = "select" /\ done # <<>>
  /\ done' = <<>>
  /\ IF done[1] = Error THEN Close("error")
     ELSE main' = [main EXCEPT !.pc = "open", !.app = done[1]]
  /\ UNCHANGED <<file, runs, calls, apps, before, shown, tears, stale>>

Timeout ==
  /\ main.pc = "select"
  /\ Close("timeout")
  /\ UNCHANGED <<file, runs, done, calls, apps, before, shown, tears, stale>>

\* mergeEnvFile reads ...
OpenEnv ==
  /\ main.pc = "open"
  /\ \E out \in Merges(file, main.app, main.force) :
       main' = [main EXCEPT !.pc = "write", !.out = out]
  /\ UNCHANGED <<file, runs, done, calls, apps, before, shown, tears, stale>>

OpenFails ==
  /\ main.pc = "open"
  /\ Close("unwritten")
  /\ UNCHANGED <<file, runs, done, calls, apps, before, shown, tears, stale>>

\* ... and writes.  What --force leaves of a value that spanned lines is stale.
WriteEnv ==
  /\ main.pc = "write"
  /\ file' = main.out
  /\ Close("ok")
  /\ stale' = (stale \/ (main.force /\ \E k \in MultiLine : Value(file, k) # Empty))
  /\ UNCHANGED <<runs, done, calls, apps, before, shown, tears>>

\* os.WriteFile truncates the file first: nothing happens, or the file keeps
\* the first lines of what was to be written.
WriteInPart ==
  \/ UNCHANGED <<file, tears>>
  \/ /\ \E n \in 0 .. Len(main.out) - 1 : file' = SubSeq(main.out, 1, n)
     /\ tears' = tears + 1

WriteFails ==
  /\ main.pc = "write"
  /\ WriteInPart
  /\ Close("unwritten")
  /\ UNCHANGED <<runs, done, calls, apps, before, shown, stale>>

\* The deferred Shutdown waits until every handler has returned.
Shutdown ==
  /\ main.pc = "close"
  /\ \A c \in DOMAIN calls : calls[c].pc = "gone"
  /\ main' = [main EXCEPT !.pc = "off"]
  /\ UNCHANGED <<file, runs, done, calls, apps, before, shown, tears, stale>>

\* Ctrl+C, at any moment.
Kill ==
  /\ main.pc # "off"
  /\ IF main.pc = "write" THEN WriteInPart ELSE UNCHANGED <<file, tears>>
  /\ main' = [main EXCEPT !.pc = "off", !.serving = FALSE,
                          !.exit = IF @ = "none" THEN "killed" ELSE @]
  /\ done' = <<>>
  /\ calls' = [c \in DOMAIN calls |-> [calls[c] EXCEPT !.pc = "gone"]]
  /\ UNCHANGED <<runs, apps, before, shown, stale>>

MainStep == Receive \/ Timeout \/ OpenEnv \/ OpenFails \/ WriteEnv \/ WriteFails
              \/ Shutdown

HandlerStep(c) == Exchange(c) \/ ExchangeFails(c) \/ Send(c)

Operator ==
  \/ \E force \in BOOLEAN : Start(force)
  \/ \E r \in 1 .. runs : CreateApp(r)
  \/ \E a \in DOMAIN apps : Callback(a) \/ Expire(a)
  \/ Stray \/ Kill

Next == Operator \/ MainStep \/ \E c \in DOMAIN calls : HandlerStep(c)

\* Goroutines run on; the select has a timer, and the exchange a timeout.
Fairness ==
  /\ WF_vars(MainStep)
  /\ \A c \in 1 .. MaxCalls : WF_vars(c \in DOMAIN calls /\ HandlerStep(c))

Spec == Init /\ [][Next]_vars /\ Fairness

----------------------------------------------------------------------------
\* When init reports success, every key has exactly one line, with the App's
\* value where there was none or --force was given, and with the value it had
\* otherwise: across repeated and interrupted runs (init.go:308-309, 358-419).
FillsOnlyGaps ==
  main.exit = "ok" =>
    \A k \in Key :
      /\ Cardinality({p \in DOMAIN file : file[p].key = k}) = 1
      /\ Value(file, k) = IF Value(before, k) = Empty \/ main.force
                          THEN main.app ELSE Value(before, k)

\* The Apps whose credentials a file has.
Sources(lines) == {Value(lines, k) : k \in Key} \ {Empty, Own}
Complete(lines) == \A k \in Key : Value(lines, k) # Empty

\* What init has put into the file is one App's, however often init was run,
\* interrupted and called back.  Every further App takes a write that was cut
\* short, since the next run keeps what was left of the first App's credentials
\* and fills the gaps with its own.  And no value that spans lines lacks any of
\* them, or leaves one behind, unless a write was cut short or --force replaced
\* it (init.go:126-132, 358-419).
OneAppsCredentials ==
  /\ Cardinality(Sources(file)) <= tears + (IF Complete(file) THEN 1 ELSE 0)
  /\ tears = 0 /\ ~stale => Whole(file)

\* "Secrets have been written to your local .env file", says the page of every
\* callback that got an App, before main has read the channel.  Of the pages
\* that a run sends, main acts on the first, however many callbacks race: if
\* init then reports success the gaps have the credentials of that page's App,
\* and if it reports that a callback failed, that page said so too.  Later
\* pages, and all pages of a run that timed out, was interrupted or could not
\* write the file, may be untrue (init.go:126-136, 245-278, 325-329).
FirstPageIsTrue ==
  /\ main.exit = "ok" =>
       /\ shown # <<>>
       /\ \A k \in Key : Value(before, k) = Empty => Value(file, k) = shown[1]
  /\ main.exit = "error" => shown = <<>> \/ shown[1] = Error

----------------------------------------------------------------------------
\* The inductive invariant behind these properties.  First the file, torn
\* or not.
FileInv == WellFormed(file) /\ OneAppsCredentials

\* Then main, which has not touched the file before it closes.
MainInv ==
  /\ main.pc \in {"select", "open", "write"} => main.exit = "none" /\ file = before
  /\ main.pc = "close" => main.exit # "none"
  /\ main.pc \in {"close", "off"} => ~main.serving
  /\ main.pc \in {"open", "write"} => main.app \in App
  /\ main.pc = "write" => main.out \in Merges(file, main.app, main.force)

\* The run's server did not start: no callback comes.
NotServed == shown = <<>> /\ calls = <<>> /\ ~main.serving

\* The channel is in the order of the pages: what it holds while main waits,
\* and then what main has heard, is what the first page said.
PageInv ==
  /\ main.pc = "select" /\ done = <<>> => shown = <<>>
  /\ main.pc = "select" /\ done # <<>> =>
       \/ done[1] = Error /\ NotServed
       \/ shown # <<>> /\ done[1] = shown[1]
  /\ main.pc \in {"open", "write"} \/ main.exit = "ok" =>
       shown # <<>> /\ main.app = shown[1]
  /\ main.exit = "error" => NotServed \/ (shown # <<>> /\ shown[1] = Error)

InitInv == FileInv /\ MainInv /\ FillsOnlyGaps /\ PageInv

\* init ends, unless more callbacks come than main and the channel can take:
\* two if main gives up first, three if it hears of one.  Then a handler waits
\* for room in the channel for ever, and Shutdown for the handler
\* (init.go:95, 113, 245-278).
EndsUnlessCalledTooOften ==
  main.pc = "select" ~>
    \/ main.pc = "off"
    \/ Len(calls) >= IF main.exit = "timeout" THEN 2 ELSE 3

=============================================================================
