------------------------------ MODULE Runtime ------------------------------
(***************************************************************************)
(* The trading runtime: the worker process, the logins of its engine, the  *)
(* market feed, and the request that starts a live strategy, which looks   *)
(* at what the three have reported (legacy_compat/strategies.py,           *)
(* api_start_ssalgo).  Started, a strategy makes its user one the login    *)
(* threads care for and its symbol one the feed subscribes to.             *)
(***************************************************************************)
EXTENDS BrokerLogins, MarketFeed

VARIABLE request      \* the start request under way

vars == <<load, controlVars, loginVars, feedVars, request>>

NoRequest == [pc |-> "idle", user |-> "none", login |-> FALSE, feed |-> FALSE, priced |-> FALSE]

RequestAt == {"idle", "login", "feed", "prices", "walk", "warm", "commit"}

TypeOK ==
  /\ ControlTypeOK /\ LoginTypeOK /\ FeedTypeOK
  /\ request \in [pc : RequestAt, user : Users \cup {"none"}, login : BOOLEAN,
                 feed : BOOLEAN, priced : BOOLEAN]

Init ==
  /\ load \in Workloads
  /\ ControlInit /\ LoginInit /\ FeedInit
  /\ request = NoRequest

Wanted == Trading # {}

(***************************************************************************)
(* The worker process and its loop.                                        *)
(***************************************************************************)

others == <<loginVars, feedVars, request>>

\* The loop is busy with a login of its adapter or a walk of its manager.
Busy == Relogging \/ walk["worker"].pc # "idle"

\* The engine is up when its initialisation, whose last act starts the threads,
\* is done.
ThreadsUp == \A t \in Threads : login[t].pc # "off"

Control ==
  /\ \/ \E c \in Commands : Enqueue(c)
     \/ Launch \/ MainStep \/ Hello \/ NextPending \/ FindPending \/ MarkPending
     \/ Work \/ Bye \/ Signal \/ \E p \in Peers : PeerStep(p)
     \/ (~Busy /\ (Complete \/ HandleFails \/ Beat \/ LoopDies))
     \/ (ThreadsUp /\ EngineUp) \/ (~ThreadsUp /\ EngineFails)
  /\ UNCHANGED others

RelogOnly == UNCHANGED <<good, issued, code, api, health, opened, listed, client, login,
                         markpc, callback, adapter, checked>>
WalkOnly == UNCHANGED <<service, active, conn, dialling, orphan, late, fresh, feedRow, feedHealth>>

\* A command relogin may name any user, or none: the users of live strategies.
Handle ==
  /\ HandleCommand /\ UNCHANGED request
  /\ CASE command[current].kind = "relogin" ->
            /\ \/ \E u \in AliceUsers : relog' = {u}
               \/ relog' = AliceUsers \cap Trading
            /\ RelogOnly /\ UNCHANGED feedVars
       [] command[current].kind = "refresh_subscriptions" ->
            BeginWalk("worker") /\ WalkOnly /\ UNCHANGED loginVars
       [] OTHER -> UNCHANGED <<loginVars, feedVars>>

Maintain ==
  /\ Maintenance /\ UNCHANGED request
  /\ relog' = AliceUsers \cap Trading /\ RelogOnly
  /\ BeginWalk("worker") /\ WalkOnly

AdapterStep ==
  /\ \E u \in AliceUsers : AdapterBegins(u) \/ AdapterAsks(u) \/ AdapterSaves(u)
  /\ UNCHANGED <<controlVars, feedVars, request>>

\* The maintenance logs in before it refreshes the subscriptions.
WorkerWalk ==
  /\ ~Relogging /\ WalkStep("worker", Wanted)
  /\ UNCHANGED <<controlVars, loginVars, request>>

End == (Exit \/ Crash) /\ LoginsGone /\ FeedGone /\ UNCHANGED request

(***************************************************************************)
(* The engine's threads, the brokers, the services of the feed.            *)
(***************************************************************************)

Logins ==
  /\ \/ StartThreads \/ ThreadStep
     \/ \E u \in Users : \/ Expire(u) \/ ExchangeCode(u) \/ SaveReconnect(u)
                         \/ OrderUnauthorized(u) \/ MarkReconnect(u)
  /\ UNCHANGED <<controlVars, feedVars, request>>

Services == ServiceStep /\ UNCHANGED <<controlVars, loginVars, request>>

(***************************************************************************)
(* The start of a live strategy.                                           *)
(***************************************************************************)

requestOnly == UNCHANGED <<controlVars, good, issued, code, api, health, listed, client,
                           login, markpc, callback, relog, adapter, checked>>

AskStart(u) ==
  /\ request = NoRequest /\ u \in load.users \ opened /\ Spend("starts")
  /\ \/ /\ MayBeHealthy /\ status.engine = "running"
        /\ request' = [NoRequest EXCEPT !.pc = "login", !.user = u]
     \/ UNCHANGED request
  /\ requestOnly /\ UNCHANGED <<opened, feedVars>>

ReadLogin ==
  /\ request.pc = "login"
  /\ request' = [request EXCEPT !.pc = "feed", !.login = (health[request.user] = "connected")]
  /\ requestOnly /\ UNCHANGED <<load, opened, feedVars>>

\* The row of the feed, read first, and again after a walk.
ReadFeed ==
  /\ \/ /\ request.pc = "feed"
        /\ request' = [request EXCEPT !.pc = "prices", !.feed = feedHealth.connected]
     \/ /\ request.pc = "walk" /\ walk["api"].pc = "idle"
        /\ request' = [request EXCEPT !.pc = "warm", !.feed = feedHealth.connected]
  /\ requestOnly /\ UNCHANGED <<load, opened, feedVars>>

\* With no fresh price a manager of the request's own walks the chain, ...
ReadPrices ==
  /\ request.pc = "prices" /\ requestOnly /\ UNCHANGED opened
  /\ IF fresh # {}
     THEN /\ request' = [request EXCEPT !.pc = "commit", !.priced = TRUE]
          /\ UNCHANGED <<load, feedVars>>
     ELSE request' = [request EXCEPT !.pc = "walk"] /\ NewManager

ApiWalk ==
  /\ request.pc = "walk" /\ WalkStep("api", TRUE)
  /\ UNCHANGED <<controlVars, loginVars, request>>

\* ... and when that connected the request waits three seconds for a price.
AwaitPrice ==
  /\ request.pc = "warm"
  /\ request' = [request EXCEPT !.pc = "commit",
       !.priced = (active["api"].provider # NoProvider /\ fresh # {})]
  /\ requestOnly /\ UNCHANGED <<load, opened, feedVars>>

\* Outside the window of the strategy no price is needed.
CommitStart ==
  /\ request.pc = "commit" /\ request' = NoRequest
  /\ IF request.login /\ request.feed /\ (load.window => request.priced)
     THEN opened' = opened \cup {request.user} ELSE UNCHANGED opened
  /\ requestOnly /\ UNCHANGED <<load, feedVars>>

Start ==
  \/ \E u \in Users : AskStart(u)
  \/ ReadLogin \/ ReadFeed \/ ReadPrices \/ ApiWalk \/ AwaitPrice \/ CommitStart

Next ==
  \/ Control \/ Handle \/ Maintain \/ AdapterStep \/ WorkerWalk \/ End
  \/ Logins \/ Services \/ Start

Spec == Init /\ [][Next]_vars

(***************************************************************************)
(* Threads that can run do run; the maintenance comes due again and again; *)
(* a websocket that can open opens, one that cannot reports its error, and *)
(* an open one ticks.  Nothing makes the worker start, nor a request, a    *)
(* command, a crash or a call that fails happen.                           *)
(***************************************************************************)
Main == MainStep /\ UNCHANGED others
EngineInit == ThreadsUp /\ EngineUp /\ UNCHANGED others
Loop ==
  /\ Hello \/ NextPending \/ FindPending \/ MarkPending \/ Work \/ Bye \/ (~Busy /\ (Complete \/ Beat))
  /\ UNCHANGED others
Ends == Exit /\ LoginsGone /\ FeedGone /\ UNCHANGED request
engineOnly == <<controlVars, feedVars, request>>
serviceOnly == <<controlVars, loginVars, request>>

Fairness ==
  /\ WF_vars(Main) /\ WF_vars(EngineInit) /\ WF_vars(Loop) /\ WF_vars(Ends)
  /\ WF_vars(Handle) /\ SF_vars(Maintain) /\ WF_vars(AdapterStep) /\ WF_vars(WorkerWalk)
  /\ WF_vars(StartThreads /\ UNCHANGED engineOnly)
  /\ \A t \in Threads : WF_vars(Thread(t) /\ UNCHANGED engineOnly)
  /\ \A p \in Providers : WF_vars(Tick(p) /\ UNCHANGED serviceOnly)
  /\ \A p \in Providers, m \in Managers : WF_vars((Open(m, p) \/ Error(m, p)) /\ UNCHANGED serviceOnly)

FairSpec == Spec /\ Fairness

----------------------------------------------------------------------------

(***************************************************************************)
(* Whoever the engine trades for, it holds a session the broker has        *)
(* accepted or issued since the process began: one that an earlier day, an *)
(* earlier process, a reconnect or the worker's adapter has saved is not   *)
(* taken on trust, whichever of the threads saved it last.                 *)
(***************************************************************************)
SessionsChecked == \A u \in listed \cap AliceUsers : client[u] \in checked[u]

(***************************************************************************)
(* With the engine up for good, a user of a broker that has a relogin loop *)
(* who needs a session and whose auth code works is logged in, in the end  *)
(* and for good, whatever the first attempts met and whoever's append the  *)
(* copy of the list lost.                                                  *)
(***************************************************************************)
Usable(u) == u \in MstockUsers \/ code[u] = "valid"

UserListed ==
  \A u \in Retried :
    <>[](u \in Needed /\ engine = "running" /\ ~quitting /\ Usable(u)) => <>[](u \in listed)

(***************************************************************************)
(* With the maintenance on and the worker up for good, a provider of the   *)
(* chain that works for good gives prices again and again, if those before *)
(* it are of the kind whose connect waits, and answer with no error: a     *)
(* walk that fails, or takes somebody else's prices for its own, is        *)
(* followed by one that gets there.                                        *)
(***************************************************************************)
Reached(i) == \A j \in 1 .. i - 1 : Chain[j] \in Waiting /\ service[Chain[j]] # "refusing"

PricesReturn ==
  \A i \in 1 .. Len(Chain) :
    <>[](/\ Reached(i) /\ Chain[i] \in Up
         /\ Wanted /\ load.maintenance /\ Alive) => []<>(fresh # {})
=============================================================================
