----------------------------- MODULE MarketFeed -----------------------------
(***************************************************************************)
(* The shared market feed (app/domain/market_data): a manager walks a      *)
(* chain of providers until one connects (manager.py), each provider keeps *)
(* a websocket whose ticks it saves as prices (providers.py), prices count *)
(* while they are fresh (price_repository.py), and each provider and the   *)
(* whole feed have a health row.                                           *)
(*                                                                         *)
(* The worker has a manager, and the API makes one for a start request     *)
(* that finds no fresh prices: two walks may be under way, with providers  *)
(* of their own and the rows in common.  The symbols are one.              *)
(***************************************************************************)
EXTENDS WorkerControl, Sequences

CONSTANTS
  Chain,          \* MARKET_FEED_PROVIDERS, in order
  Waiting,        \* providers whose connect waits for the websocket to open
                  \* (upstox); the others report what they have asked for
  Keeping         \* of those, the ones that keep an open websocket (zerodha)

Providers == {Chain[i] : i \in DOMAIN Chain}
Managers == {"worker", "api"}

ASSUME FeedAssumption ==
  Chain \in Seq(Providers) /\ Chain # <<>> /\ Waiting \subseteq Providers
  /\ Keeping \subseteq Providers \ Waiting

VARIABLES
  service,        \* the service of each provider: "up", "silent" (calls get no
                  \* answer) or "refusing" (calls are answered with an error)
  walk,           \* the walk of each manager over the chain
  active,         \* active_provider of each manager, and whether by snapshot
  conn,           \* the providers whose websocket is open, by manager
  dialling,       \* the providers whose websocket is still to open
  orphan,         \* open websockets no provider holds any more
  late,           \* history: opened when no connect was waiting for it
  fresh,          \* the providers with a fresh price
  feedRow,        \* the health row of each provider
  feedHealth      \* the row "__global__"

feedVars == <<service, walk, active, conn, dialling, orphan, late, fresh, feedRow, feedHealth>>

WalkAt == {"idle", "connect", "opening", "subscribe", "switch", "row", "global", "failed",
           "warm", "check", "warmrow", "warmglobal", "none"}
NoProvider == "none"
Named == Providers \cup {NoProvider}
Up == {p \in Providers : service[p] = "up"}

FeedTypeOK ==
  /\ service \in [Providers -> {"up", "silent", "refusing"}]
  /\ walk \in [Managers -> [pc : WalkAt, at : 1 .. Len(Chain)]]
  /\ active \in [Managers -> [provider : Named, snapshot : BOOLEAN]]
  /\ conn \in [Managers -> SUBSET Providers]
  /\ dialling \in [Managers -> SUBSET Providers]
  /\ orphan \in [Managers -> SUBSET Providers]
  /\ late \in [Managers -> SUBSET Providers]
  /\ fresh \subseteq Providers
  /\ feedRow \in [Providers -> {"not_started", "connected", "failed"}]
  /\ feedHealth \in [connected : BOOLEAN, active : Named]

FeedInit ==
  /\ service = [p \in Providers |-> "up"]
  /\ walk = [m \in Managers |-> [pc |-> "idle", at |-> 1]]
  /\ active = [m \in Managers |-> [provider |-> NoProvider, snapshot |-> FALSE]]
  /\ conn = [m \in Managers |-> {}] /\ dialling = [m \in Managers |-> {}]
  /\ orphan = [m \in Managers |-> {}] /\ late = [m \in Managers |-> {}]
  /\ fresh = {} /\ feedRow = [p \in Providers |-> "not_started"]
  /\ feedHealth = [connected |-> FALSE, active |-> NoProvider]

(***************************************************************************)
(* The providers and their websockets.                                     *)
(***************************************************************************)

feedOnly == UNCHANGED <<active, feedRow, feedHealth>>
Walks(m, pc) == walk' = [walk EXCEPT ![m].pc = pc]
Awaits(m, p) == walk[m].pc = "opening" /\ Chain[walk[m].at] = p

\* A service goes down, and its websockets close; no row is written.
Drop(p) ==
  /\ p \in Up /\ Spend("drops")
  /\ \E s \in {"silent", "refusing"} : service' = [service EXCEPT ![p] = s]
  /\ conn' = [m \in Managers |-> conn[m] \ {p}]
  /\ orphan' = [m \in Managers |-> orphan[m] \ {p}]
  /\ UNCHANGED <<walk, dialling, late, fresh>> /\ feedOnly

Return(p) ==
  /\ p \notin Up /\ service' = [service EXCEPT ![p] = "up"]
  /\ UNCHANGED <<load, walk, conn, dialling, orphan, late, fresh>> /\ feedOnly

\* A websocket opens by itself: the connect that waits for it returns, or there
\* is none any more.
Open(m, p) ==
  /\ p \in dialling[m] \cap Up
  /\ conn' = [conn EXCEPT ![m] = @ \cup {p}]
  /\ dialling' = [dialling EXCEPT ![m] = @ \ {p}]
  /\ IF Awaits(m, p) THEN Walks(m, "subscribe") /\ UNCHANGED late
                     ELSE late' = [late EXCEPT ![m] = @ \cup {p}] /\ UNCHANGED walk
  /\ UNCHANGED <<load, service, orphan, fresh>> /\ feedOnly

\* An error sets the event the connect waits for, which takes it for an open one.
Error(m, p) ==
  /\ p \in dialling[m] /\ service[p] = "refusing"
  /\ dialling' = [dialling EXCEPT ![m] = @ \ {p}]
  /\ IF Awaits(m, p) THEN Walks(m, "subscribe") ELSE UNCHANGED walk
  /\ UNCHANGED <<load, service, conn, orphan, late, fresh>> /\ feedOnly

Tick(p) ==
  /\ \E m \in Managers : p \in conn[m] \cup orphan[m]
  /\ p \notin fresh /\ fresh' = fresh \cup {p}
  /\ UNCHANGED <<load, service, walk, conn, dialling, orphan, late>> /\ feedOnly

Stale(p) ==
  /\ p \in fresh /\ fresh' = fresh \ {p}
  /\ UNCHANGED <<load, service, walk, conn, dialling, orphan, late>> /\ feedOnly

(***************************************************************************)
(* refresh_subscriptions: one walk over the chain.  wanted says whether    *)
(* there is a symbol to subscribe to.                                      *)
(***************************************************************************)

walkOnly == UNCHANGED <<service, orphan>>

BeginWalk(m) == walk' = [walk EXCEPT ![m] = [pc |-> "connect", at |-> 1]]

\* A new websocket; the one the provider had is let go of.
Dial(m, p) ==
  /\ orphan' = [orphan EXCEPT ![m] = @ \cup (conn[m] \cap {p})]
  /\ conn' = [conn EXCEPT ![m] = @ \ {p}]
  /\ dialling' = [dialling EXCEPT ![m] = @ \cup {p}]

\* Each connect dials, where nothing open is kept; one that does not wait reports
\* success, or finds its token missing.
Connect(m) ==
  LET p == Chain[walk[m].at] IN
  /\ walk[m].pc = "connect"
  /\ \/ /\ Walks(m, IF p \in Waiting THEN "opening" ELSE "subscribe") /\ UNCHANGED load
        /\ IF p \in Keeping /\ p \in conn[m] THEN UNCHANGED <<orphan, conn, dialling>>
                                             ELSE Dial(m, p)
     \/ /\ Walks(m, "failed") /\ Spend("faults") /\ UNCHANGED <<orphan, conn, dialling>>
  /\ UNCHANGED <<service, active, late, fresh, feedRow, feedHealth>>

\* Ten seconds without the event; what was asked for may still open.
OpenTimesOut(m) ==
  /\ walk[m].pc = "opening" /\ Walks(m, "failed")
  /\ \/ service[Chain[walk[m].at]] = "silent" /\ UNCHANGED load
     \/ service[Chain[walk[m].at]] # "silent" /\ Spend("faults")
  /\ UNCHANGED <<active, conn, dialling, late, fresh, feedRow, feedHealth>> /\ walkOnly

\* Subscribing also saves a first quote, where the provider offers one.
Subscribe(m, wanted) ==
  LET p == Chain[walk[m].at] IN
  /\ walk[m].pc = "subscribe"
  /\ \/ /\ Walks(m, "switch") /\ UNCHANGED load
        /\ fresh' = (IF wanted /\ p \in Waiting \cap Up THEN fresh \cup {p} ELSE fresh)
     \/ Walks(m, "failed") /\ Spend("faults") /\ UNCHANGED fresh
  /\ UNCHANGED <<active, conn, dialling, late, feedRow, feedHealth>> /\ walkOnly

\* As one that leaves the others as they are.
SwitchOnly(m) ==
  LET p == Chain[walk[m].at] IN
  /\ walk[m].pc = "switch" /\ Walks(m, "row") /\ UNCHANGED load
  /\ active' = [active EXCEPT ![m] = [provider |-> p, snapshot |-> FALSE]]
  /\ late' = [late EXCEPT ![m] = {}]
  /\ UNCHANGED <<conn, dialling, fresh, feedRow, feedHealth>> /\ walkOnly

\* The provider becomes the active one and the others are disconnected; what
\* still dials may open afterwards.
Switch(m) ==
  LET p == Chain[walk[m].at] IN
  /\ walk[m].pc = "switch" /\ Walks(m, "row") /\ UNCHANGED load
  /\ active' = [active EXCEPT ![m] = [provider |-> p, snapshot |-> FALSE]]
  /\ conn' = [conn EXCEPT ![m] = @ \cap {p}]
  /\ late' = [late EXCEPT ![m] = {}]
  /\ UNCHANGED <<dialling, fresh, feedRow, feedHealth>> /\ walkOnly

Connected(m, pc, next) ==
  LET p == Chain[walk[m].at] IN
  \/ /\ walk[m].pc = pc /\ Walks(m, next)
     /\ feedRow' = [feedRow EXCEPT ![p] = "connected"] /\ UNCHANGED feedHealth
  \/ /\ walk[m].pc = next /\ Walks(m, "idle")
     /\ feedHealth' = [connected |-> TRUE, active |-> p] /\ UNCHANGED feedRow

SaveConnected(m) ==
  /\ Connected(m, "row", "global") \/ Connected(m, "warmrow", "warmglobal")
  /\ UNCHANGED load
  /\ UNCHANGED <<active, conn, dialling, late, fresh>> /\ walkOnly

\* As a walk that steps past the last provider.
NextProviderPast(m) ==
  walk' = [walk EXCEPT ![m] = [pc |-> "connect", at |-> walk[m].at + 1]]

NextProvider(m) ==
  IF walk[m].at < Len(Chain)
  THEN walk' = [walk EXCEPT ![m] = [pc |-> "connect", at |-> walk[m].at + 1]]
  ELSE Walks(m, "none")

SaveFailed(m) ==
  LET p == Chain[walk[m].at] IN
  /\ walk[m].pc = "failed" /\ UNCHANGED load
  /\ IF p \in Waiting THEN Walks(m, "warm") ELSE NextProvider(m)
  /\ feedRow' = [feedRow EXCEPT ![p] = "failed"]
  /\ UNCHANGED <<active, conn, dialling, late, fresh, feedHealth>> /\ walkOnly

\* warm_symbols: quotes by request; a quote that fails is skipped.
Warm(m, wanted) ==
  LET p == Chain[walk[m].at] IN
  /\ walk[m].pc = "warm" /\ Walks(m, "check") /\ UNCHANGED load
  /\ fresh' = (IF wanted /\ p \in Up THEN fresh \cup {p} ELSE fresh)
  /\ UNCHANGED <<active, conn, dialling, late, feedRow, feedHealth>> /\ walkOnly

\* As a snapshot that counts because it was asked for.
CheckWarmAlways(m, wanted) ==
  LET p == Chain[walk[m].at] IN
  /\ walk[m].pc = "check" /\ Walks(m, "warmrow") /\ UNCHANGED load
  /\ active' = [active EXCEPT ![m] = [provider |-> p, snapshot |-> TRUE]]
  /\ UNCHANGED <<conn, dialling, late, fresh, feedRow, feedHealth>> /\ walkOnly

\* The snapshot counts when prices are fresh, whoever they come from.
CheckWarm(m, wanted) ==
  LET p == Chain[walk[m].at] IN
  /\ walk[m].pc = "check" /\ UNCHANGED load
  /\ IF wanted => fresh # {}
     THEN /\ Walks(m, "warmrow")
          /\ active' = [active EXCEPT ![m] = [provider |-> p, snapshot |-> TRUE]]
     ELSE NextProvider(m) /\ UNCHANGED active
  /\ UNCHANGED <<conn, dialling, late, fresh, feedRow, feedHealth>> /\ walkOnly

NoneConnected(m) ==
  /\ walk[m].pc = "none" /\ Walks(m, "idle") /\ UNCHANGED load
  /\ active' = [active EXCEPT ![m] = [provider |-> NoProvider, snapshot |-> FALSE]]
  /\ feedHealth' = [connected |-> FALSE, active |-> NoProvider]
  /\ UNCHANGED <<conn, dialling, late, fresh, feedRow>> /\ walkOnly

\* The worker's manager ends with its process; rows and prices stay.
FeedGone ==
  /\ walk' = [walk EXCEPT !["worker"] = [pc |-> "idle", at |-> 1]]
  /\ active' = [active EXCEPT !["worker"] = [provider |-> NoProvider, snapshot |-> FALSE]]
  /\ conn' = [conn EXCEPT !["worker"] = {}] /\ dialling' = [dialling EXCEPT !["worker"] = {}]
  /\ orphan' = [orphan EXCEPT !["worker"] = {}] /\ late' = [late EXCEPT !["worker"] = {}]
  /\ UNCHANGED <<service, fresh, feedRow, feedHealth>>

\* A start request makes a manager of its own.  Nobody closes the websockets
\* of the one before; the one a provider keeps is the process's, not the manager's.
NewManager ==
  /\ BeginWalk("api")
  /\ active' = [active EXCEPT !["api"] = [provider |-> NoProvider, snapshot |-> FALSE]]
  /\ conn' = [conn EXCEPT !["api"] = @ \cap Keeping]
  /\ orphan' = [orphan EXCEPT !["api"] = @ \cup (conn["api"] \ Keeping)]
  /\ late' = [late EXCEPT !["api"] = {}]
  /\ UNCHANGED <<load, service, dialling, fresh, feedRow, feedHealth>>

WalkStep(m, wanted) ==
  \/ Connect(m) \/ OpenTimesOut(m) \/ Subscribe(m, wanted) \/ Switch(m)
  \/ SaveConnected(m) \/ SaveFailed(m) \/ Warm(m, wanted) \/ CheckWarm(m, wanted)
  \/ NoneConnected(m)

ServiceStep ==
  \E p \in Providers :
    \/ Drop(p) \/ Return(p) \/ Tick(p) \/ Stale(p)
    \/ \E m \in Managers : Open(m, p) \/ Error(m, p)

----------------------------------------------------------------------------

(***************************************************************************)
(* A manager whose walk ended with a connection has no other provider's    *)
(* websocket open, but one that opened after its connect had given up:     *)
(* the manager "owns the single active shared market-data provider"        *)
(* (manager.py:9).  A walk that ended with a snapshot is no such claim:    *)
(* it disconnects nobody.                                                  *)
(***************************************************************************)
OneStream ==
  \A m \in Managers :
    walk[m].pc = "idle" /\ active[m].provider # NoProvider /\ ~active[m].snapshot =>
      conn[m] \subseteq {active[m].provider} \cup late[m]
=============================================================================
