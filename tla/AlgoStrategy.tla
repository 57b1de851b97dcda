---------------------------- MODULE AlgoStrategy ----------------------------
(***************************************************************************)
(* One Algo 143 options strategy (EMA without "onspot"), as the trading    *)
(* runtime and the web API share it through MongoDB: the strategy          *)
(* document, its Opositions rows, and what the broker account holds.       *)
(*                                                                         *)
(* Four kinds of process touch the two documents, each through single      *)
(* MongoDB operations with no transaction around them:                     *)
(*                                                                         *)
(*   engine     the _datascript loop: snapshot, exit path, entry path      *)
(*   refresher  the _positionshold loop: repair and whole-row write-back   *)
(*   sweep      the _stopnotsubusers loop: pauses unsubscribed users       *)
(*   requests   the web handlers: start, stop, delete, edit, exit position *)
(*                                                                         *)
(* An action is one MongoDB operation or one broker call with the code up  *)
(* to the next one.  Signals, prices, exit levels and market windows are   *)
(* data: where the code tests them the model chooses.                      *)
(***************************************************************************)
EXTENDS Integers

CONSTANTS
    MaxEntries,     \* accepted entry orders explored (bound)
    Qty,            \* units asked for by one entry order (optionlot * lot)
    Accounts,       \* kinds of account: with a broker (TRUE), paper (FALSE)
    Requests,       \* web requests that may be in flight together
    Ops,            \* the requests and background loops that run
    Faults,         \* which failures the environment produces
    MaxRev,         \* lifecycle changes explored (bound)
    MaxCrash,       \* crashes of the worker process explored (bound)
    MaxShort        \* how far short the broker lets the account go (bound)

AllOps    == {"start", "astart", "stop", "delete", "edit", "exit",  \* requests
               "sweep", "refresh"}                                    \* loops
AllFaults == {"raise",          \* an exception before the broker accepts
              "lost_reply",     \* the broker accepts, the call still raises
              "quote",          \* no market price after the acceptance
              "unreported"}     \* the answer does not say what was filled

ASSUME BoundsAssumption ==
    /\ Ops \subseteq AllOps /\ Faults \subseteq AllFaults
    /\ Accounts \subseteq BOOLEAN
    /\ MaxEntries \in Nat
    /\ Qty \in Nat \ {0}
    /\ MaxRev \in Nat
    /\ MaxCrash \in Nat
    /\ MaxShort \in Nat

Entries     == 1 .. MaxEntries
Statuses    == {"opened", "paused", "closed"}
Positions   == {"in", "out"}
EntryStates == {"none", "submitting", "attempted", "success",
                "broker_failed", "preflight_failed"}
FailedEntry == {"broker_failed", "preflight_failed"}
Decisions   == {"intrade", "exitit"}

Strategy == [status : Statuses, position : Positions,
             entry : EntryStates, rev : Nat]
Row      == [status : {"none", "open", "close"}, decision : Decisions, net : Nat]
Pending  == [op : {"none", "mark"}]
            \cup [op : {"start"}, saw : {"none"} \cup FailedEntry]
            \cup [op : {"edit"}, status : Statuses, position : Positions]

NoRow    == [status |-> "none", decision |-> "intrade", net |-> 0]
NoRows   == [e \in Entries |-> NoRow]
NoReq    == [op |-> "none"]
NoSnap   == [status |-> "paused", position |-> "out", entry |-> "none", rev |-> 0]

VARIABLES
    live,       \* the strategy's live flag: broker account or paper; constant
                \* of a behaviour (an edit may change it, for the next entry: a
                \* row keeps, and exits by, the flag it was opened with)
    strat,      \* the strategies document
    rows,       \* the Opositions documents, by entry order
    held,       \* units the account holds from each entry order
    issued,     \* entry orders the broker accepted so far
    lost,       \* entry orders the records lose units of: no row was ever
                \* inserted, or an unreported exit was recorded as filled
    crashed,    \* those lost because the worker process died
    undone,     \* stale writes that undid newer ones: a start took back the
                \* entry ("start"), an edit the position ("edit"), the
                \* refresher the closing of a row ("row")
    pc,         \* where the engine thread is
    snap,       \* its copy of the strategy document (trade / config)
    mem,        \* its copies of the open rows (trades)
    todo,       \* rows of the exit loop still to visit
    fill,       \* quantity it recorded for the entry order in flight
    flag,       \* decision it computed for the row of that order
    superseded, \* a lifecycle change committed since snap was in the database
    rpc, rcopy, rtodo,  \* the refresher: where it is, its rows, rows left
    sweep,      \* where the subscription sweep is
    req,        \* the web requests between two of their operations
    crashes     \* crashes so far

broker    == <<held, issued, lost, crashed>>
engine    == <<pc, snap, mem, todo, fill, flag>>
refresher == <<rpc, rcopy, rtodo>>
vars      == <<live, strat, rows, broker, undone, engine, superseded, refresher,
               sweep, req, crashes>>

EnginePCs == {"down", "idle", "find", "norows", "loop", "partrow", "partcfg",
              "closerow", "closecfg", "entry", "mark", "check", "release",
              "send", "refused", "price", "insert", "settle", "fail"}

TypeOK ==
    /\ live \in BOOLEAN
    /\ strat \in Strategy
    /\ rows \in [Entries -> Row]
    /\ held \in [Entries -> Int]
    /\ issued \in 0 .. MaxEntries
    /\ lost \subseteq Entries
    /\ crashed \subseteq lost
    /\ undone \subseteq {"start", "edit", "row"}
    /\ pc \in EnginePCs
    /\ snap \in Strategy
    /\ mem \in [Entries -> Row]
    /\ todo \subseteq Entries
    /\ fill \in 0 .. Qty
    /\ flag \in Decisions
    /\ superseded \in BOOLEAN
    /\ rpc \in {"idle", "read", "repair", "write"}
    /\ rcopy \in [Entries -> Row]
    /\ rtodo \subseteq Entries
    /\ sweep \in {"idle", "pause"}
    /\ req \in [Requests -> Pending]
    /\ crashes \in 0 .. MaxCrash

Init ==
    /\ live \in Accounts
    /\ \E s \in {"opened", "paused"} :
          strat = [status |-> s, position |-> "out", entry |-> "none", rev |-> 0]
    /\ rows = NoRows
    /\ held = [e \in Entries |-> 0]
    /\ issued = 0 /\ lost = {} /\ crashed = {} /\ undone = {}
    /\ pc = "idle" /\ snap = NoSnap /\ mem = NoRows /\ todo = {}
    /\ fill = 0 /\ flag = "intrade" /\ superseded = FALSE
    /\ rpc = "idle" /\ rcopy = NoRows /\ rtodo = {}
    /\ sweep = "idle"
    /\ req = [r \in Requests |-> NoReq]
    /\ crashes = 0

-----------------------------------------------------------------------------
(* Reading and writing the documents.                                      *)

\* Opositions.find({status: 'open'})
Open(t) == {e \in Entries : t[e].status = "open"}

\* MongoDB returns the rows in insertion order: the loops take the oldest.
IsFirst(e, S) == e \in S /\ \A f \in S : e <= f

\* Mutant: the revision is not compared.
StillCurrentNoRevision ==
    /\ strat.status = "opened"
    /\ strat.entry \in {"submitting", "attempted"}

\* _entry_submission_still_current
StillCurrent ==
    /\ strat.status = "opened"
    /\ strat.rev = snap.rev
    /\ strat.entry \in {"submitting", "attempted"}

\* {'$set': {'position': p, 'entry_order_state': s}}
SetEntry(p, s) == strat' = [strat EXCEPT !.position = p, !.entry = s]

\* The thread returns to the pool: its locals are gone.
EndRound ==
    /\ pc' = "idle" /\ snap' = NoSnap /\ mem' = NoRows /\ todo' = {}
    /\ fill' = 0 /\ flag' = "intrade" /\ superseded' = FALSE

Goto(label) ==
    /\ pc' = label
    /\ UNCHANGED <<snap, mem, todo, fill, flag, superseded>>

EngineOnly == UNCHANGED <<live, undone, refresher, sweep, req, crashes>>

\* A write by a process that read before the one it overwrites.
Undo(kind, undoes) == undone' = IF undoes THEN undone \cup {kind} ELSE undone

-----------------------------------------------------------------------------
(* The engine: one round for the strategy.  The rounds of _datascript do   *)
(* not overlap (the executor is joined), so there is one such thread.      *)

\* Mutant: only opened strategies are loaded.
LoadOpenedOnly ==
    /\ pc = "idle"
    /\ strat.status = "opened"
    /\ snap' = strat
    /\ superseded' = FALSE
    /\ pc' = IF strat.position = "in" THEN "find" ELSE "entry"
    /\ UNCHANGED <<strat, rows, broker, mem, todo, fill, flag>> /\ EngineOnly

\* _current_strategy_snapshot re-reads the document and EMA dispatches on it.
Load ==
    /\ pc = "idle"
    /\ strat.status = "opened" \/ strat.position = "in"
    /\ snap' = strat
    /\ superseded' = FALSE
    /\ pc' = IF strat.position = "in" THEN "find" ELSE "entry"
    /\ UNCHANGED <<strat, rows, broker, mem, todo, fill, flag>> /\ EngineOnly

\* OBUYEXIT / OSELLEXIT: the open rows of the strategy.
FindOpen ==
    /\ pc = "find"
    /\ IF Open(rows) = {}
       THEN Goto("norows")
       ELSE /\ pc' = "loop"
            /\ todo' = Open(rows)
            /\ mem' = [e \in Entries |-> IF e \in Open(rows) THEN rows[e] ELSE NoRow]
            /\ UNCHANGED <<snap, fill, flag, superseded>>
    /\ UNCHANGED <<strat, rows, broker>> /\ EngineOnly

\* No open row: {'$set': {'position': 'out'}}, whatever happened since.
SetOut ==
    /\ pc = "norows"
    /\ strat' = [strat EXCEPT !.position = "out"]
    /\ EndRound
    /\ UNCHANGED <<rows, broker>> /\ EngineOnly

\* "User Exit" and "Bot Stopped": reasons that do not depend on the market.
MustExit(e) == mem[e].decision = "exitit" \/ snap.status # "opened"

\* No exit reason: the row read at the start of the round is written back.
KeepOpen(e) ==
    /\ pc = "loop" /\ IsFirst(e, todo) /\ ~MustExit(e)
    /\ rows' = [rows EXCEPT ![e] = mem[e]]
    /\ IF todo = {e}
       THEN EndRound
       ELSE /\ todo' = todo \ {e}
            /\ mem' = [mem EXCEPT ![e] = NoRow]
            /\ UNCHANGED <<pc, snap, fill, flag, superseded>>
    /\ UNCHANGED <<strat, broker>> /\ EngineOnly

\* The account sells k units of entry e, unless its margin is used up.
Sell(e, k) ==
    /\ held[e] - k >= -MaxShort
    /\ held' = [held EXCEPT ![e] = @ - k]

\* Mutant: the reported fill is not capped by the quantity asked for.
ExitOrderUncapped(e, k) ==
    /\ pc = "loop" /\ IsFirst(e, todo)
    /\ Sell(e, k)
    /\ mem' = [mem EXCEPT ![e].net = @ - k - 1, ![e].decision = "exitit"]
    /\ pc' = "partrow"
    /\ UNCHANGED <<strat, rows, issued, lost, crashed,
                   snap, todo, fill, flag, superseded>>
    /\ EngineOnly

\* Mutant: success alone closes the row, whatever quantity was filled.
ExitOrderClosesPartial(e, k) ==
    /\ pc = "loop" /\ IsFirst(e, todo)
    /\ live \/ k = mem[e].net
    /\ Sell(e, k)
    /\ mem' = [mem EXCEPT ![e].net = 0, ![e].status = "close"]
    /\ pc' = "closerow"
    /\ UNCHANGED <<strat, rows, issued, lost, crashed,
                   snap, todo, fill, flag, superseded>>
    /\ EngineOnly

\* _execute_exit_for_open_quantity and _apply_exit_fill: k of the recorded
\* quantity are reported filled (0: rejected, or accepted and still pending).
\* A paper exit fills completely.
ExitOrder(e, k) ==
    /\ pc = "loop" /\ IsFirst(e, todo)
    /\ live \/ k = mem[e].net
    /\ Sell(e, k)
    /\ IF k = mem[e].net
       THEN /\ mem' = [mem EXCEPT ![e].net = 0, ![e].status = "close"]
            /\ pc' = "closerow"
       ELSE /\ mem' = [mem EXCEPT ![e].net = @ - k, ![e].decision = "exitit"]
            /\ pc' = "partrow"
    /\ UNCHANGED <<strat, rows, issued, lost, crashed,
                   snap, todo, fill, flag, superseded>>
    /\ EngineOnly

\* The answer to a live exit names no quantity: _filled_quantity_from_response
\* falls back on the quantity asked for and the row is closed, whatever the
\* order filled.
ExitAcknowledged(e, k) ==
    /\ pc = "loop" /\ IsFirst(e, todo)
    /\ live /\ "unreported" \in Faults
    /\ k < mem[e].net
    /\ Sell(e, k)
    /\ lost' = lost \cup {e}
    /\ mem' = [mem EXCEPT ![e].net = 0, ![e].status = "close"]
    /\ pc' = "closerow"
    /\ UNCHANGED <<strat, rows, issued, crashed, snap, todo, fill, flag, superseded>>
    /\ EngineOnly

\* A quote or the broker call raises: the round ends with nothing saved.  With
\* "lost_reply" the order was accepted all the same.
ExitRaises(e, k) ==
    /\ pc = "loop" /\ IsFirst(e, todo)
    /\ "raise" \in Faults \/ "lost_reply" \in Faults
    /\ k = 0 \/ (live /\ "lost_reply" \in Faults)
    /\ Sell(e, k)
    /\ EndRound
    /\ UNCHANGED <<strat, rows, issued, lost, crashed>> /\ EngineOnly

\* The row in hand is written back whole.
SaveExitRow(e) ==
    /\ pc \in {"partrow", "closerow"} /\ IsFirst(e, todo)
    /\ rows' = [rows EXCEPT ![e] = mem[e]]
    /\ Goto(IF pc = "partrow" THEN "partcfg" ELSE "closecfg")
    /\ UNCHANGED <<strat, broker>> /\ EngineOnly

\* Mutant: a partial exit already takes the strategy out.
PartialGoesOut ==
    /\ pc = "partcfg"
    /\ strat' = [strat EXCEPT !.position = "out"]
    /\ EndRound
    /\ UNCHANGED <<rows, broker>> /\ EngineOnly

\* Not fully closed: {'$set': {'position': 'in'}}, return False.
KeepPositionIn ==
    /\ pc = "partcfg"
    /\ strat' = [strat EXCEPT !.position = "in"]
    /\ EndRound
    /\ UNCHANGED <<rows, broker>> /\ EngineOnly

\* Fully closed: {'$set': config} writes every field the snapshot has, the
\* status and revision read at the start of the round among them.  EMA goes on
\* with the same config, now "out", to the entry conditions.
SaveConfig ==
    /\ pc = "closecfg"
    /\ LET config == [snap EXCEPT !.position = "out"]
       IN  /\ strat' = [config EXCEPT !.entry = IF @ = "none" THEN strat.entry ELSE @]
           /\ IF snap.status = "opened"
              THEN /\ snap' = config /\ superseded' = FALSE
                   /\ pc' = "entry" /\ mem' = NoRows /\ todo' = {}
                   /\ UNCHANGED <<fill, flag>>
              ELSE EndRound
    /\ UNCHANGED <<rows, broker>> /\ EngineOnly

\* No signal, outside the window, waiting, or the claim below refused.
NoEntry ==
    /\ pc = "entry"
    /\ EndRound
    /\ UNCHANGED <<strat, rows, broker>> /\ EngineOnly

\* OBUY / OSELL return at once on these states of a live snapshot.
EntryBlocked == live /\ snap.entry \in {"submitting", "attempted", "broker_failed"}

\* Option selection or the wait for its price raises, before the claim.
EntryRaises ==
    /\ pc = "entry" /\ ~EntryBlocked
    /\ "raise" \in Faults
    /\ Goto("fail")
    /\ UNCHANGED <<strat, rows, broker>> /\ EngineOnly

\* What _claim_entry_submission reads and then requires again in its
\* conditional update.  Only the engine writes broker_failed, so testing it in
\* the earlier read changes nothing; the retry delay of preflight_failed is time.
Claimable ==
    /\ strat.status = "opened"
    /\ strat.rev = snap.rev
    /\ strat.position # "in"
    /\ strat.entry \notin {"submitting", "attempted"}
    /\ ~(live /\ strat.entry = "broker_failed")

Claim ==
    /\ pc = "entry" /\ ~EntryBlocked
    /\ issued < MaxEntries
    /\ Claimable
    /\ strat' = [strat EXCEPT !.entry = "submitting"]
    /\ Goto(IF live THEN "mark" ELSE "send")
    /\ UNCHANGED <<rows, broker>> /\ EngineOnly

\* {'$set': {'entry_order_state': 'attempted'}}, with no condition.
MarkAttempted ==
    /\ pc = "mark"
    /\ strat' = [strat EXCEPT !.entry = "attempted"]
    /\ Goto("check")
    /\ UNCHANGED <<rows, broker>> /\ EngineOnly

\* The last look at the document before the broker is called.
CheckCurrent ==
    /\ pc = "check"
    /\ Goto(IF StillCurrent THEN "send" ELSE "release")
    /\ UNCHANGED <<strat, rows, broker>> /\ EngineOnly

\* _release_stale_entry_submission; the signal id is always this claim's.
Release ==
    /\ pc = "release"
    /\ strat' = IF strat.position # "in" THEN [strat EXCEPT !.entry = "none"] ELSE strat
    /\ EndRound
    /\ UNCHANGED <<rows, broker>> /\ EngineOnly

\* The account buys k units: they are the entry order issued + 1.
Buy(k) ==
    /\ issued' = issued + 1
    /\ held' = [held EXCEPT ![issued + 1] = k]

\* Accepted.  _filled_quantity_from_broker_results takes the reported fill, and
\* the quantity asked for when that is 0 or missing.  Paper fills completely.
BrokerAccepts(k) ==
    /\ pc = "send" /\ (live \/ k = Qty)
    /\ Buy(k)
    /\ \/ k > 0 /\ fill' = k
       \/ k < Qty /\ "unreported" \in Faults /\ fill' = Qty
    /\ pc' = "price"
    /\ UNCHANGED <<strat, rows, lost, crashed, snap, mem, todo, flag, superseded>>
    /\ EngineOnly

BrokerRejects ==
    /\ pc = "send" /\ live
    /\ Goto("refused")
    /\ UNCHANGED <<strat, rows, broker>> /\ EngineOnly

\* A row with status broker_failed is inserted, which no query selects.
SettleRefused ==
    /\ pc = "refused"
    /\ SetEntry("out", "broker_failed")
    /\ EndRound
    /\ UNCHANGED <<rows, broker>> /\ EngineOnly

\* The broker call raises before the order was accepted, or there is no price
\* for the row of an order it refused.
OrderRaises ==
    /\ \/ pc = "send" /\ live /\ "raise" \in Faults
       \/ pc = "refused" /\ "quote" \in Faults
    /\ Goto("fail")
    /\ UNCHANGED <<strat, rows, broker>> /\ EngineOnly

\* The order is accepted and the call raises all the same (a timeout, an
\* answer that cannot be parsed).
ReplyLost(k) ==
    /\ pc = "send" /\ live /\ "lost_reply" \in Faults
    /\ Buy(k)
    /\ lost' = lost \cup {issued + 1}
    /\ Goto("fail")
    /\ UNCHANGED <<strat, rows, crashed>> /\ EngineOnly

\* _get_market_price raises after the order was accepted.
PriceRaises ==
    /\ pc = "price" /\ "quote" \in Faults
    /\ lost' = lost \cup {issued}
    /\ Goto("fail")
    /\ UNCHANGED <<strat, rows, held, issued, crashed>> /\ EngineOnly

\* The row of a strategy that changed meanwhile is marked for exit.
BuildRow ==
    /\ pc = "price"
    /\ flag' = IF StillCurrent THEN "intrade" ELSE "exitit"
    /\ pc' = "insert"
    /\ UNCHANGED <<strat, rows, broker, snap, mem, todo, fill, superseded>>
    /\ EngineOnly

InsertRow ==
    /\ pc = "insert"
    /\ rows' = [rows EXCEPT ![issued] =
                   [status |-> "open", decision |-> flag, net |-> fill]]
    /\ Goto("settle")
    /\ UNCHANGED <<strat, broker>> /\ EngineOnly

Settle ==
    /\ pc = "settle"
    /\ SetEntry("in", "success")
    /\ EndRound
    /\ UNCHANGED <<rows, broker>> /\ EngineOnly

\* except Exception: the strategy is out and the entry may be retried.
EntryFailed ==
    /\ pc = "fail"
    /\ SetEntry("out", "preflight_failed")
    /\ EndRound
    /\ UNCHANGED <<rows, broker>> /\ EngineOnly

ExitRound ==
    \/ FindOpen \/ SetOut \/ KeepPositionIn \/ SaveConfig
    \/ \E e \in Entries :
          \/ KeepOpen(e) \/ SaveExitRow(e)
          \/ \E k \in 0 .. mem[e].net :
                ExitOrder(e, k) \/ ExitAcknowledged(e, k) \/ ExitRaises(e, k)

EntryRound ==
    \/ NoEntry \/ EntryRaises \/ Claim \/ MarkAttempted \/ CheckCurrent \/ Release
    \/ \E k \in 0 .. Qty : BrokerAccepts(k) \/ ReplyLost(k)
    \/ BrokerRejects \/ SettleRefused \/ OrderRaises \/ PriceRaises
    \/ BuildRow \/ InsertRow \/ Settle \/ EntryFailed

Engine == Load \/ ExitRound \/ EntryRound

-----------------------------------------------------------------------------
(* The refresher (_positionshold, _refresh_open_opositions_snapshot).      *)

RefresherOnly ==
    UNCHANGED <<live, broker, engine, superseded, sweep, req, crashes>>

NextRow(e) ==
    /\ rtodo' = rtodo \ {e}
    /\ rcopy' = [rcopy EXCEPT ![e] = NoRow]
    /\ rpc' = IF rtodo = {e} THEN "idle" ELSE "read"

Scan ==
    /\ "refresh" \in Ops
    /\ pc # "down" /\ rpc = "idle" /\ Open(rows) # {}
    /\ rpc' = "read"
    /\ rtodo' = Open(rows)
    /\ rcopy' = [e \in Entries |-> IF e \in Open(rows) THEN rows[e] ELSE NoRow]
    /\ UNCHANGED <<strat, rows, undone>> /\ RefresherOnly

\* The strategy of the row: a stopped one marks the copy for exit.
ReadStrategy(e) ==
    /\ rpc = "read" /\ IsFirst(e, rtodo)
    /\ rcopy' = IF strat.status = "opened" THEN rcopy
                ELSE [rcopy EXCEPT ![e].decision = "exitit"]
    /\ rpc' = IF strat.position = "out" THEN "repair" ELSE "write"
    /\ UNCHANGED <<strat, rows, undone, rtodo>> /\ RefresherOnly

\* "open-position strategy mismatch repaired"
RepairPosition ==
    /\ rpc = "repair"
    /\ strat' = [strat EXCEPT !.position = "in"]
    /\ rpc' = "write"
    /\ UNCHANGED <<rows, undone, rcopy, rtodo>> /\ RefresherOnly

\* With fresh prices in it the whole copy is written back by _id.
WriteBack(e) ==
    /\ rpc = "write" /\ IsFirst(e, rtodo)
    /\ rows' = [rows EXCEPT ![e] = rcopy[e]]
    /\ Undo("row", rows[e].status # "open")
    /\ NextRow(e)
    /\ UNCHANGED strat /\ RefresherOnly

\* No price: the exception skips the row, its mark included.
SkipRow(e) ==
    /\ rpc = "write" /\ IsFirst(e, rtodo)
    /\ NextRow(e)
    /\ UNCHANGED <<strat, rows, undone>> /\ RefresherOnly

Refresher ==
    \/ Scan \/ RepairPosition
    \/ \E e \in Entries : ReadStrategy(e) \/ WriteBack(e) \/ SkipRow(e)

-----------------------------------------------------------------------------
(* Lifecycle changes: the requests and the subscription sweep.             *)

\* An update that sets the status and increments lifecycle_revision.
Lifecycle(doc) ==
    /\ doc.rev < MaxRev
    /\ strat' = [doc EXCEPT !.rev = @ + 1]
    /\ superseded' = (pc \notin {"idle", "down"})

RequestOnly == UNCHANGED <<live, broker, engine, refresher, sweep, crashes>>

SetReq(r, x) == req' = [req EXCEPT ![r] = x]

\* api_stop_ssalgo, api_delete_strategy and their admin forms: one conditional
\* update; the rows are marked by a second operation.
Retire(r, op, target) ==
    /\ op \in Ops /\ req[r] = NoReq
    /\ IF strat.status = target
       THEN UNCHANGED <<strat, superseded>>
       ELSE Lifecycle([strat EXCEPT !.status = target])
    /\ SetReq(r, [op |-> "mark"])
    /\ UNCHANGED <<rows, undone>> /\ RequestOnly

\* mark_strategy_positions_exit
MarkExit(r) ==
    /\ req[r].op = "mark"
    /\ rows' = [e \in Entries |-> IF rows[e].status = "open"
                                  THEN [rows[e] EXCEPT !.decision = "exitit"]
                                  ELSE rows[e]]
    /\ SetReq(r, NoReq)
    /\ UNCHANGED <<strat, superseded, undone>> /\ RequestOnly

\* Mutant: a start clears whatever entry state it saw.
ReadToStartAnyState(r) ==
    /\ "start" \in Ops /\ req[r] = NoReq
    /\ strat.status # "opened"
    /\ SetReq(r, [op |-> "start",
                  saw |-> IF strat.position # "in" THEN strat.entry ELSE "none"])
    /\ UNCHANGED <<strat, rows, superseded, undone>> /\ RequestOnly

\* api_start_ssalgo reads the document: an opened one needs no start, and the
\* update will clear a failed entry it saw.  The admin form never clears.
ReadToStart(r) ==
    /\ {"start", "astart"} \cap Ops # {} /\ req[r] = NoReq
    /\ strat.status # "opened"
    /\ \E admin \in BOOLEAN :
          /\ (IF admin THEN "astart" ELSE "start") \in Ops
          /\ SetReq(r, [op |-> "start",
                        saw |-> IF /\ ~admin
                                   /\ strat.position # "in"
                                   /\ strat.entry \in FailedEntry
                                THEN strat.entry ELSE "none"])
    /\ UNCHANGED <<strat, rows, superseded, undone>> /\ RequestOnly

\* The update requires only that the status is still not "opened".
CommitStart(r) ==
    /\ req[r].op = "start"
    /\ IF strat.status = "opened"
       THEN UNCHANGED <<strat, superseded, undone>>
       ELSE IF req[r].saw = "none"
       THEN Lifecycle([strat EXCEPT !.status = "opened"]) /\ UNCHANGED undone
       ELSE /\ Lifecycle([strat EXCEPT !.status = "opened",
                                       !.position = "out", !.entry = "none"])
            /\ Undo("start", strat.position = "in" \/ strat.entry = "attempted")
    /\ SetReq(r, NoReq)
    /\ UNCHANGED rows /\ RequestOnly

\* make_edit_strategy_endpoint reads the document and builds the new one ...
ReadToEdit(r) ==
    /\ "edit" \in Ops /\ req[r] = NoReq
    /\ SetReq(r, [op |-> "edit", status |-> strat.status, position |-> strat.position])
    /\ UNCHANGED <<strat, rows, superseded, undone>> /\ RequestOnly

\* ... and writes it with the status and position it read.
CommitEdit(r) ==
    /\ req[r].op = "edit"
    /\ Lifecycle([strat EXCEPT !.status = req[r].status, !.position = req[r].position])
    /\ Undo("edit", strat.position = "in" /\ req[r].position = "out")
    /\ SetReq(r, NoReq)
    /\ UNCHANGED rows /\ RequestOnly

\* api_delete_oposition: the user asks for the exit of one open position.
ExitPosition(e) ==
    /\ "exit" \in Ops
    /\ rows[e].status = "open" /\ rows[e].decision # "exitit"
    /\ rows' = [rows EXCEPT ![e].decision = "exitit"]
    /\ UNCHANGED <<strat, superseded, undone, req>> /\ RequestOnly

\* The web process dies, or validation fails, between two operations.
RequestDies(r) ==
    /\ req[r] # NoReq
    /\ SetReq(r, NoReq)
    /\ UNCHANGED <<strat, rows, superseded, undone>> /\ RequestOnly

Request ==
    \/ \E r \in Requests :
          \/ Retire(r, "stop", "paused") \/ Retire(r, "delete", "closed")
          \/ MarkExit(r) \/ ReadToStart(r) \/ CommitStart(r)
          \/ ReadToEdit(r) \/ CommitEdit(r) \/ RequestDies(r)
    \/ \E e \in Entries : ExitPosition(e)

\* _stopnotsubusers finds the opened strategies of a user whose period ended ...
SweepFind ==
    /\ "sweep" \in Ops
    /\ pc # "down" /\ sweep = "idle" /\ strat.status = "opened"
    /\ sweep' = "pause"
    /\ UNCHANGED <<strat, rows, superseded, live, broker, undone, engine, refresher,
                   req, crashes>>

\* ... and pauses them, whatever their status is by then.
SweepPause ==
    /\ sweep = "pause"
    /\ Lifecycle([strat EXCEPT !.status = "paused"])
    /\ sweep' = "idle"
    /\ UNCHANGED <<rows, live, broker, undone, engine, refresher, req, crashes>>

-----------------------------------------------------------------------------
(* The worker process dies with its threads, and is started again.         *)

ProcessGone ==
    /\ crashes < MaxCrash /\ crashes' = crashes + 1
    /\ pc' = "down" /\ snap' = NoSnap /\ mem' = NoRows /\ todo' = {}
    /\ fill' = 0 /\ flag' = "intrade" /\ superseded' = FALSE
    /\ rpc' = "idle" /\ rcopy' = NoRows /\ rtodo' = {}
    /\ sweep' = "idle"
    /\ UNCHANGED <<live, strat, rows, undone, req>>

Crash ==
    /\ pc # "down"
    /\ ProcessGone
    /\ LET gone == IF pc \in {"price", "insert"} THEN {issued} ELSE {}
       IN  lost' = lost \cup gone /\ crashed' = crashed \cup gone
    /\ UNCHANGED <<held, issued>>

\* It dies inside the call, with the order on its way.
CrashInCall(k) ==
    /\ pc = "send" /\ live
    /\ ProcessGone
    /\ Buy(k)
    /\ lost' = lost \cup {issued + 1} /\ crashed' = crashed \cup {issued + 1}

\* Mutant: a restart forgets the entry that was in flight.
RestartClearsEntry ==
    /\ pc = "down"
    /\ pc' = "idle"
    /\ strat' = IF Open(rows) = {} THEN [strat EXCEPT !.position = "out", !.entry = "none"]
                ELSE strat
    /\ UNCHANGED <<live, rows, broker, undone, snap, mem, todo, fill, flag,
                   superseded, refresher, sweep, req, crashes>>

\* trading_worker_main: _repair_closed_strategies_without_positions, then the
\* engine.  Nothing else is recovered.  The repair reads, counts and updates; one
\* step stands for it, since its update is conditional on closed and "in", no
\* engine or refresher runs before it ends, and nobody else inserts or reopens a
\* row or writes "attempted" meanwhile.
Restart ==
    /\ pc = "down"
    /\ pc' = "idle"
    /\ strat' = IF /\ strat.status = "closed" /\ strat.position = "in"
                   /\ strat.entry # "attempted" /\ Open(rows) = {}
                THEN [strat EXCEPT !.position = "out", !.entry = "none"]
                ELSE strat
    /\ UNCHANGED <<live, rows, broker, undone, snap, mem, todo, fill, flag,
                   superseded, refresher, sweep, req, crashes>>

Process == Crash \/ Restart \/ \E k \in 0 .. Qty : CrashInCall(k)

-----------------------------------------------------------------------------
Next == Engine \/ Refresher \/ Request \/ SweepFind \/ SweepPause \/ Process

Spec == Init /\ [][Next]_vars

\* The threads keep running, a dead worker is started again (Procfile: the
\* platform restarts it), and the broker does not fail every exit order.
Fairness ==
    /\ WF_vars(Engine)
    /\ WF_vars(Refresher)
    /\ WF_vars(Restart)
    /\ SF_vars(\E e \in Entries : ExitOrder(e, mem[e].net))

FairSpec == Spec /\ Fairness

-----------------------------------------------------------------------------
(* Properties.                                                             *)

\* Every unit the account holds is on record: in an open row that asks for at
\* least as many to be sold, or in the locals of the engine on their way to
\* one, unless an exception, a crash or an unreported exit lost the order.  The
\* engine and the refresher write whole rows back from stale copies while exits
\* fill and requests mark rows; none of it may forget exposure.
ExposureTracked ==
    \A e \in Entries : held[e] > 0 =>
        \/ rows[e].status = "open" /\ held[e] <= rows[e].net
        \/ e = issued /\ pc \in {"price", "insert"} /\ held[e] <= fill
        \/ e \in lost

\* The check right before the broker call lets no live entry order pass whose
\* strategy was stopped, deleted, paused or edited since the engine read it
\* (or, in a round that closed a position first, since it wrote it).
NoSupersededOrder ==
    [][pc = "check" /\ pc' = "send" => ~superseded]_vars

\* A live order that died with the worker keeps blocking entries: no restart,
\* edit, stale write or failed attempt clears the "attempted" state it left,
\* unless a start that saw an earlier failure was still on its way.
CrashedEntryBlocks ==
    live /\ crashed # {} /\ "start" \notin undone => strat.entry = "attempted"

\* The update of a start that read a failed entry.
ClearsFailure(r) == req[r].op = "start" /\ req[r].saw \in FailedEntry /\ req'[r] = NoReq

\* Only the engine itself resolves the entry it attempted, but for a start that
\* read a failure before the engine's next attempt: whatever else a request read
\* does not erase the state that guards the order.
OwnOutcome ==
    [][strat.entry = "attempted" /\ strat'.entry # "attempted"
         => \/ pc \in {"release", "refused", "settle", "fail"}
            \/ \E r \in Requests : ClearsFailure(r)]_vars

\* The account never holds the units of two live entry orders of one strategy,
\* crashes included, while no stale write undid a newer one and but for orders
\* that a failure after their acceptance lost.
SingleExposure == live /\ undone = {} =>
    \A e, f \in Entries \ (lost \ crashed) : held[e] > 0 /\ held[f] > 0 => e = f

\* The guide says it without conditions: the entry state "prevents unsafe
\* duplicate live entries".
NoDuplicateEntry == live =>
    \A e, f \in Entries : held[e] > 0 /\ held[f] > 0 => e = f

\* The quantity left to exit on a row only goes down: what an exit order filled
\* is never owed again, on an open row or on a closed one.
RemainingNetPreserved ==
    [][\A e \in Entries : rows[e].status # "none" => rows'[e].net <= rows[e].net]_vars

\* A stopped strategy is opened again by a start request only.
StoppedStaysStopped ==
    [][strat.status = "paused" /\ strat'.status = "opened"
         => \E r \in Requests : req[r].op = "start"]_vars

\* A row is closed by a confirmed exit only: the account holds none of its units.
ClosedIsFlat == \A e \in Entries : rows[e].status = "close" => held[e] <= 0

\* A strategy that stays stopped or deleted ends flat, through crashes, partial
\* and failed exits, stale positions and rows; only lost orders are beyond it.
StoppedGoesFlat ==
    \A e \in Entries :
        <>[](strat.status # "opened") => <>[](held[e] <= 0 \/ e \in lost)
=============================================================================
