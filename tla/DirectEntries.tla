---------------------------- MODULE DirectEntries ----------------------------
(***************************************************************************)
(* The strategies of the engine that enter without the claim of the 143    *)
(* options: index futures (FBUY, FSELL, FEXIT), equities (EQSSALGO: EBUY,  *)
(* EBUYEXIT) and commodities (MCXSTRATEGY).  This module has what the      *)
(* three share: the documents, the account, the start of a round, exit     *)
(* orders, the refresher, requests, and the life of the worker.            *)
(*                                                                         *)
(* An action is one MongoDB operation or one broker call with the code up  *)
(* to the next one.  Signals, prices and exit levels are left to choice.   *)
(***************************************************************************)
EXTENDS Integers, FiniteSets

CONSTANTS
    Cases,          \* the strategies explored, each with its bounds
    MaxEntries,     \* the most entries of any of them
    MaxSlices       \* the most orders one futures entry is cut into

Faults == {"raise",         \* an exception before the broker accepts
           "lost_reply",    \* the broker accepts, the call raises
           "quote",         \* no price
           "unreported",    \* the answer to an exit names no quantity
          "no_id",         \* a duplicate is blocked: its order has no broker id
           "blind"}         \* the order book cannot be read

Sides == {1, 2}     \* BUY, SELL

ASSUME DirectAssumption ==
    /\ Cases \subseteq [family : {"futures", "equity", "mcx"}, live : BOOLEAN,
                        window : {"none",           \* not AliceBlue, or paper
                                  "one", "many"},   \* see WindowPasses
                        sides : SUBSET Sides,       \* those the signals ask for
                        limit : Nat,                \* max_trades_per_day
                        entries : 1 .. MaxEntries,  \* entries explored
                        slices : 1 .. MaxSlices,    \* orders of one entry (lot > 20)
                        upsets : Nat,               \* requests and deaths
                        ops : SUBSET {"stop", "delete", "start", "edit", "exit"},
                        faults : SUBSET Faults]
    /\ \A c \in Cases : c.window # "none" => c.live /\ c.family # "equity"
    \* _place_mcx_live_order takes no other broker
    /\ \A c \in Cases : c.live /\ c.family = "mcx" => c.window # "none"
    /\ MaxEntries \in Nat \ {0} /\ MaxSlices \in Nat \ {0}

Entries  == 1 .. MaxEntries
Kinds    == {1, 2}      \* the symbol of an equity row, the contract of an MCX row
Keys     == Kinds \X Sides      \* what AliceBlue tells orders apart by
Statuses == {"opened", "paused", "closed"}

Strategies == [status : Statuses, position : {"in", "out"},
               entry : {"none", "attempted", "success", "broker_failed",
                        "preflight_failed"},
               contract : Kinds, steps : BOOLEAN]
Rows  == [status : {"none", "open", "close", "broker_failed"},
          decision : {"intrade", "exitit"}, net : Nat, kind : Kinds, side : Sides]
NoRow == [status |-> "none", decision |-> "intrade", net |-> 0, kind |-> 1, side |-> 1]
NoRows     == [e \in Entries |-> NoRow]
NoStrategy == [status |-> "closed", position |-> "out", entry |-> "none",
               contract |-> 1, steps |-> FALSE]

VARIABLES
    case,       \* the strategy explored
    strat,      \* the strategy document
    rows,       \* its Opositions documents, by entry
    held,       \* the account: units of each entry, -1 when it is short
    unseen,     \* history: entries the documents lose sight of
    phantom,    \* history: rows that stand for more than was bought
    book,       \* AliceBlue's order book of the last 30 s: by symbol and side, the
                \* entry the last order was for, 0 for none
    recent,     \* those the engine remembers an accepted order of
    accepted,   \* history: entry orders of each, inside one window
    pc, copy,   \* the engine: where it is, and its copy of the strategy
    mem, todo,  \* its copies of the open rows, those still to visit
    cur, sent, bad,     \* the entry under way, its orders sent, one refused
    left,       \* the symbols an equity round has still to look at
    rpc, rcopy, rtodo,  \* the refresher: where it is, its copies of the rows
    req,        \* a request between two operations
    upsets      \* requests and deaths so far

\* The live flag is constant: an edit that changes it under an open MCX row,
\* whose exit goes by the strategy's flag and not by the row's, is not modelled.
family == case.family
live   == case.live

history   == <<unseen, phantom>>
window    == <<book, recent, accepted>>
market    == <<held, window>>
locals    == <<copy, mem, todo, cur, sent, bad, left>>
engine    == <<pc, locals>>
refresher == <<rpc, rcopy, rtodo>>
vars      == <<case, strat, rows, market, history, engine, refresher, req, upsets>>

PCs == {"idle", "down", "find", "set_out", "loop", "steps", "save", "config",
        "gate", "mark", "send", "quote", "insert", "settle", "fail"}

TypeOK ==
    /\ case \in Cases
    /\ strat \in Strategies /\ copy \in Strategies
    /\ rows \in [Entries -> Rows] /\ mem \in [Entries -> Rows]
    /\ held \in [Entries -> -1 .. MaxSlices]
    /\ unseen \subseteq Entries /\ phantom \subseteq Entries
    /\ book \in [Keys -> 0 .. MaxEntries] /\ recent \subseteq Keys
    /\ accepted \in [Keys -> Nat]
    /\ pc \in PCs /\ todo \subseteq Entries /\ cur \in Entries
    /\ sent \in 0 .. MaxSlices /\ bad \in BOOLEAN /\ left \subseteq Kinds
    /\ rpc \in {"idle", "read", "repair", "write"}
    /\ rcopy \in [Entries -> Rows] /\ rtodo \subseteq Entries
    /\ req \in [op : {"none", "mark", "start", "edit"}, status : Statuses,
                position : {"in", "out"}, contract : Kinds, clear : BOOLEAN]
    /\ upsets \in 0 .. case.upsets

NoRequest == [op |-> "none", status |-> "paused", position |-> "out",
              contract |-> 1, clear |-> FALSE]

Init ==
    /\ case \in Cases
    /\ strat = [NoStrategy EXCEPT !.status = "opened"]
    /\ rows = NoRows /\ held = [e \in Entries |-> 0]
    /\ unseen = {} /\ phantom = {}
    /\ book = [s \in Keys |-> 0] /\ recent = {} /\ accepted = [s \in Keys |-> 0]
    /\ pc = "idle" /\ copy = NoStrategy /\ mem = NoRows /\ todo = {}
    /\ cur = 1 /\ sent = 0 /\ bad = FALSE /\ left = {}
    /\ rpc = "idle" /\ rcopy = NoRows /\ rtodo = {}
    /\ req = NoRequest /\ upsets = 0

-----------------------------------------------------------------------------
(* The start of a round, and what its steps share.                         *)

Open(t) == {e \in Entries : t[e].status = "open"}
First(S) == CHOOSE e \in S : \A f \in S : e <= f

\* Entries that no row, no order and no writer knows yet.
New == {e \in 1 .. case.entries : rows[e] = NoRow /\ held[e] = 0 /\ e \notin unseen \cup phantom}

Goto(label) == pc' = label

Rest == /\ Goto("idle") /\ copy' = NoStrategy /\ mem' = NoRows /\ todo' = {}
        /\ cur' = 1 /\ sent' = 0 /\ bad' = FALSE /\ left' = {}

Others == UNCHANGED <<case, refresher, req, upsets>>

\* Mutant: a strategy that was stopped is not visited.
VisitedOpened == strat.status = "opened"

Visited == strat.status = "opened" \/ strat.position = "in"

\* _datascript and _dataequityscript find it, _current_strategy_snapshot reads
\* it again.
Load ==
    /\ pc = "idle" /\ Visited
    /\ copy' = strat
    /\ Goto(CASE family = "equity" -> IF strat.status = "opened" THEN "gate" ELSE "find"
              [] family = "mcx"    -> "find"
              [] OTHER -> IF strat.position = "in" THEN "find" ELSE "gate")
    /\ left' = IF family = "equity" /\ strat.status = "opened" THEN Kinds ELSE {}
    /\ UNCHANGED <<strat, rows, market, history, mem, todo, cur, sent, bad>> /\ Others

\* Opositions.find({status: 'open'})
Find(next) ==
    /\ pc = "find" /\ Open(rows) # {}
    /\ mem' = [e \in Entries |-> IF e \in Open(rows) THEN rows[e] ELSE NoRow]
    /\ todo' = Open(rows) /\ Goto(next)
    /\ UNCHANGED <<strat, rows, market, history, copy, cur, sent, bad, left>> /\ Others

\* "User Exit" and "Bot Exit": reasons that do not depend on the market.
MustExit(e) == mem[e].decision = "exitit" \/ copy.status # "opened"

\* A row that is written as it was read, later: it may undo what was written
\* since, and then stands for more than was bought.
Undoes(e, row) == row.status = "open" /\ (rows[e].status # "open" \/ row.net > rows[e].net)

PutRow(e, row) ==
    /\ rows' = [rows EXCEPT ![e] = row]
    /\ phantom' = IF Undoes(e, row) THEN phantom \cup {e} ELSE phantom

\* The row in hand is done with.
NextRow == todo' = todo \ {First(todo)} /\ mem' = [mem EXCEPT ![First(todo)] = NoRow]

\* No exit reason: the row is written back as it was read.
KeepRow ==
    /\ pc = "loop" /\ todo # {} /\ family # "mcx"
    /\ ~MustExit(First(todo))
    /\ PutRow(First(todo), mem[First(todo)])
    /\ NextRow
    /\ UNCHANGED <<strat, market, unseen, pc, copy, cur, sent, bad, left>> /\ Others

\* The account trades k units of the entry; paper trades none.  An account
\* that was sold too much is short, however much.
Trade(e, k) == held' = [held EXCEPT ![e] = IF ~live THEN @ ELSE IF @ + k < -1 THEN -1 ELSE @ + k]

-----------------------------------------------------------------------------
(* AliceBlue: for 30 s an order of the same symbol and side is a duplicate, *)
(* which is answered "Ok" and not sent.                                    *)

alice == case.window # "none"

\* Mutant: an entry looks at what the engine remembers only.
NewOrderRemembered(key) == key \notin recent

\* _has_recent_broker_order, _aliceblue_orderbook_duplicate: no such order, as
\* far as a limit order can tell.
NewOrder(key) == key \notin recent /\ (book[key] = 0 \/ "blind" \in case.faults)

\* The broker has an order; an answer makes the engine remember it.
Books(key, e) == book' = IF alice THEN [book EXCEPT ![key] = e] ELSE book
Remembers(key) == recent' = IF alice THEN recent \cup {key} ELSE recent

\* _remember_recent_broker_order
OrderOut(key, e) == Books(key, e) /\ Remembers(key) /\ UNCHANGED accepted

\* 30 s have passed; a case of one window is over before.
WindowPasses ==
    /\ case.window = "many"
    /\ \E key \in Keys :
          /\ book[key] # 0
          /\ book' = [book EXCEPT ![key] = 0] /\ recent' = recent \ {key}
    /\ UNCHANGED <<case, strat, rows, held, accepted, history, engine, refresher, req, upsets>>

-----------------------------------------------------------------------------
(* Entry orders.                                                           *)

EntryKey == <<mem[cur].kind, mem[cur].side>>

\* The broker accepts an order of the entry under way.
AcceptEntry ==
    /\ alice => NewOrder(EntryKey)
    /\ Trade(cur, 1) /\ Books(EntryKey, cur)
    /\ accepted' = IF case.window = "one" THEN [accepted EXCEPT ![EntryKey] = @ + 1]
                   ELSE accepted

\* The entry whose order is taken for this one: an entry that raised, and left
\* its order without a row, hands it over.
Adopts(f) == f \notin {0, cur} /\ rows[f].status = "none" /\ held[f] > 0

\* A duplicate counts as accepted: the row will stand for an order of the last
\* 30 s, its own, that of an entry lost, or one that is accounted for already.
EntryAnswered ==
    LET f == book[EntryKey] IN
    /\ alice /\ f # 0
    /\ IF Adopts(f)
       THEN /\ held' = [held EXCEPT ![f] = @ - 1, ![cur] = @ + 1]
            /\ unseen' = IF held[f] = 1 THEN unseen \ {f} ELSE unseen
            /\ Books(EntryKey, cur) /\ UNCHANGED <<recent, accepted, phantom>>
       ELSE phantom' = phantom \cup {cur} /\ UNCHANGED <<market, unseen>>

-----------------------------------------------------------------------------
(* Exit orders of FEXIT and EBUYEXIT.                                      *)

\* MCX orders the contract the strategy has at that time.
ExitKey(e) == <<IF family = "mcx" THEN copy.contract ELSE mem[e].kind,
                IF mem[e].side = 1 THEN 2 ELSE 1>>

\* FEXIT squares off, which looks at what the engine remembers only.
AtExit == /\ pc = "loop" /\ todo # {} /\ family # "mcx"
          /\ alice => ExitKey(First(todo)) \notin recent

\* A refused order leaves no trace.
ExitSent(e, k) == IF k = 0 THEN UNCHANGED window ELSE OrderOut(ExitKey(e), e)

\* Mutant: the quantity that was reported is not capped.
ExitOrderUncapped(k) ==
    /\ AtExit
    /\ LET e == First(todo)
           closed == k = mem[e].net IN
          /\ live \/ closed
          /\ Trade(e, -k) /\ ExitSent(e, k)
          /\ mem' = [mem EXCEPT ![e].net = @ - k,
                                ![e].status = IF closed THEN "close" ELSE @,
                                ![e].decision = IF closed THEN "intrade" ELSE "exitit"]
          /\ copy' = [copy EXCEPT !.position = IF closed THEN "out" ELSE "in"]
          /\ Goto(IF closed /\ family = "equity" THEN "steps" ELSE "save")
    /\ UNCHANGED <<strat, rows, history, todo, cur, sent, bad, left>> /\ Others

\* Mutant: success alone closes the row, whatever quantity was filled.
ExitOrderClosesAll(k) ==
    /\ AtExit
    /\ LET e == First(todo) IN
          /\ k <= mem[e].net /\ (live \/ k = mem[e].net)
          /\ Trade(e, -k) /\ ExitSent(e, k)
          /\ mem' = [mem EXCEPT ![e].net = 0, ![e].status = "close", ![e].decision = "intrade"]
          /\ copy' = [copy EXCEPT !.position = "out"]
    /\ Goto(IF family = "equity" THEN "steps" ELSE "save")
    /\ UNCHANGED <<strat, rows, history, todo, cur, sent, bad, left>> /\ Others

\* _execute_exit_for_open_quantity and _apply_exit_fill: k units are reported
\* filled (0: refused, or pending).  A paper exit fills completely.
ExitOrder(k) ==
    /\ AtExit
    /\ LET e == First(todo)
           closed == k = mem[e].net IN
          /\ k <= mem[e].net /\ (live \/ closed)
          /\ Trade(e, -k) /\ ExitSent(e, k)
          /\ mem' = [mem EXCEPT ![e].net = @ - k,
                                ![e].status = IF closed THEN "close" ELSE @,
                                ![e].decision = IF closed THEN @ ELSE "exitit"]
          /\ copy' = [copy EXCEPT !.position = IF closed THEN "out" ELSE "in"]
          /\ Goto(IF closed /\ family = "equity" THEN "steps" ELSE "save")
    /\ UNCHANGED <<strat, rows, history, todo, cur, sent, bad, left>> /\ Others

\* An answer that names no quantity counts as filled, whatever was.
ExitAcknowledged(k) ==
    /\ AtExit /\ live /\ "unreported" \in case.faults
    /\ LET e == First(todo) IN
          /\ k < mem[e].net
          /\ Trade(e, -k) /\ OrderOut(ExitKey(e), e)
          /\ unseen' = unseen \cup {e}
          /\ mem' = [mem EXCEPT ![e].net = 0, ![e].status = "close", ![e].decision = "intrade"]
    /\ copy' = [copy EXCEPT !.position = "out"]
    /\ Goto(IF family = "equity" THEN "steps" ELSE "save")
    /\ UNCHANGED <<strat, rows, phantom, todo, cur, sent, bad, left>> /\ Others

\* A duplicate: answered with the id of the order before, and no quantity.
ExitAnswered ==
    /\ alice /\ pc = "loop" /\ todo # {} /\ family # "mcx"
    /\ ExitKey(First(todo)) \in recent
    /\ LET e == First(todo) IN
          /\ unseen' = IF held[e] > 0 THEN unseen \cup {e} ELSE unseen
          /\ mem' = [mem EXCEPT ![e].net = 0, ![e].status = "close"]
    /\ copy' = [copy EXCEPT !.position = "out"]
    /\ Goto("save")
    /\ UNCHANGED <<strat, rows, market, phantom, todo, cur, sent, bad, left>> /\ Others

\* A duplicate of an order without an id counts as refused.
ExitBlocked ==
    /\ alice /\ pc = "loop" /\ todo # {} /\ family # "mcx"
    /\ ExitKey(First(todo)) \in recent /\ "no_id" \in case.faults
    /\ mem' = [mem EXCEPT ![First(todo)].decision = "exitit"]
    /\ copy' = [copy EXCEPT !.position = "in"]
    /\ Goto("save")
    /\ UNCHANGED <<strat, rows, market, history, todo, cur, sent, bad, left>> /\ Others

\* The exit raises: FEXIT goes on to the entry, EBUYEXIT returns; nothing is
\* saved, though the order may have been accepted.
ExitRaises(k) ==
    /\ AtExit
    /\ \/ k = 0 /\ "raise" \in case.faults
       \/ k > 0 /\ live /\ "lost_reply" \in case.faults
    /\ k <= mem[First(todo)].net
    /\ Trade(First(todo), -k) /\ UNCHANGED <<recent, accepted>>
    /\ IF k = 0 THEN UNCHANGED book ELSE Books(ExitKey(First(todo)), First(todo))
    /\ phantom' = IF k = 0 THEN phantom ELSE phantom \cup {First(todo)}
    /\ IF family = "equity" THEN Rest
       ELSE /\ Goto("gate") /\ mem' = NoRows /\ todo' = {}
            /\ UNCHANGED <<copy, cur, sent, bad, left>>
    /\ UNCHANGED <<strat, rows, unseen>> /\ Others

\* {'$set': trade}, the row in hand.  FEXIT goes on, EBUYEXIT returns.
SaveRow ==
    /\ pc = "save" /\ family # "mcx"
    /\ LET e == First(todo) IN
          /\ PutRow(e, mem[e])
          /\ IF family = "equity" THEN Rest
             ELSE IF mem[e].status = "close"
                  THEN Goto("config") /\ UNCHANGED locals
                  ELSE Goto("loop") /\ NextRow /\ UNCHANGED <<copy, cur, sent, bad, left>>
    /\ UNCHANGED <<strat, market, unseen>> /\ Others

\* {'$set': config}: the whole document as the round read it.
SetStrategy(config) ==
    strat' = [config EXCEPT !.entry = IF @ = "none" THEN strat.entry ELSE @,
                            !.steps = @ \/ strat.steps]

-----------------------------------------------------------------------------
(* The refresher (_refresh_open_opositions_snapshot).                      *)

Refreshing == UNCHANGED <<case, market, unseen, engine, req, upsets>>

Scan ==
    /\ pc # "down" /\ rpc = "idle" /\ Open(rows) # {}
    /\ rcopy' = [e \in Entries |-> IF e \in Open(rows) THEN rows[e] ELSE NoRow]
    /\ rtodo' = Open(rows) /\ rpc' = "read"
    /\ UNCHANGED <<strat, rows, phantom>> /\ Refreshing

\* The strategy of the row: one that was stopped marks the copy for exit.
ReadStrategy ==
    /\ rpc = "read"
    /\ rcopy' = [rcopy EXCEPT ![First(rtodo)].decision =
                    IF strat.status = "opened" THEN @ ELSE "exitit"]
    /\ rpc' = IF strat.position = "out" THEN "repair" ELSE "write"
    /\ UNCHANGED <<strat, rows, phantom, rtodo>> /\ Refreshing

RepairPosition ==
    /\ rpc = "repair"
    /\ strat' = [strat EXCEPT !.position = "in"] /\ rpc' = "write"
    /\ UNCHANGED <<rows, phantom, rcopy, rtodo>> /\ Refreshing

\* $set: position, the whole row; a price that is missing skips the row.
WriteBack ==
    /\ rpc = "write"
    /\ \/ PutRow(First(rtodo), rcopy[First(rtodo)])
       \/ "quote" \in case.faults /\ UNCHANGED <<rows, phantom>>
    /\ rtodo' = rtodo \ {First(rtodo)}
    /\ rpc' = IF rtodo' = {} THEN "idle" ELSE "read"
    /\ rcopy' = [rcopy EXCEPT ![First(rtodo)] = NoRow]
    /\ UNCHANGED strat /\ Refreshing

Refresher == Scan \/ ReadStrategy \/ RepairPosition \/ WriteBack

-----------------------------------------------------------------------------
(* Requests.                                                               *)

Upset == upsets < case.upsets /\ upsets' = upsets + 1

Requesting == UNCHANGED <<case, market, engine, refresher>>

\* Stop and delete: the status, and then the rows.
Retire ==
    /\ req.op = "none" /\ Upset
    /\ \E op \in case.ops \cap {"stop", "delete"} :
          strat' = [strat EXCEPT !.status = IF op = "stop" THEN "paused" ELSE "closed"]
    /\ req' = [NoRequest EXCEPT !.op = "mark"]
    /\ UNCHANGED <<rows, history>> /\ Requesting

\* mark_strategy_positions_exit
MarkExit ==
    /\ req.op = "mark"
    /\ rows' = [e \in Entries |->
                  IF rows[e].status = "open" THEN [rows[e] EXCEPT !.decision = "exitit"]
                  ELSE rows[e]]
    /\ req' = NoRequest
    /\ UNCHANGED <<strat, history, upsets>> /\ Requesting

\* A start reads the document and clears an entry that failed; an edit takes
\* over the status and the position it reads.
ReadToStart ==
    /\ "start" \in case.ops /\ req.op = "none" /\ strat.status # "opened"
    /\ req' = [NoRequest EXCEPT !.op = "start",
                 !.clear = /\ strat.position # "in"
                           /\ strat.entry \in {"broker_failed", "preflight_failed"}]
    /\ UNCHANGED <<strat, rows, history, upsets>> /\ Requesting

ReadToEdit ==
    /\ "edit" \in case.ops /\ req.op = "none" /\ Upset
    /\ \E contract \in IF family = "mcx" THEN Kinds ELSE {strat.contract} :
          req' = [NoRequest EXCEPT !.op = "edit", !.status = strat.status,
                    !.position = strat.position, !.contract = contract]
    /\ UNCHANGED <<strat, rows, history>> /\ Requesting

\* A position that goes out under an open row.
Displaces(doc) ==
    unseen' = IF strat.position = "in" /\ doc.position = "out"
              THEN unseen \cup Open(rows) ELSE unseen

CommitStart ==
    /\ req.op = "start"
    /\ LET doc == IF strat.status = "opened" THEN strat
                  ELSE IF req.clear
                  THEN [strat EXCEPT !.status = "opened", !.position = "out", !.entry = "none"]
                  ELSE [strat EXCEPT !.status = "opened"]
       IN  strat' = doc /\ Displaces(doc)
    /\ req' = NoRequest
    /\ UNCHANGED <<rows, phantom, upsets>> /\ Requesting

CommitEdit ==
    /\ req.op = "edit"
    /\ \E steps \in {strat.steps, FALSE} :     \* FALSE: symbols were added
          LET doc == [strat EXCEPT !.status = req.status, !.position = req.position,
                                   !.contract = req.contract,
                                   !.steps = IF family = "equity" THEN steps ELSE @]
          IN  strat' = doc /\ Displaces(doc)
    /\ req' = NoRequest
    /\ UNCHANGED <<rows, phantom, upsets>> /\ Requesting

\* The user asks for the exit of one position.
ExitPosition ==
    /\ "exit" \in case.ops /\ Upset
    /\ \E e \in Open(rows) : rows' = [rows EXCEPT ![e].decision = "exitit"]
    /\ UNCHANGED <<strat, history, req>> /\ Requesting

Request == \/ Retire \/ MarkExit \/ ReadToStart \/ CommitStart
           \/ ReadToEdit \/ CommitEdit \/ ExitPosition

-----------------------------------------------------------------------------
(* The worker dies, perhaps inside a broker call, and is started again.    *)

Entering == pc \in {"mark", "send", "quote", "insert", "settle", "fail"}
Exiting  == pc \in {"steps", "save"} /\ todo # {}

\* What the death leaves behind: an entry without a row or without its end,
\* an exit without its record.
CutOff ==
    /\ unseen' = IF Entering /\ (held'[cur] > 0 \/ pc = "settle")
                 THEN unseen \cup {cur} ELSE unseen
    /\ phantom' = LET e == IF Entering THEN cur ELSE First(todo) IN
                  IF \/ Exiting /\ held[e] < rows[e].net
                     \/ Entering /\ rows[e].status = "open" /\ held'[e] < rows[e].net
                  THEN phantom \cup {e} ELSE phantom

Crash ==
    /\ pc # "down" /\ Upset
    /\ \/ UNCHANGED <<held, book, accepted>>
       \/ pc = "send" /\ live /\ sent < case.slices /\ AcceptEntry
    /\ recent' = {}
    /\ CutOff
    /\ Goto("down") /\ copy' = NoStrategy /\ mem' = NoRows /\ todo' = {}
    /\ cur' = 1 /\ sent' = 0 /\ bad' = FALSE /\ left' = {}
    /\ rpc' = "idle" /\ rcopy' = NoRows /\ rtodo' = {}
    /\ UNCHANGED <<case, strat, rows, req>>

\* The restart repairs closed strategies that have no open row.
Restart ==
    /\ pc = "down" /\ Goto("idle")
    /\ strat' = IF /\ strat.status = "closed" /\ strat.position = "in"
                   /\ strat.entry # "attempted" /\ Open(rows) = {}
                THEN [strat EXCEPT !.position = "out", !.entry = "none"] ELSE strat
    /\ UNCHANGED <<rows, market, history, locals>> /\ Others

=============================================================================
