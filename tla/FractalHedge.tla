---------------------------- MODULE FractalHedge ----------------------------
(***************************************************************************)
(* FRACTALNUBIATIMEHEDGEORDER: a hedge of several option legs is one row   *)
(* of Opositions, entered leg by leg and squared off leg by leg.  The      *)
(* order loop of the worker, the refresher, Dhan's postbacks (in the web   *)
(* process), requests and crashes share the row and the strategy document. *)
(*                                                                         *)
(* An action is one MongoDB operation or one broker call with the code up  *)
(* to the next one.  Signals, prices and exit levels are left to choice.   *)
(***************************************************************************)
EXTENDS Integers, Sequences, FiniteSets

CONSTANTS
    NLegs,          \* legs of the hedge, in the order of trade['legs']
    Accounts,       \* accounts explored: broker, trade['live'], trade['usetype']
                    \* and the strategy's status at first
    MaxHedges,      \* rows explored: the one at the start and those entered (bound)
    MaxOrders,      \* exit orders accepted (bound)
    MaxUpsets,      \* requests and deaths of the worker (bound)
    MaxReopen,      \* rows that an old copy reopens, once each (bound)
    Faults          \* failures the environment produces

ASSUME HedgeAssumption ==
    /\ NLegs \in Nat \ {0} /\ MaxHedges \in Nat \ {0}
    /\ MaxOrders \in Nat /\ MaxUpsets \in Nat /\ MaxReopen \in Nat
    /\ Accounts \subseteq [broker : {"aliceblue", "dhan", "other"},
                           live : BOOLEAN, usetype : BOOLEAN,
                           status : {"opened", "paused", "closed"}]
    /\ Faults \subseteq {"raise",       \* an exception before the broker accepts
                         "lost_reply",  \* the broker accepts, the call raises
                         "quote"}       \* no price after an accepted entry order

Legs   == 1 .. NLegs
Hedges == 1 .. MaxHedges

Unresolved == {"open", "exit_pending", "exit_failed"}
ExitStates == {"none", "submitted", "refused", "failed", "complete"}
LockStates == {"none", "submitting", "failed", "submitted", "complete"}
Absent     == [l \in Legs |-> "none"]

Rows == [status : Unresolved \cup {"none", "close"}, legs : SUBSET Legs,
         exit : [Legs -> ExitStates], id : [Legs -> 0 .. MaxOrders],
         lock : [Legs -> LockStates]]
Strategies == [status : {"opened", "paused", "closed"}, position : {"in", "out"},
               entry : {"none", "cleared", "submitting", "submitted",
                        "partial_failed", "broker_failed"},
               fire : {"none", "cleared", "attempted", "blocked"},
               locks : [Legs -> LockStates]]
NoRow == [status |-> "none", legs |-> {}, exit |-> Absent,
          id |-> [l \in Legs |-> 0], lock |-> Absent]

NoRows == [h \in Hedges |-> NoRow]
NoStrategy == [status |-> "closed", position |-> "out", entry |-> "none",
               fire |-> "none", locks |-> Absent]

VARIABLES
    account,    \* the account: selected broker, live or paper, usetype
    strat,      \* the strategy document
    rows,       \* the Opositions documents of the strategy, in order of insertion
    held,       \* the account: contracts of each leg (1 as entered, 0 flat)
    orders,     \* exit orders the broker accepted, and what became of them
    failed,     \* history: exits the code saw fail, or that a crash cut off
    reopened,   \* history: rows whose exit an old copy undid
    pc, mem,    \* the order loop: where it is, and its copy of the strategy
    copies, todo, cur, leg, tally,  \* its copies of the rows, and its exit loop
    rpc, rcopies, rtodo,            \* the refresher: the same
    pb,         \* a postback between two operations
    req,        \* a request between two operations
    upsets      \* requests and deaths so far

engine    == <<pc, mem, copies, todo, cur, leg, tally>>
refresher == <<rpc, rcopies, rtodo>>
market    == <<held, orders, failed, reopened>>
web       == <<pb, req>>
vars      == <<account, strat, rows, market, engine, refresher, web, upsets>>

PCs == {"idle", "snapshot", "look", "find", "set_out", "row", "save_row",
        "lock", "peek", "square_off", "limit", "check", "mark_failed", "send",
        "save_strategy", "entry", "existing", "set_in",
        "group", "attempt", "lock_entry", "buy", "mark_entry", "refuse_entry",
        "quote", "insert", "settle", "down"}

NoTally == [sub |-> 0, conf |-> 0, bad |-> FALSE, legs |-> {}]
NoPostback == [at |-> "none", h |-> 1, row |-> NoRow]
NoRequest  == [kind |-> "none", open |-> FALSE, active |-> FALSE, failed |-> FALSE,
               status |-> "paused", position |-> "out"]

RequestsInHand ==
    [kind : {"none", "user", "start", "legs", "edit"}, open : BOOLEAN, active : BOOLEAN,
     failed : BOOLEAN, status : {"opened", "paused", "closed"}, position : {"in", "out"}]

Orders == [h : Hedges, l : Legs, state : {"working", "traded", "rejected"}]

TypeOK ==
    /\ account \in Accounts
    /\ strat \in Strategies
    /\ rows \in [Hedges -> Rows]
    /\ held \in [Hedges -> [Legs -> Int]]
    /\ orders \in Seq(Orders) /\ Len(orders) <= MaxOrders
    /\ failed \subseteq Hedges \X Legs /\ reopened \subseteq Hedges
    /\ pc \in PCs /\ mem \in Strategies
    /\ copies \in [Hedges -> Rows] /\ todo \subseteq Hedges /\ cur \in Hedges
    /\ leg \in 0 .. NLegs + 1
    /\ tally \in [sub : Nat, conf : Nat, bad : BOOLEAN, legs : SUBSET Legs]
    /\ rpc \in {"idle", "repair", "write"}
    /\ rcopies \in [Hedges -> Rows] /\ rtodo \subseteq Hedges
    /\ pb \in [at : {"none", "row", "strategy"}, h : Hedges, row : Rows]
    /\ req \in RequestsInHand
    /\ upsets \in 0 .. MaxUpsets

-----------------------------------------------------------------------------
(* Writes of whole documents.  $set of a document leaves a field alone that *)
(* was absent when the document was read.                                   *)

Over(new, old) == IF new = "none" THEN old ELSE new

SetRow(new, old) == [new EXCEPT !.lock = IF @ = Absent THEN old.lock ELSE @]

Undoes(h, copy) == copy.status = "open" /\ rows[h].status # "open"

\* $set of a whole row.
PutRow(h, copy) ==
    /\ rows' = [rows EXCEPT ![h] = SetRow(copy, @)]
    /\ Undoes(h, copy) => h \notin reopened /\ Cardinality(reopened) < MaxReopen
    /\ reopened' = IF Undoes(h, copy) THEN reopened \cup {h} ELSE reopened

SetStrategy(new, old) ==
    [new EXCEPT !.entry = Over(@, old.entry), !.fire = Over(@, old.fire),
                !.locks = IF @ = Absent THEN old.locks ELSE @]

Blocking == {"submitting", "submitted", "complete"}
FireOver == {"attempted", "blocked"}
Open     == {h \in Hedges : rows[h].status = "open"}
HasRow   == \E h \in Hedges : rows[h].status \in Unresolved
Up       == pc # "down"

\* A hedge that was entered before, by this code or (AliceBlue) by a release
\* that kept no entry states and locks.
Init ==
    /\ account \in Accounts
    /\ \E known \in BOOLEAN :
          /\ ~known => account.broker = "aliceblue"
          /\ strat = [status |-> account.status, position |-> "in",
                      entry |-> IF known THEN "submitted" ELSE "none",
                      fire  |-> IF known THEN "attempted" ELSE "none",
                      locks |-> IF known /\ account.live
                                THEN [l \in Legs |-> "submitted"] ELSE Absent]
    /\ rows = [h \in Hedges |->
                 IF h = 1 THEN [NoRow EXCEPT !.status = "open", !.legs = Legs] ELSE NoRow]
    /\ held = [h \in Hedges |->
                 [l \in Legs |-> IF h = 1 /\ account.live THEN 1 ELSE 0]]
    /\ orders = <<>> /\ failed = {} /\ reopened = {}
    /\ pc = "idle" /\ mem = NoStrategy /\ copies = NoRows
    /\ todo = {} /\ cur = 1 /\ leg = 0 /\ tally = NoTally
    /\ rpc = "idle" /\ rcopies = NoRows /\ rtodo = {}
    /\ pb = NoPostback /\ req = NoRequest /\ upsets = 0

-----------------------------------------------------------------------------
(* The order loop: the round, and its exit part.                           *)

Goto(label) == pc' = label

\* The round is over; its copies are forgotten.
Rest ==
    /\ Goto("idle") /\ mem' = NoStrategy /\ copies' = NoRows
    /\ todo' = {} /\ cur' = 1 /\ leg' = 0 /\ tally' = NoTally

Others == UNCHANGED <<account, refresher, web, upsets>>

\* _dataorderscript: hedges are visited only while they have an open row.
Dispatch ==
    /\ pc = "idle" /\ Open # {}
    /\ Goto("snapshot")
    /\ UNCHANGED <<strat, rows, market, mem, copies, todo, cur, leg, tally>> /\ Others

\* Mutant: a strategy that was stopped is not run.
SnapshotOpened ==
    /\ pc = "snapshot"
    /\ IF strat.status = "opened"
       THEN Goto("look") /\ mem' = strat /\ UNCHANGED <<copies, todo, cur, leg, tally>>
       ELSE Rest
    /\ UNCHANGED <<strat, rows, market>> /\ Others

\* _current_strategy_snapshot
Snapshot ==
    /\ pc = "snapshot"
    /\ IF strat.status = "opened" \/ strat.position = "in"
       THEN Goto("look") /\ mem' = strat /\ UNCHANGED <<copies, todo, cur, leg, tally>>
       ELSE Rest
    /\ UNCHANGED <<strat, rows, market>> /\ Others

\* With an open row the strategy counts as in, in the copy.
Look ==
    /\ pc = "look"
    /\ LET position == IF Open # {} THEN "in" ELSE mem.position IN
          /\ mem' = [mem EXCEPT !.position = position]
          /\ Goto(IF position = "in" THEN "find" ELSE "entry")
    /\ UNCHANGED <<strat, rows, market, copies, todo, cur, leg, tally>> /\ Others

Find ==
    /\ pc = "find"
    /\ copies' = [h \in Hedges |-> IF h \in Open THEN rows[h] ELSE NoRow]
    /\ todo' = Open
    /\ Goto(IF Open = {} THEN "set_out" ELSE "row")
    /\ UNCHANGED <<strat, rows, market, mem, cur, leg, tally>> /\ Others

\* The strategy is taken out in the database, not in the copy: no entry follows.
SetOut ==
    /\ pc = "set_out"
    /\ strat' = [strat EXCEPT !.position = "out", !.fire = "none"]
    /\ Rest
    /\ UNCHANGED <<rows, market>> /\ Others

First(S) == CHOOSE h \in S : \A g \in S : h <= g

\* The legs of a row are squared off from the last one to the first: the one
\* after leg n, 0 at the end.
After(h, n) ==
    LET left == {l \in rows[h].legs : l < n}
    IN  IF left = {} THEN 0 ELSE CHOOSE l \in left : \A k \in left : k <= l

\* No exit reason: the row is written back as it was read.
KeepRow ==
    /\ pc = "row" /\ todo # {} /\ mem.status = "opened"
    /\ cur' = First(todo) /\ todo' = todo \ {First(todo)}
    /\ Goto("save_row")
    /\ UNCHANGED <<strat, rows, market, mem, copies, leg, tally>> /\ Others

\* Signal, stop loss, target, rollover, or a strategy that is not opened.
ExitRow ==
    /\ pc = "row" /\ todo # {}
    /\ cur' = First(todo)
    /\ tally' = NoTally
    /\ copies' = [copies EXCEPT ![First(todo)].status = "exit_pending"]
    /\ IF account.broker = "aliceblue"
       THEN /\ Goto("lock") /\ todo' = {}                       \* break
            /\ leg' = After(First(todo), NLegs + 1)
            /\ UNCHANGED mem
       ELSE /\ Goto("send") /\ todo' = todo \ {First(todo)}
            /\ leg' = IF account.live THEN After(First(todo), NLegs + 1) ELSE 0
            /\ mem' = [mem EXCEPT !.position = "in"]
    /\ UNCHANGED <<strat, rows, market>> /\ Others

AllRowsSeen ==
    /\ pc = "row" /\ todo = {}
    /\ Goto("entry")
    /\ UNCHANGED <<strat, rows, market, mem, copies, todo, cur, leg, tally>> /\ Others

\* $set: itrade, the whole row.
SaveRow ==
    /\ pc = "save_row"
    /\ PutRow(cur, copies[cur])
    /\ Goto("row")
    /\ UNCHANGED <<strat, held, orders, failed, mem, copies, todo, cur, leg, tally>> /\ Others

-----------------------------------------------------------------------------
(* Exit through AliceBlue: each leg is locked in the row before its order.  *)

\* Mutant: the lock is looked at but not taken.
LockExitLegRead ==
    /\ pc = "lock" /\ leg > 0
    /\ Goto(IF rows[cur].lock[leg] \in Blocking THEN "peek" ELSE "square_off")
    /\ UNCHANGED <<strat, rows, market, mem, copies, todo, cur, leg, tally>> /\ Others

\* _lock_fractal_hedge_exit_leg
LockExitLeg ==
    /\ pc = "lock" /\ leg > 0
    /\ IF rows[cur].lock[leg] \in Blocking
       THEN Goto("peek") /\ UNCHANGED rows
       ELSE /\ rows' = [rows EXCEPT ![cur].lock[leg] = "submitting",
                                    ![cur].status = "exit_pending"]
            /\ Goto("square_off")
    /\ UNCHANGED <<strat, market, mem, copies, todo, cur, leg, tally>> /\ Others

\* _get_fractal_hedge_exit_lock
PeekLock ==
    /\ pc = "peek"
    /\ LET lock == rows[cur].lock[leg] IN
          /\ tally' = [tally EXCEPT
                !.sub  = IF lock \in Blocking THEN @ + 1 ELSE @,
                !.conf = IF lock = "complete" THEN @ + 1 ELSE @]
    /\ leg' = After(cur, leg) /\ Goto("lock")
    /\ UNCHANGED <<strat, rows, market, mem, copies, todo, cur>> /\ Others

Accept == /\ Len(orders) < MaxOrders
          /\ orders' = Append(orders, [h |-> cur, l |-> leg, state |-> "working"])

Fails(S) == failed' = failed \cup S

\* What a broker call that does not succeed leaves behind.
CallFails ==
    /\ Fails({<<cur, leg>>})
    /\ \/ "raise" \in Faults /\ UNCHANGED orders
       \/ "lost_reply" \in Faults /\ Accept

OrdersOf(h, l) == {i \in DOMAIN orders : orders[i].h = h /\ orders[i].l = l}

\* _aliceblue_square_off_fractal_leg: square_off_position first.  An answer that
\* is not ok left no order; an exception ends the leg.
SquareOffPosition ==
    /\ pc = "square_off"
    /\ \/ Accept /\ Goto("check") /\ UNCHANGED failed
       \/ Goto("limit") /\ UNCHANGED <<orders, failed>>
       \/ CallFails /\ Goto("mark_failed")
    /\ UNCHANGED <<strat, rows, held, reopened, mem, copies, todo, cur, leg, tally>> /\ Others

\* ... then a limit order; a recent order of the leg is answered with its id.
SquareOffLimit ==
    /\ pc = "limit"
    /\ \/ Accept /\ Goto("check") /\ UNCHANGED failed
       \/ OrdersOf(cur, leg) # {} /\ Goto("check") /\ UNCHANGED <<orders, failed>>
       \/ Fails({<<cur, leg>>}) /\ Goto("mark_failed") /\ UNCHANGED orders
       \/ CallFails /\ Goto("mark_failed")
    /\ UNCHANGED <<strat, rows, held, reopened, mem, copies, todo, cur, leg, tally>> /\ Others

SquareOff == SquareOffPosition \/ SquareOffLimit

\* _aliceblue_order_complete reads the order book, which may not answer; then
\* the lock is marked "complete" or "submitted".
CheckExitOrder ==
    /\ pc = "check"
    /\ \E result \in {"submitted", "complete"} :
          /\ result = "complete" => \E i \in OrdersOf(cur, leg) : orders[i].state = "traded"
          /\ rows' = [rows EXCEPT ![cur].lock[leg] = result]
          /\ tally' = [tally EXCEPT !.sub = @ + 1,
                                    !.conf = IF result = "complete" THEN @ + 1 ELSE @]
    /\ leg' = After(cur, leg) /\ Goto("lock")
    /\ UNCHANGED <<strat, market, mem, copies, todo, cur>> /\ Others

MarkFailed ==
    /\ pc = "mark_failed"
    /\ rows' = [rows EXCEPT ![cur].lock[leg] = "failed"]
    /\ tally' = [tally EXCEPT !.bad = TRUE]
    /\ leg' = After(cur, leg) /\ Goto("lock")
    /\ UNCHANGED <<strat, market, mem, copies, todo, cur>> /\ Others

StatusAfter(status) == IF account.usetype /\ status # "paused" THEN "opened" ELSE "paused"

Confirmed == tally.conf >= Cardinality(copies[cur].legs)
Submitted == tally.sub >= Cardinality(copies[cur].legs) /\ ~tally.bad

\* Mutant: accepted orders count as executed ones.
EndAliceExitEarly ==
    /\ pc = "lock" /\ leg = 0
    /\ LET done   == Submitted
           status == StatusAfter(mem.status)
           clear  == done \/ (status = "paused" /\ Submitted) IN
          /\ copies' = [copies EXCEPT ![cur].status =
                IF done THEN "close" ELSE IF tally.bad THEN "exit_failed" ELSE "exit_pending"]
          /\ mem' = [mem EXCEPT !.position = IF done THEN "out" ELSE "in",
                                !.status = status,
                                !.fire = IF clear THEN "cleared" ELSE @]
          /\ strat' = IF clear THEN [strat EXCEPT !.fire = "cleared", !.entry = "none",
                                                  !.locks = Absent] ELSE strat
    /\ Goto("save_strategy")
    /\ UNCHANGED <<rows, market, todo, cur, leg, tally>> /\ Others

\* The end of _handle_aliceblue_fractal_hedge_exit: the outcome in the copies,
\* and _clear_fractal_fire_state in the database.
EndAliceExit ==
    /\ pc = "lock" /\ leg = 0
    /\ LET done   == Confirmed /\ ~tally.bad
           status == StatusAfter(mem.status)
           clear  == done \/ (status = "paused" /\ Submitted) IN
          /\ copies' = [copies EXCEPT ![cur].status =
                IF done THEN "close" ELSE IF tally.bad THEN "exit_failed" ELSE "exit_pending"]
          /\ mem' = [mem EXCEPT !.position = IF done THEN "out" ELSE "in",
                                !.status = status,
                                !.fire = IF clear THEN "cleared" ELSE @]
          /\ strat' = IF clear THEN [strat EXCEPT !.fire = "cleared", !.entry = "none",
                                                  !.locks = Absent] ELSE strat
    /\ Goto("save_strategy")
    /\ UNCHANGED <<rows, market, todo, cur, leg, tally>> /\ Others

\* $set: trade, the whole strategy document.
SaveStrategy ==
    /\ pc = "save_strategy"
    /\ strat' = SetStrategy(mem, strat)
    /\ Goto("save_row")
    /\ UNCHANGED <<rows, market, mem, copies, todo, cur, leg, tally>> /\ Others

-----------------------------------------------------------------------------
(* Exit through the other brokers: no lock, and nothing written before all  *)
(* legs were sent.                                                         *)

SendExit ==
    /\ pc = "send" /\ leg > 0
    /\ \/ /\ Accept /\ UNCHANGED <<failed, tally>>
          /\ copies' = [copies EXCEPT ![cur].exit[leg] = "submitted",
                                      ![cur].id[leg] = Len(orders) + 1]
       \/ /\ UNCHANGED orders /\ Fails({<<cur, leg>>})
          /\ tally' = [tally EXCEPT !.bad = TRUE]
          /\ copies' = [copies EXCEPT ![cur].exit[leg] = "refused", ![cur].id[leg] = 0]
       \/ /\ account.broker = "dhan" /\ CallFails      \* caught, and no order id
          /\ tally' = [tally EXCEPT !.bad = TRUE]
          /\ copies' = [copies EXCEPT ![cur].exit[leg] = "refused", ![cur].id[leg] = 0]
    /\ leg' = After(cur, leg)
    /\ UNCHANGED <<strat, rows, held, reopened, pc, mem, todo, cur>> /\ Others

\* The exception leaves the whole round; accepted orders are not recorded.
SendExitRaises ==
    /\ pc = "send" /\ leg > 0
    /\ account.broker = "other"
    /\ CallFails /\ Rest
    /\ UNCHANGED <<strat, rows, held, reopened>> /\ Others

EndExit ==
    /\ pc = "send" /\ leg = 0
    /\ copies' = [copies EXCEPT ![cur].status =
          IF ~account.live THEN "close" ELSE IF tally.bad THEN "exit_failed" ELSE "exit_pending"]
    /\ mem' = [mem EXCEPT !.position = IF account.live THEN "in" ELSE "out",
                          !.status = StatusAfter(@)]
    /\ Goto("save_strategy")
    /\ UNCHANGED <<strat, rows, market, todo, cur, leg, tally>> /\ Others

-----------------------------------------------------------------------------
(* The order loop: the entry part.                                         *)

New == {h \in Hedges : rows[h].status = "none" /\ held[h] = [l \in Legs |-> 0]}

\* No signal, or the copy of the strategy does not allow one.
NoEntry ==
    /\ pc = "entry"
    /\ Rest
    /\ UNCHANGED <<strat, rows, market>> /\ Others

MayEnter == /\ pc = "entry" /\ mem.position = "out" /\ mem.status = "opened"
            /\ mem.fire \notin FireOver /\ New # {}

\* _prepare_fractal_hedge_order_plan gave reasons not to enter.
Blocked ==
    /\ MayEnter
    /\ strat' = [strat EXCEPT !.fire = "blocked"]
    /\ Rest
    /\ UNCHANGED <<rows, market>> /\ Others

\* A plan was made; is there an open row?
FindExisting ==
    /\ MayEnter
    /\ Goto(IF Open # {} THEN "set_in" ELSE "group")
    /\ cur' = First(New) /\ tally' = NoTally
    /\ UNCHANGED <<strat, rows, market, mem, copies, todo, leg>> /\ Others

SetIn ==
    /\ pc = "set_in"
    /\ strat' = [strat EXCEPT !.position = "in"]
    /\ Rest
    /\ UNCHANGED <<rows, market>> /\ Others

\* _lock_fractal_hedge_entry_group
LockEntryGroup ==
    /\ pc = "group"
    /\ IF /\ strat.status = "opened" /\ strat.position # "in"
          /\ strat.entry \notin {"submitting", "submitted"}
       THEN /\ strat' = [strat EXCEPT !.entry = "submitting"]
            /\ Goto("attempt") /\ UNCHANGED <<mem, copies, todo, cur, leg, tally>>
       ELSE Rest /\ UNCHANGED strat
    /\ UNCHANGED <<rows, market>> /\ Others

\* _set_fractal_fire_state, and the loop over the planned legs begins; on
\* paper it sends and locks nothing.
Attempt ==
    /\ pc = "attempt"
    /\ strat' = [strat EXCEPT !.fire = "attempted"]
    /\ IF account.live
       THEN leg' = 1 /\ UNCHANGED tally
       ELSE leg' = NLegs + 1 /\ tally' = [tally EXCEPT !.legs = Legs]
    /\ Goto("lock_entry")
    /\ UNCHANGED <<rows, market, mem, copies, todo, cur>> /\ Others

\* On to the next planned leg.
NextEntryLeg == leg' = leg + 1 /\ Goto("lock_entry")

\* _lock_fractal_hedge_entry_leg; a leg that is locked is skipped.
LockEntryLeg ==
    /\ pc = "lock_entry" /\ leg <= NLegs
    /\ IF strat.locks[leg] \in Blocking
       THEN /\ tally' = [tally EXCEPT !.sub = @ + 1]
            /\ NextEntryLeg /\ UNCHANGED strat
       ELSE /\ strat' = [strat EXCEPT !.locks[leg] = "submitting", !.entry = "submitting"]
            /\ Goto("buy") /\ UNCHANGED <<leg, tally>>
    /\ UNCHANGED <<rows, market, mem, copies, todo, cur>> /\ Others

Enter == held' = [held EXCEPT ![cur][leg] = @ + 1]

PlaceEntryOrder ==
    /\ pc = "buy"
    /\ \/ Enter /\ Goto("mark_entry")
       \/ UNCHANGED held /\ Goto("refuse_entry")
    /\ UNCHANGED <<strat, rows, orders, failed, reopened, mem, copies, todo, cur, leg, tally>> /\ Others

\* An exception ends the round; Dhan's calls are caught and count as refused.
EntryOrderRaises ==
    /\ pc = "buy"
    /\ \/ "raise" \in Faults /\ UNCHANGED held
       \/ "lost_reply" \in Faults /\ Enter
    /\ IF account.broker = "dhan"
       THEN Goto("refuse_entry") /\ UNCHANGED <<mem, copies, todo, cur, leg, tally>>
       ELSE Rest
    /\ UNCHANGED <<strat, rows, orders, failed, reopened>> /\ Others

MarkEntryLock(status) == strat' = [strat EXCEPT !.locks[leg] = status]

EntryAccepted ==
    /\ pc = "mark_entry"
    /\ MarkEntryLock("submitted")
    /\ Goto("quote")
    /\ UNCHANGED <<rows, market, mem, copies, todo, cur, leg, tally>> /\ Others

EntryRefused ==
    /\ pc = "refuse_entry"
    /\ MarkEntryLock("failed")
    /\ tally' = [tally EXCEPT !.bad = TRUE]
    /\ NextEntryLeg
    /\ UNCHANGED <<rows, market, mem, copies, todo, cur>> /\ Others

\* The prices of the leg; without one the round ends.
QuoteLeg ==
    /\ pc = "quote"
    /\ \/ /\ NextEntryLeg /\ tally' = [tally EXCEPT !.legs = @ \cup {leg}]
          /\ UNCHANGED <<mem, copies, todo, cur>>
       \/ "quote" \in Faults /\ Rest
    /\ UNCHANGED <<strat, rows, market>> /\ Others

NewRow(legs) == [NoRow EXCEPT !.status = "open", !.legs = legs]

\* All legs were gone through: a partial entry gets a row unless one is
\* unresolved, a complete one unless one is open.  Locked legs leave no row.
FindBeforeInsert ==
    /\ pc = "lock_entry" /\ leg = NLegs + 1
    /\ IF tally.bad
       THEN /\ Goto(IF tally.legs = {} \/ HasRow THEN "settle" ELSE "insert")
            /\ UNCHANGED <<mem, copies, todo, cur, leg, tally>>
       ELSE IF tally.sub = 0 /\ Open = {}
       THEN Goto("insert") /\ UNCHANGED <<mem, copies, todo, cur, leg, tally>>
       ELSE Rest
    /\ UNCHANGED <<strat, rows, market>> /\ Others

InsertNewRow ==
    /\ pc = "insert"
    /\ rows' = [rows EXCEPT ![cur] = NewRow(tally.legs)]
    /\ Goto("settle")
    /\ UNCHANGED <<strat, market, mem, copies, todo, cur, leg, tally>> /\ Others

InsertRow == FindBeforeInsert \/ InsertNewRow

SettleEntry ==
    /\ pc = "settle"
    /\ strat' = IF tally.bad
                THEN [strat EXCEPT
                        !.status = "paused",
                        !.position = IF tally.legs = {} THEN "out" ELSE "in",
                        !.entry = IF tally.legs = {} THEN "broker_failed" ELSE "partial_failed"]
                ELSE [strat EXCEPT !.position = "in", !.entry = "submitted"]
    /\ Rest
    /\ UNCHANGED <<rows, market>> /\ Others

Exit  == \/ KeepRow \/ ExitRow \/ AllRowsSeen \/ LockExitLeg \/ PeekLock
         \/ SquareOff \/ CheckExitOrder \/ MarkFailed \/ EndAliceExit
         \/ SendExit \/ SendExitRaises \/ EndExit \/ SaveStrategy \/ SaveRow
Entry == \/ NoEntry \/ Blocked \/ FindExisting \/ SetIn \/ LockEntryGroup \/ Attempt
         \/ LockEntryLeg \/ PlaceEntryOrder \/ EntryOrderRaises \/ EntryAccepted
         \/ EntryRefused \/ QuoteLeg \/ InsertRow \/ SettleEntry
Round == Dispatch \/ Snapshot \/ Look \/ Find \/ SetOut \/ Exit \/ Entry

-----------------------------------------------------------------------------
(* The refresher: _refresh_open_opositions_snapshot.                       *)

Refreshing == UNCHANGED <<account, market, engine, web, upsets>>

Scan ==
    /\ Up /\ rpc = "idle" /\ Open # {}
    /\ rcopies' = [h \in Hedges |-> IF h \in Open THEN rows[h] ELSE NoRow]
    /\ rtodo' = Open /\ rpc' = "repair"
    /\ UNCHANGED <<strat, rows>> /\ Refreshing

\* A position that is out with an open row is repaired.
RepairPosition ==
    /\ Up /\ rpc = "repair"
    /\ strat' = [strat EXCEPT !.position = "in"]
    /\ rpc' = "write"
    /\ UNCHANGED <<rows, rcopies, rtodo>> /\ Refreshing

\* $set: position, the whole row as it was read; a price that is missing
\* skips the row.
WriteBack ==
    /\ Up /\ rpc = "write"
    /\ LET h == First(rtodo) IN
          /\ PutRow(h, rcopies[h]) \/ UNCHANGED <<rows, reopened>>
          /\ rtodo' = rtodo \ {h}
    /\ IF rtodo' = {} THEN rpc' = "idle" /\ rcopies' = NoRows
       ELSE rpc' = "repair" /\ UNCHANGED rcopies
    /\ UNCHANGED <<strat, account, held, orders, failed, engine, web, upsets>>

Refresher == Scan \/ RepairPosition \/ WriteBack

-----------------------------------------------------------------------------
(* The exchange, and Dhan's postbacks.                                     *)

Fill(i) ==
    /\ orders[i].state = "working"
    /\ orders' = [orders EXCEPT ![i].state = "traded"]
    /\ held' = [held EXCEPT ![orders[i].h][orders[i].l] = @ - 1]
    /\ UNCHANGED <<account, strat, rows, failed, reopened, engine, refresher, web, upsets>>

Reject(i) ==
    /\ orders[i].state = "working"
    /\ orders' = [orders EXCEPT ![i].state = "rejected"]
    /\ UNCHANGED <<account, strat, rows, held, failed, reopened, engine, refresher, web, upsets>>

\* What a postback of order i may say: what became of it, or, delivered late,
\* that it is on its way.
Said(i) == {"submitted"} \cup
           (CASE orders[i].state = "traded"   -> {"complete"}
              [] orders[i].state = "rejected" -> {"failed"}
              [] OTHER -> {})

\* Mutant: a leg that has an order counts as complete.
OutcomeLoose(row) ==
    LET said == {row.exit[l] : l \in {k \in Legs : row.id[k] > 0}}
    IN  IF "failed" \in said THEN "exit_failed"
        ELSE IF said # {"submitted"} THEN "close" ELSE "exit_pending"

\* Mutant: the answer of the legs is written as the status of the row.
OutcomeRaw(row) ==
    LET said == {row.exit[l] : l \in {k \in Legs : row.id[k] > 0}}
    IN  IF Cardinality(said) = 1 THEN CHOOSE s \in said : TRUE ELSE "exit_pending"

\* The row after a postback: only legs that have an order id are looked at.
Outcome(row) ==
    LET said == {row.exit[l] : l \in {k \in Legs : row.id[k] > 0}}
    IN  IF said = {"complete"} THEN "close"
        ELSE IF "failed" \in said THEN "exit_failed" ELSE "exit_pending"

\* dhan_postback: an unresolved row with a leg of that order is read ...
ReadPostback(i) ==
    /\ account.broker = "dhan" /\ pb.at = "none"
    /\ \E h \in Hedges, said \in Said(i) :
          /\ rows[h].status \in Unresolved
          /\ \E l \in Legs : rows[h].id[l] = i
          /\ pb' = [at |-> "row", h |-> h,
                    row |-> [rows[h] EXCEPT !.exit = [l \in Legs |->
                               IF rows[h].id[l] = i THEN said ELSE @[l]]]]
    /\ UNCHANGED <<account, strat, rows, market, engine, refresher, req, upsets>>

\* ... its legs and status are written ...
SavePostback ==
    /\ pb.at = "row"
    /\ rows' = [rows EXCEPT ![pb.h].exit = pb.row.exit, ![pb.h].id = pb.row.id,
                            ![pb.h].status = Outcome(pb.row)]
    /\ pb' = IF Outcome(pb.row) = "close" THEN [pb EXCEPT !.at = "strategy"] ELSE NoPostback
    /\ UNCHANGED <<account, strat, market, engine, refresher, req, upsets>>

\* ... and the strategy of a closed row is taken out.
PostbackSettles ==
    /\ pb.at = "strategy"
    /\ strat' = [strat EXCEPT !.position = "out", !.entry = "cleared",
                              !.locks = Absent, !.fire = "none"]
    /\ pb' = NoPostback
    /\ UNCHANGED <<account, rows, market, engine, refresher, req, upsets>>

Market == \E i \in DOMAIN orders : Fill(i) \/ Reject(i)
Postback == (\E i \in DOMAIN orders : ReadPostback(i)) \/ SavePostback \/ PostbackSettles

-----------------------------------------------------------------------------
(* Requests, and the worker's life.                                        *)

Upset == upsets < MaxUpsets /\ upsets' = upsets + 1

Requesting == Upset /\ UNCHANGED <<account, rows, market, engine, refresher, pb>>

\* Stop and delete; the marks they leave on rows decide nothing for hedges.
Retire ==
    /\ \E status \in {"paused", "closed"} :
          strat.status # status /\ strat' = [strat EXCEPT !.status = status]
    /\ UNCHANGED req /\ Requesting

\* api_start_ssalgo: a user's start goes no further with an unresolved row, and
\* remembers whether the entry it reads has failed.
ReadToStart ==
    /\ req.kind = "none" /\ strat.status # "opened" /\ ~HasRow
    /\ req' = [NoRequest EXCEPT !.kind = "user",
                !.failed = strat.position # "in" /\ strat.entry = "broker_failed"]
    /\ UNCHANGED strat /\ Requesting

\* fractal_reset_update, for a user's start, an admin's, or an edit of the legs,
\* reads the strategy and the rows ...
ReadToReset ==
    /\ \/ req.kind = "user" /\ UNCHANGED upsets
       \/ req.kind = "none" /\ Upset
    /\ \E kind \in IF req.kind = "user" THEN {"start"} ELSE {"start", "legs"} :
          /\ kind = "start" /\ req.kind = "none" => strat.status # "opened"
          /\ req' = [req EXCEPT !.kind = kind, !.open = HasRow,
                        !.status = IF kind = "start" THEN "opened" ELSE strat.status,
                        !.active = strat.entry \in {"submitting", "submitted"}]
    /\ UNCHANGED <<account, strat, rows, market, engine, refresher, pb>>

\* Any other edit reads the status and the position.
ReadToEdit ==
    /\ req.kind = "none"
    /\ req' = [NoRequest EXCEPT !.kind = "edit", !.status = strat.status,
                                !.position = strat.position]
    /\ UNCHANGED strat /\ Requesting

Committing ==
    /\ req' = NoRequest
    /\ UNCHANGED <<account, rows, market, engine, refresher, pb, upsets>>

\* What a reset writes: the marks of the entry are cleared, or kept.
ResetTo(clear) ==
    [strat EXCEPT
        !.status = req.status,
        !.position = IF req.open /\ ~req.failed THEN "in" ELSE "out",
        !.fire  = IF clear THEN "none" ELSE @,
        !.entry = IF clear \/ req.failed THEN "none" ELSE @,
        !.locks = IF clear THEN Absent ELSE @]

\* Mutant: the reset does not spare an entry that is under way.
CommitResetAll ==
    /\ req.kind \in {"start", "legs"}
    /\ strat' = IF req.kind = "start" /\ strat.status = "opened" THEN strat
                ELSE ResetTo(~req.open)
    /\ Committing

\* ... and the document is updated; a start only if it is not opened by then.
CommitReset ==
    /\ req.kind \in {"start", "legs"}
    /\ strat' = IF req.kind = "start" /\ strat.status = "opened" THEN strat
                ELSE ResetTo(~req.open /\ ~req.active)
    /\ Committing

\* The other edit writes back the status and the position that it read.
CommitEdit ==
    /\ req.kind = "edit"
    /\ strat' = [strat EXCEPT !.status = req.status, !.position = req.position]
    /\ Committing

ReadRequest   == ReadToStart \/ ReadToReset \/ ReadToEdit
CommitRequest == CommitReset \/ CommitEdit

InExit == pc \in {"lock", "peek", "square_off", "limit", "check", "mark_failed"}

\* The worker dies, perhaps inside a broker call.
Crash ==
    /\ Up /\ Upset
    /\ pc' = "down" /\ mem' = NoStrategy /\ copies' = NoRows
    /\ todo' = {} /\ cur' = 1 /\ leg' = 0 /\ tally' = NoTally
    /\ rpc' = "idle" /\ rcopies' = NoRows /\ rtodo' = {}
    /\ \/ UNCHANGED <<held, orders>>
       \/ pc \in {"square_off", "limit", "send"} /\ leg > 0 /\ Accept /\ UNCHANGED held
       \/ pc = "buy" /\ Enter /\ UNCHANGED orders
    /\ Fails(IF InExit THEN {cur} \X (1 .. leg) ELSE {})
    /\ UNCHANGED <<account, strat, rows, reopened, web>>

\* The restart repairs closed strategies that have no open row: one step, since
\* the update is conditional on closed and "in" and nothing inserts or reopens a
\* row before the loops run again.
Restart ==
    /\ ~Up
    /\ Goto("idle")
    /\ strat' = IF strat.status = "closed" /\ strat.position = "in" /\ Open = {}
                THEN [strat EXCEPT !.position = "out", !.entry = "none"] ELSE strat
    /\ UNCHANGED <<rows, market, mem, copies, todo, cur, leg, tally>> /\ Others

-----------------------------------------------------------------------------
Next ==
    \/ Round \/ Refresher \/ Market \/ Postback
    \/ Retire \/ ReadRequest \/ CommitRequest \/ Crash \/ Restart

Spec == Init /\ [][Next]_vars

\* The loops run until shutdown, a dead worker is started again, the exchange
\* answers every order (each of these steps changes what its subscript names).
FairSpec == /\ Spec /\ WF_engine(Round) /\ WF_refresher(Refresher)
            /\ WF_pc(Restart) /\ WF_orders(Market)

-----------------------------------------------------------------------------
(* Properties.                                                             *)

\* Through AliceBlue each leg of a row is sent one exit order, whatever stops,
\* failures and deaths of the worker come in between, unless an old copy of the
\* row reopened it.
ExitOnce ==
    account.broker = "aliceblue" =>
        \A h \in Hedges \ reopened, l \in Legs :
            \A i, j \in OrdersOf(h, l) : i = j

\* What a closed row may leave in the account: legs whose exit Dhan refused at
\* once have no order id, and the postbacks that close the row pass them over.
LeftByRefusal(h, l) == account.broker = "dhan" /\ rows[h].exit[l] = "refused"

\* A closed row stands for a hedge that is flat, but for such legs.
ClosedIsFlat ==
    \A h \in Hedges : rows[h].status = "close" =>
        \A l \in rows[h].legs : held[h][l] <= 0 \/ LeftByRefusal(h, l)

Flat(h) == \A l \in Legs : held[h][l] <= 0

\* The strategy enters no second hedge while it holds a leg of the first,
\* until an old copy reopens a row: the round then squares off the row again,
\* clears the marks of an entry that left no row, and may enter over it.
OneHedge ==
    reopened = {} => \A g, h \in Hedges : g # h => Flat(g) \/ Flat(h)

\* Orders of the exit of hedge h that failed, or that the exchange refused.
Troubled(h) == \E l \in Legs : \/ <<h, l>> \in failed
                               \/ \E i \in OrdersOf(h, l) : orders[i].state = "rejected"

\* A strategy that is stopped for good ends with its hedges flat, but for a
\* hedge whose exit failed at a broker: no one takes that exit up again.
StoppedEndsFlat ==
    <>[](strat.status # "opened") =>
        <>[](\A h \in Hedges : \A l \in rows[h].legs : held[h][l] <= 0 \/ Troubled(h))

\* Contracts bought by an entry that left no row.
Lost(h) == /\ rows[h].status = "none" /\ \E l \in Legs : held[h][l] > 0

EntryHolds == strat.entry \in {"submitting", "submitted"}

\* The mark of an entry that bought contracts and left no row outlives every
\* step but the end of that entry, a reset that read the strategy before the
\* entry marked it (or a start that read an earlier failure), the exit of a row
\* that an old copy reopened, and the repair of a deleted strategy at a restart.
LostEntryKept ==
    [][ /\ \E h \in Hedges : Lost(h)
        /\ EntryHolds /\ ~EntryHolds'
        => \/ pc = "settle"
           \/ (~req.active \/ req.failed) /\ req' # req
           \/ reopened # {}
           \/ ~Up ]_vars
=============================================================================
