--------------------------- MODULE FuturesStrategy ---------------------------
(***************************************************************************)
(* Index futures: FEXIT, then FBUY or FSELL in the same round.  An entry   *)
(* is marked "attempted" before its orders; large lots go out in slices.   *)
(***************************************************************************)
EXTENDS DirectEntries

Futures == family = "futures"

\* FEXIT found no open row.
FindNothing ==
    /\ Futures /\ pc = "find" /\ Open(rows) = {}
    /\ Goto("set_out")
    /\ UNCHANGED <<strat, rows, market, history, locals>> /\ Others

\* The database goes out, the copy stays in: no entry follows.
SetOut ==
    /\ Futures /\ pc = "set_out"
    /\ strat' = [strat EXCEPT !.position = "out"]
    /\ Rest
    /\ UNCHANGED <<rows, market, history>> /\ Others

\* A closed row takes the strategy out, with all the round read of it.
SaveConfig ==
    /\ Futures /\ pc = "config"
    /\ SetStrategy(copy)
    /\ Goto("loop") /\ NextRow
    /\ UNCHANGED <<rows, market, history, copy, cur, sent, bad, left>> /\ Others

ExitLoopEnds ==
    /\ Futures /\ pc = "loop" /\ todo = {}
    /\ Goto("gate")
    /\ UNCHANGED <<strat, rows, market, history, locals>> /\ Others

\* No signal, outside the window, waiting, or the copy does not allow one.
NoFutureEntry ==
    /\ Futures /\ pc = "gate"
    /\ Rest
    /\ UNCHANGED <<strat, rows, market, history>> /\ Others

MayEnter ==
    /\ copy.position = "out" /\ copy.status = "opened"
    /\ ~(live /\ copy.entry \in {"attempted", "broker_failed"})

\* A signal calls FBUY (1) or FSELL (2): the contract is selected, FBUY looks
\* up its price.  Of n orders the row will stand for.
EnterFuture(side, n) ==
    /\ Futures /\ pc = "gate" /\ MayEnter /\ New # {}
    /\ cur' = First(New)
    /\ mem' = [NoRows EXCEPT ![First(New)] = [NoRow EXCEPT !.net = n, !.side = side]]
    /\ todo' = {} /\ sent' = 0 /\ bad' = FALSE
    /\ \/ Goto(IF live THEN "mark" ELSE IF side = 2 THEN "quote" ELSE "insert")
       \/ "quote" \in case.faults /\ Goto("fail")
    /\ UNCHANGED <<strat, rows, market, history, copy, left>> /\ Others

MarkAttempted ==
    /\ Futures /\ pc = "mark"
    /\ strat' = [strat EXCEPT !.entry = "attempted"]
    /\ Goto("send")
    /\ UNCHANGED <<rows, market, history, locals>> /\ Others

\* FSELL looks its price up when all orders are out, FBUY has it.
AllSent == sent' = mem[cur].net

AfterOrders == IF ~AllSent THEN "send" ELSE IF mem[cur].side = 2 THEN "quote" ELSE "insert"

\* One order: accepted, or refused.  An exception of Dhan's counts as refused,
\* whatever became of the order.
SendSlice ==
    /\ Futures /\ pc = "send" /\ (alice => NewOrder(EntryKey))
    /\ sent' = sent + 1
    /\ \/ AcceptEntry /\ Remembers(EntryKey) /\ UNCHANGED bad
       \/ UNCHANGED market /\ bad' = TRUE
       \/ /\ "lost_reply" \in case.faults /\ ~alice
          /\ AcceptEntry /\ UNCHANGED recent /\ bad' = TRUE
    /\ Goto(AfterOrders)
    /\ UNCHANGED <<strat, rows, history, copy, mem, todo, cur, left>> /\ Others

LosesSight == unseen' = IF held'[cur] > 0 THEN unseen \cup {cur} ELSE unseen

\* A duplicate, accepted or blocked.
SliceAnswered ==
    /\ Futures /\ pc = "send"
    /\ \/ EntryAnswered /\ UNCHANGED bad
       \/ /\ alice /\ book[EntryKey] # 0 /\ "no_id" \in case.faults
          /\ bad' = TRUE /\ UNCHANGED <<market, history>>
    /\ sent' = sent + 1
    /\ Goto(AfterOrders)
    /\ UNCHANGED <<strat, rows, copy, mem, todo, cur, left>> /\ Others

SliceRaises ==
    /\ Futures /\ pc = "send"
    /\ \/ "raise" \in case.faults /\ UNCHANGED market
       \/ "lost_reply" \in case.faults /\ AcceptEntry /\ UNCHANGED recent
    /\ LosesSight
    /\ Goto("fail")
    /\ UNCHANGED <<strat, rows, phantom, locals>> /\ Others

LookUpPrice ==
    /\ Futures /\ pc = "quote"
    /\ \/ Goto("insert") /\ UNCHANGED unseen
       \/ "quote" \in case.faults /\ Goto("fail") /\ UNCHANGED held /\ LosesSight
    /\ UNCHANGED <<strat, rows, market, phantom, locals>> /\ Others

\* Mutant: one accepted order makes the row open.
InsertOpenRow ==
    /\ Futures /\ pc = "insert"
    /\ rows' = [rows EXCEPT ![cur] = [mem[cur] EXCEPT !.status = "open"]]
    /\ Goto("settle")
    /\ UNCHANGED <<strat, market, history, locals>> /\ Others

\* The row is open if every order was accepted.  One that no order backs is
\* never read again, and not kept here.
InsertFuture ==
    /\ Futures /\ pc = "insert"
    /\ rows' = IF ~bad THEN [rows EXCEPT ![cur] = [mem[cur] EXCEPT !.status = "open"]]
               ELSE IF held[cur] > 0
               THEN [rows EXCEPT ![cur] = [mem[cur] EXCEPT !.status = "broker_failed"]]
               ELSE rows
    /\ unseen' = IF bad /\ held[cur] > 0 THEN unseen \cup {cur} ELSE unseen
    /\ Goto("settle")
    /\ UNCHANGED <<strat, market, phantom, locals>> /\ Others

SettleFuture ==
    /\ Futures /\ pc = "settle"
    /\ strat' = [strat EXCEPT !.position = IF bad THEN "out" ELSE "in",
                              !.entry = IF bad THEN "broker_failed" ELSE "success"]
    /\ Rest
    /\ UNCHANGED <<rows, market, history>> /\ Others

\* The handler of an exception, whatever the broker did by then.
FailFuture ==
    /\ Futures /\ pc = "fail"
    /\ strat' = [strat EXCEPT !.position = "out", !.entry = "preflight_failed"]
    /\ Rest
    /\ UNCHANGED <<rows, market, history>> /\ Others

FuturesRound ==
    \/ FindNothing \/ SetOut \/ SaveConfig \/ ExitLoopEnds \/ NoFutureEntry
    \/ \E side \in case.sides : EnterFuture(side, case.slices)
    \/ MarkAttempted \/ SendSlice \/ SliceAnswered \/ SliceRaises \/ LookUpPrice
    \/ InsertFuture \/ SettleFuture \/ FailFuture

=============================================================================
