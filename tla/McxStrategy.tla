----------------------------- MODULE McxStrategy -----------------------------
(***************************************************************************)
(* MCXSTRATEGY: the open rows first, then an entry, at most so many a day. *)
(* Both order the contract and the lot the strategy has at that time, with *)
(* a limit order of AliceBlue's.                                           *)
(***************************************************************************)
EXTENDS DirectEntries

Mcx == family = "mcx"

NoMcxRow ==
    /\ Mcx /\ pc = "find" /\ Open(rows) = {}
    /\ Goto("gate")
    /\ UNCHANGED <<strat, rows, market, history, locals>> /\ Others

\* _manage_mcx_exit is over: all rows, or no price at all.
McxManaged ==
    /\ Mcx /\ pc = "loop" /\ (todo = {} \/ "quote" \in case.faults)
    /\ Goto("gate")
    /\ UNCHANGED <<strat, rows, market, history, locals>> /\ Others

\* No exit reason: only prices are written.
KeepMcxRow ==
    /\ Mcx /\ pc = "loop" /\ todo # {}
    /\ mem[First(todo)].decision # "exitit"
    /\ NextRow
    /\ UNCHANGED <<strat, rows, market, history, pc, copy, cur, sent, bad, left>> /\ Others

SameContract(e) == mem[e].kind = copy.contract

AtMcxExit == Mcx /\ pc = "loop" /\ todo # {}

\* Stop, target, time, or a mark: an order for the present contract and lot.
ExitMcx ==
    /\ AtMcxExit
    /\ LET e == First(todo) IN
          /\ alice => NewOrder(ExitKey(e))
          /\ OrderOut(ExitKey(e), e)
          /\ IF SameContract(e) THEN Trade(e, -mem[e].net) /\ UNCHANGED unseen
             ELSE UNCHANGED held /\ unseen' = unseen \cup {e}
    /\ Goto("save")
    /\ UNCHANGED <<strat, rows, phantom, locals>> /\ Others

\* A duplicate of an order of the last 30 s: answered "Ok", and not sent.
ExitMcxAnswered ==
    /\ AtMcxExit /\ alice /\ book[ExitKey(First(todo))] # 0
    /\ unseen' = IF held[First(todo)] > 0 THEN unseen \cup {First(todo)} ELSE unseen
    /\ Goto("save")
    /\ UNCHANGED <<strat, rows, market, phantom, locals>> /\ Others

\* A refusal, a duplicate without an id, a closed exchange or a missing session
\* raises out of the round.
ExitMcxRaises ==
    /\ AtMcxExit /\ live
    /\ LET e == First(todo) IN
          \/ "raise" \in case.faults /\ UNCHANGED <<market, phantom>>
          \/ /\ "lost_reply" \in case.faults /\ (alice => NewOrder(ExitKey(e)))
             /\ Books(ExitKey(e), e) /\ UNCHANGED <<recent, accepted>>
             /\ IF SameContract(e)
                THEN Trade(e, -mem[e].net) /\ phantom' = phantom \cup {e}
                ELSE UNCHANGED <<held, phantom>>
    /\ Rest
    /\ UNCHANGED <<strat, rows, unseen>> /\ Others

\* $set: status and prices.
CloseMcxRow ==
    /\ Mcx /\ pc = "save"
    /\ rows' = [rows EXCEPT ![First(todo)].status = "close"]
    /\ Goto("config")
    /\ UNCHANGED <<strat, market, history, locals>> /\ Others

McxOut ==
    /\ Mcx /\ pc = "config"
    /\ strat' = [strat EXCEPT !.position = "out"]
    /\ Goto("loop") /\ NextRow
    /\ UNCHANGED <<rows, market, history, copy, cur, sent, bad, left>> /\ Others

\* In, outside the window, no signal, or too many rows today.
NoMcxEntry ==
    /\ Mcx /\ pc = "gate"
    /\ Rest
    /\ UNCHANGED <<strat, rows, market, history>> /\ Others

Today == {e \in Entries : rows[e].status # "none"}

\* Mutant: one row more than max_trades_per_day.
BelowLimitLoose == Cardinality(Today) <= case.limit

BelowLimit == Cardinality(Today) < case.limit

EnterMcx(side) ==
    /\ Mcx /\ pc = "gate" /\ copy.position = "out" /\ BelowLimit /\ New # {}
    /\ cur' = First(New)
    /\ mem' = [NoRows EXCEPT ![First(New)] =
                 [NoRow EXCEPT !.status = "open", !.net = 1, !.kind = copy.contract,
                               !.side = side]]
    /\ todo' = {}
    /\ Goto(IF live THEN "send" ELSE "insert")
    /\ UNCHANGED <<strat, rows, market, history, copy, sent, bad, left>> /\ Others

\* Nothing tells the next round of an order that raised; a duplicate is taken
\* for one that was accepted.
SendMcx ==
    /\ Mcx /\ pc = "send"
    /\ \/ AcceptEntry /\ Remembers(EntryKey) /\ Goto("insert") /\ UNCHANGED <<history, locals>>
       \/ EntryAnswered /\ Goto("insert") /\ UNCHANGED locals
       \/ "raise" \in case.faults /\ UNCHANGED <<market, history>> /\ Rest
       \/ /\ "lost_reply" \in case.faults /\ AcceptEntry /\ UNCHANGED <<recent, phantom>>
          /\ unseen' = unseen \cup {cur} /\ Rest
    /\ UNCHANGED <<strat, rows>> /\ Others

InsertMcx ==
    /\ Mcx /\ pc = "insert"
    /\ rows' = [rows EXCEPT ![cur] = mem[cur]]
    /\ Goto("settle")
    /\ UNCHANGED <<strat, market, history, locals>> /\ Others

SettleMcx ==
    /\ Mcx /\ pc = "settle"
    /\ strat' = [strat EXCEPT !.position = "in"]
    /\ Rest
    /\ UNCHANGED <<rows, market, history>> /\ Others

McxRound ==
    \/ NoMcxRow \/ McxManaged \/ KeepMcxRow \/ ExitMcx \/ ExitMcxAnswered
    \/ ExitMcxRaises \/ CloseMcxRow \/ McxOut \/ NoMcxEntry
    \/ (\E side \in case.sides : EnterMcx(side)) \/ SendMcx
    \/ InsertMcx \/ SettleMcx

=============================================================================
