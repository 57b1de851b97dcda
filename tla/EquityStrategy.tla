--------------------------- MODULE EquityStrategy ---------------------------
(***************************************************************************)
(* EQSSALGO: one position per symbol.  A round looks at every symbol for   *)
(* an entry (EBUY: the row comes before its order, whose answer no one     *)
(* looks at), and then at the open rows, up to the first exit (EBUYEXIT).  *)
(***************************************************************************)
EXTENDS DirectEntries

Equity == family = "equity"

\* The step count of new symbols is saved with the whole document.
SaveSteps ==
    /\ Equity /\ pc = "gate" /\ ~copy.steps
    /\ copy' = [copy EXCEPT !.steps = TRUE]
    /\ SetStrategy(copy')
    /\ UNCHANGED <<rows, market, history, pc, mem, todo, cur, sent, bad, left>> /\ Others

\* A symbol without candles ends the round, the exits with it.
SymbolAdded ==
    /\ Equity /\ pc = "gate" /\ left # {} /\ "quote" \in case.faults
    /\ Rest
    /\ UNCHANGED <<strat, rows, market, history>> /\ Others

NextSymbol == left' = left \ {First(left)}

\* Mutant: the open rows of the symbol are not looked up.
FreeAnyway(s) == TRUE

Free(s) == \A e \in Open(rows) : rows[e].kind # s

\* No signal, a position in the symbol, no price for EBUY, or outside the window.
PassSymbol ==
    /\ Equity /\ pc = "gate" /\ left # {}
    /\ NextSymbol
    /\ UNCHANGED <<strat, rows, market, history, pc, copy, mem, todo, cur, sent, bad>> /\ Others

\* A signal and no open row of the symbol: EBUY makes up the position.
EnterEquity ==
    /\ Equity /\ pc = "gate" /\ left # {} /\ copy.steps
    /\ Free(First(left)) /\ New # {}
    /\ cur' = First(New)
    /\ mem' = [NoRows EXCEPT ![First(New)] =
                 [NoRow EXCEPT !.status = "open", !.net = 1, !.kind = First(left)]]
    /\ Goto("insert")
    /\ UNCHANGED <<strat, rows, market, history, copy, todo, sent, bad, left>> /\ Others

InsertEquity ==
    /\ Equity /\ pc = "insert"
    /\ rows' = [rows EXCEPT ![cur] = mem[cur]]
    /\ Goto("settle")
    /\ UNCHANGED <<strat, market, history, locals>> /\ Others

\* The strategy is in, before the order.
SettleEquity ==
    /\ Equity /\ pc = "settle"
    /\ strat' = [strat EXCEPT !.position = "in"]
    /\ IF live THEN Goto("send") /\ UNCHANGED left ELSE Goto("gate") /\ NextSymbol
    /\ UNCHANGED <<rows, market, history, copy, mem, todo, cur, sent, bad>> /\ Others

\* Accepted, refused or raising: the round goes on, and the row is open.
SendEquity ==
    /\ Equity /\ pc = "send"
    /\ \/ Trade(cur, 1) /\ UNCHANGED phantom
       \/ UNCHANGED held /\ phantom' = phantom \cup {cur}
    /\ Goto("gate") /\ NextSymbol
    /\ UNCHANGED <<strat, rows, window, unseen, copy, mem, todo, cur, sent, bad>> /\ Others

SymbolsEnd ==
    /\ Equity /\ pc = "gate" /\ left = {}
    /\ Goto("find")
    /\ UNCHANGED <<strat, rows, market, history, locals>> /\ Others

NothingToExit ==
    /\ Equity /\ \/ pc = "find" /\ Open(rows) = {}
                 \/ pc = "loop" /\ todo = {}
    /\ Rest
    /\ UNCHANGED <<strat, rows, market, history>> /\ Others

\* A step count that changed is saved with the whole document, now out.
SaveExitSteps ==
    /\ Equity /\ pc = "steps"
    /\ SetStrategy(copy) \/ UNCHANGED strat
    /\ Goto("save")
    /\ UNCHANGED <<rows, market, history, locals>> /\ Others

EquityRound ==
    \/ SaveSteps \/ SymbolAdded \/ PassSymbol \/ EnterEquity \/ InsertEquity
    \/ SettleEquity \/ SendEquity \/ SymbolsEnd \/ NothingToExit \/ SaveExitSteps

=============================================================================
