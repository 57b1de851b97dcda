--------------------------- MODULE DirectStrategies ---------------------------
(***************************************************************************)
(* The families without the claim, each with the refresher, requests and   *)
(* deaths of the worker.                                                   *)
(***************************************************************************)
EXTENDS FuturesStrategy, EquityStrategy, McxStrategy

Round ==
    \/ Load \/ Find("loop") \/ KeepRow \/ SaveRow
    \/ \E k \in 0 .. MaxSlices : ExitOrder(k) \/ ExitAcknowledged(k) \/ ExitRaises(k)
    \/ ExitAnswered \/ ExitBlocked \/ FuturesRound \/ EquityRound \/ McxRound

Next == Round \/ WindowPasses \/ Refresher \/ Request \/ Crash \/ Restart

Spec == Init /\ [][Next]_vars

\* Exit orders that fill, or are answered as duplicates: neither refused nor
\* raising.
FullExit == \/ \E k \in 1 .. MaxSlices : ExitOrder(k)
            \/ ExitAnswered \/ ExitMcx \/ ExitMcxAnswered

\* The loops run until shutdown, a dead worker is started again, not every
\* exit order is refused or fails.
FairSpec == /\ Spec
            /\ WF_vars(Round) /\ WF_vars(Refresher) /\ WF_vars(Restart)
            /\ SF_vars(FullExit)

-----------------------------------------------------------------------------
(* Properties.                                                             *)

\* The engine has the result of an exit and not saved it yet, or (equities)
\* the order of a row is still to be sent.
InHand(e) == \/ Exiting /\ e = First(todo)
             \/ family = "mcx" /\ pc = "save" /\ e = First(todo)
             \/ family = "equity" /\ e = cur /\ pc \in {"settle", "send"}

\* An open row never asks for the sale of more than the account holds of the
\* entry, but for rows known to stand for more.
RowBacked ==
    live => \A e \in Open(rows) \ phantom : InHand(e) \/ rows[e].net <= held[e]

\* Every unit the account holds is in an open row or in an entry under way,
\* but for entries the documents lost sight of.
ExposureTracked ==
    \A e \in Entries \ unseen :
        \/ Entering /\ e = cur
        \/ held[e] <= (IF rows[e].status = "open" THEN rows[e].net ELSE 0)

\* Inside a window AliceBlue gets at most one entry order of a contract and side,
\* though replies are lost, calls raise and the worker dies; unless its order book
\* cannot be read.
WindowHolds ==
    "blind" \notin case.faults => \A key \in Keys : accepted[key] <= 1

Taken(e) == rows[e].status = "open" \/ held[e] > 0

\* Rows the strategy's position does not speak for: they stand for more than
\* was bought, or their units were lost sight of.
Astray == phantom \cup {e \in unseen : rows[e].status \in {"open", "close"}}

\* A strategy has one position, an equity strategy one in each symbol.  Except
\* for equities this lasts until a row goes astray: the exit of such a row takes
\* the strategy out while another position is open, and an entry may follow.
OnePosition ==
    (family # "equity" => Astray = {}) =>
    \A e, f \in Entries \ (unseen \cup phantom) :
        Taken(e) /\ Taken(f) /\ (family = "equity" => rows[e].kind = rows[f].kind)
            => e = f

\* max_trades_per_day bounds the rows of the day, whatever fails.
DayLimit == family = "mcx" => Cardinality(Today) <= case.limit

\* A row that is written as it was read undoes an exit, or part of it.
Reverts == \E e \in Entries : rows[e].status # "none" /\ Undoes(e, rows'[e])

\* A strategy that is stopped for good ends without open rows, and without
\* units but of entries the documents lost sight of: unless the refresher, which
\* nothing keeps from it, undoes its exits again and again.
StoppedGoesFlat ==
    /\ <>[](strat.status # "opened")
    /\ <>[][~Reverts]_vars
    => <>[](\A e \in Entries : /\ rows[e].status # "open"
                               /\ held[e] <= 0 \/ e \in unseen)

=============================================================================
