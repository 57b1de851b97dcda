---------------------------- MODULE DirectProofs ----------------------------
(***************************************************************************)
(* Proofs about DirectStrategies, for any cases and any numbers of entries *)
(* and slices.                                                             *)
(*                                                                         *)
(* The invariant follows the units of an entry through its life: how many  *)
(* orders went out and how many of them the account holds while the entry  *)
(* is made (Ordering), that its row stands for them afterwards (Tracked,   *)
(* RowBacked), and that the copies of rows which the engine and the        *)
(* refresher carry across other steps, and write back whole, ask for no    *)
(* more and no less than that (Copies).  Places and FreshEntry say where   *)
(* the engine can be with what.  Listed, Solo and PerSymbol are about who  *)
(* may open a position: the document says the strategy is out, or the      *)
(* engine's copy does, only when nothing is held that it knows of.         *)
(***************************************************************************)
EXTENDS DirectStrategies, WellFoundedInduction, FiniteSetTheorems, TLAPS

-----------------------------------------------------------------------------
(* The inductive invariant.                                                *)

\* Entries that have a row.
Known == {e \in Entries : rows[e].status # "none"}

\* Paper holds nothing.
PaperInv == ~live => \A e \in Entries : held[e] = 0

\* The engine has a row in hand, the first of those it has still to visit.
AtRow == pc \in {"steps", "save", "config"}

\* Where the engine and the refresher can be, and what they have to visit there.
Places ==
    /\ todo \subseteq Known /\ rtodo \subseteq Known
    /\ AtRow => todo # {}
    /\ rpc # "idle" => rtodo # {}
    /\ pc \in {"mark", "quote", "fail"} => Futures
    /\ pc = "steps" => Equity
    /\ pc = "set_out" => Futures
    /\ pc = "config" => ~Equity
    /\ ~Futures => sent = 0
    /\ Equity /\ pc \notin {"loop", "steps", "save"} => todo = {}

\* Before its row is inserted, the entry under way has none.
Rowless == \/ pc \in {"mark", "quote", "insert", "fail"}
           \/ pc = "send" /\ ~Equity

FreshEntry == Rowless => cur \notin Known

\* The orders of the entry under way, and what the account holds of it.
Ordering ==
    /\ Futures /\ pc \in {"mark", "send", "quote", "insert"} =>
         /\ mem[cur].net = case.slices
         /\ held[cur] <= sent
         /\ live /\ ~bad /\ cur \notin phantom => sent <= held[cur]
    /\ Futures /\ pc \in {"mark", "send"} => sent < case.slices /\ live
    /\ Futures /\ pc \in {"quote", "insert"} => (live => sent = case.slices)
    /\ Futures /\ pc = "fail" => held[cur] <= 0 \/ cur \in unseen
    /\ Equity /\ pc = "insert" =>
         mem[cur].status = "open" /\ mem[cur].net = 1 /\ held[cur] = 0
    /\ Equity /\ pc \in {"settle", "send"} =>
         /\ rows[cur].status = "open" /\ rows[cur].net = 1 /\ held[cur] = 0
         /\ cur \in rtodo => rcopy[cur].net = 1
    /\ Mcx /\ pc \in {"send", "insert"} => mem[cur].status = "open" /\ mem[cur].net = 1
    /\ Mcx /\ pc = "send" => held[cur] = 0
    /\ Mcx /\ pc = "insert" => held[cur] <= 1 /\ (live /\ cur \notin phantom => held[cur] = 1)

\* A copy asks for no less than the account holds of the entry, and for no more
\* if the row stands for what was bought.
Asks(row, e) == /\ e \notin unseen => held[e] <= (IF row.status = "open" THEN row.net ELSE 0)
                /\ live /\ e \notin phantom /\ row.status = "open" => row.net <= held[e]

\* Rows the engine has a copy of and no result yet.
Visits == IF pc = "loop" THEN todo ELSE IF AtRow THEN todo \ {First(todo)} ELSE {}

\* The copies of the rows still to be visited, and of the row in hand.
Copies ==
    /\ \A e \in Visits : mem[e].status = "open" /\ Asks(mem[e], e)
    /\ pc \in {"steps", "save"} /\ ~Mcx =>
         LET e == First(todo) IN mem[e].status \in {"open", "close"} /\ Asks(mem[e], e)
    /\ pc = "save" /\ Mcx =>
         LET e == First(todo) IN held[e] <= 0 \/ e \in unseen
    /\ \A e \in rtodo : /\ rcopy[e].status = "open"
                        /\ e \notin unseen => held[e] <= rcopy[e].net

\* The units of an entry are in its row from the time it is settled on.
Tracked ==
    \A e \in Entries \ unseen :
        \/ Entering /\ e = cur /\ pc # "settle"
        \/ held[e] <= (IF rows[e].status = "open" THEN rows[e].net ELSE 0)

\* The limit leaves room for the row of an entry under way.
Days ==
    Mcx => /\ Cardinality(Today) <= case.limit
           /\ pc \in {"send", "insert"} => Cardinality(Today) < case.limit

\* An accepted order of the window is in the order book.
Windows ==
    \A key \in Keys :
        case.window = "one" /\ "blind" \notin case.faults =>
            accepted[key] = 0 \/ (accepted[key] = 1 /\ book[key] # 0)

\* Where windows pass, orders are not counted.
WindowsElse == case.window # "one" => accepted = [s \in Keys |-> 0]

\* An entry before its document is settled (an equity entry: before its order).
Making == pc \in {"mark", "send", "quote", "insert", "fail"}

\* Rows the engine has still to visit are open, those the refresher has were.
\* Copies keep the kind of the row.
Listed ==
    /\ \A e \in todo : (pc = "config" => e # First(todo)) => rows[e].status = "open"
    /\ \A e \in todo \cup rtodo : rows[e].status \in {"open", "close"}
    /\ \A e \in todo : mem[e].kind = rows[e].kind
    /\ \A e \in rtodo : rcopy[e].kind = rows[e].kind

\* No entry is taken, but for those the documents lost sight of.
Flat == \A e \in Entries \ unseen : ~Taken(e)

\* One entry at most is taken, the one under way if there is one.  The documents
\* and the copy say "out" only when none is: what they say decides on an entry.
Solo ==
    ~Equity /\ Astray = {} =>
        /\ \A e, f \in Entries \ unseen : Taken(e) /\ Taken(f) => e = f
        /\ Making \/ pc = "settle" => \A e \in Entries \ unseen : Taken(e) => e = cur
        /\ ~Making /\ pc # "settle" /\ strat.position = "out" => Flat
        /\ pc \in {"set_out", "config"} => Flat
        /\ copy.position = "out" /\ (pc \in {"find", "gate", "loop"} \/ (Mcx /\ pc = "save")) => Flat
        /\ Futures /\ pc = "save" /\ mem[First(todo)].status # "close" => copy.position = "in"
        /\ Futures /\ pc = "settle" /\ bad => cur \in unseen \/ ~Taken(cur)

\* Equities: the lookup of open rows before an entry speaks for the time until
\* the row is inserted.
PerSymbol ==
    Equity =>
        /\ \A e, f \in Open(rows) \ phantom : rows[e].kind = rows[f].kind => e = f
        /\ pc = "insert" => \A e \in Open(rows) \ phantom : rows[e].kind # mem[cur].kind

IInv == /\ TypeOK /\ PaperInv /\ Places /\ FreshEntry /\ Ordering
        /\ Copies /\ Tracked /\ RowBacked /\ Days /\ Windows /\ WindowsElse
        /\ Listed /\ Solo /\ PerSymbol

\* A set that is not empty has a first entry.
LEMMA FirstIn == ASSUME NEW S, S \subseteq Nat, S # {} PROVE First(S) \in S
<1>. DEFINE R == OpToRel(<, Nat)
<1>1. \A x, y \in Nat : <<x, y>> \in R <=> x < y
  BY DEF OpToRel
<1>2. PICK n \in S : \A m \in S : ~(<<m, n>> \in R)
  BY WFMin, NatLessThanWellFounded
<1>. HIDE DEF R
<1>3. n \in Nat /\ \A m \in S : m \in Nat /\ ~(m < n)
  BY <1>1, <1>2
<1>4. \A m \in S : n <= m
  BY <1>3
<1>. QED BY <1>4 DEF First

-----------------------------------------------------------------------------
(* Types.                                                                  *)

USE DEF Kinds, Sides, Statuses

\* Entries are numbers.
LEMMA EntryNat == Entries \subseteq Nat /\ MaxEntries \in Nat /\ MaxSlices \in Nat \ {0} /\ 1 \in Entries
BY DirectAssumption DEF Entries

\* What the assumption says of the case explored.
LEMMA CaseFacts ==
  ASSUME TypeOK
  PROVE  /\ live \in BOOLEAN /\ family \in {"futures", "equity", "mcx"}
         /\ case.slices \in 1 .. MaxSlices /\ case.limit \in Nat /\ case.upsets \in Nat
         /\ 1 .. case.entries \subseteq Entries
         /\ alice => ~Equity /\ live
         /\ case.sides \subseteq Sides
         /\ case.window \in {"none", "one", "many"}
<1>1. /\ case \in [family : {"futures", "equity", "mcx"}, live : BOOLEAN,
                   window : {"none", "one", "many"}, sides : SUBSET Sides, limit : Nat,
                   entries : 1 .. MaxEntries, slices : 1 .. MaxSlices, upsets : Nat,
                   ops : SUBSET {"stop", "delete", "start", "edit", "exit"},
                   faults : SUBSET Faults]
      /\ case.window # "none" => case.family # "equity" /\ case.live
  BY DirectAssumption DEF TypeOK
<1>2. case.entries \in 1 .. MaxEntries
  BY <1>1
<1>. QED BY <1>1, <1>2, EntryNat DEF live, family, alice, Equity, Entries

\* A new entry has no row and no units, and no one lost sight of it.
LEMMA NewIn ==
  ASSUME TypeOK, New # {}
  PROVE  /\ First(New) \in Entries /\ rows[First(New)] = NoRow /\ held[First(New)] = 0
         /\ First(New) \notin unseen \cup phantom
<1>1. New \subseteq Entries
  BY CaseFacts DEF New
<1>2. First(New) \in New
  BY <1>1, FirstIn, EntryNat
<1>. QED BY <1>1, <1>2 DEF New

\* The row in hand, of the engine and of the refresher, is an entry.
LEMMA TodoIn ==
  ASSUME TypeOK
  PROVE  /\ todo # {} => First(todo) \in todo /\ First(todo) \in Entries
         /\ rtodo # {} => First(rtodo) \in rtodo /\ First(rtodo) \in Entries
BY FirstIn, EntryNat DEF TypeOK

\* The blank strategy is one.
LEMMA NoStrategyTyped == NoStrategy \in Strategies
BY DEF NoStrategy, Strategies

\* A strategy written as the round read it is a strategy.
LEMMA SetsStrategy ==
  ASSUME strat \in Strategies, NEW c \in Strategies, SetStrategy(c)
  PROVE  strat' \in Strategies
<1>. DEFINE e == IF c.entry = "none" THEN strat.entry ELSE c.entry
            b == c.steps \/ strat.steps
<1>1. strat' = [c EXCEPT !.entry = e, !.steps = b]
  BY DEF SetStrategy
<1>2. e \in {"none", "attempted", "success", "broker_failed", "preflight_failed"} /\ b \in BOOLEAN
  BY DEF Strategies
<1>. HIDE DEF e, b
<1>. QED BY <1>1, <1>2 DEF Strategies

\* Every step leaves the document and the copy of the strategy well typed.
LEMMA StrategyStep ==
  ASSUME TypeOK, Next
  PROVE  strat' \in Strategies /\ copy' \in Strategies
<1>0. strat \in Strategies /\ copy \in Strategies
  BY DEF TypeOK
<1>1. CASE \/ Load \/ Find("loop") \/ KeepRow \/ SaveRow
           \/ (\E k \in 0 .. MaxSlices : ExitRaises(k))
  BY <1>1, <1>0, NoStrategyTyped DEF Load, Others, Goto, Find, KeepRow, PutRow, NextRow,
     SaveRow, Rest, locals, ExitRaises
<1>2. ASSUME NEW k \in 0 .. MaxSlices, ExitOrder(k) PROVE strat' \in Strategies /\ copy' \in Strategies
  <2>1. copy' = [copy EXCEPT !.position = "in"] \/ copy' = [copy EXCEPT !.position = "out"]
    BY <1>2 DEF ExitOrder
  <2>. QED BY <1>2, <2>1, <1>0 DEF ExitOrder, Others, Strategies
<1>3. CASE \/ (\E k \in 0 .. MaxSlices : ExitAcknowledged(k)) \/ ExitAnswered \/ ExitBlocked
  BY <1>3, <1>0 DEF ExitAcknowledged, Others, Goto, ExitAnswered, ExitBlocked, Strategies
<1>4. CASE \/ FindNothing \/ ExitLoopEnds \/ NoFutureEntry
           \/ (\E side \in case.sides : EnterFuture(side, case.slices)) \/ SendSlice
           \/ SliceAnswered \/ SliceRaises \/ LookUpPrice
  BY <1>4, <1>0, NoStrategyTyped DEF FindNothing, Others, Goto, locals, ExitLoopEnds,
     NoFutureEntry, Rest, EnterFuture, SendSlice, SliceAnswered, EntryAnswered, SliceRaises,
     LookUpPrice
<1>5. CASE \/ SetOut \/ MarkAttempted \/ FailFuture
  BY <1>5, <1>0, NoStrategyTyped DEF SetOut, Others, Rest, MarkAttempted, Goto, locals,
     FailFuture, Strategies
<1>6. CASE SaveConfig
  BY <1>6, <1>0, SetsStrategy DEF SaveConfig, Others, NextRow, Goto
<1>7. CASE InsertFuture
  BY <1>7, <1>0, NoStrategyTyped DEF InsertFuture, Others, Goto, locals
<1>8. CASE SettleFuture
  <2>1. \/ strat' = [strat EXCEPT !.position = "in", !.entry = "success"]
        \/ strat' = [strat EXCEPT !.position = "out", !.entry = "broker_failed"]
    BY <1>8 DEF SettleFuture
  <2>2. copy' = NoStrategy
    BY <1>8 DEF SettleFuture, Rest
  <2>3. strat' \in Strategies
    BY <2>1, <1>0 DEF Strategies
  <2>. QED BY <2>2, <2>3, NoStrategyTyped
<1>9. CASE SaveSteps
  <2>1. copy' \in Strategies
    BY <1>9, <1>0 DEF SaveSteps, Strategies
  <2>. QED BY <1>9, <2>1, <1>0, SetsStrategy DEF SaveSteps
<1>10. CASE \/ SymbolAdded \/ PassSymbol \/ EnterEquity \/ InsertEquity \/ SendEquity
            \/ SymbolsEnd \/ NothingToExit
  BY <1>10, <1>0, NoStrategyTyped DEF SymbolAdded, Others, Rest, PassSymbol, EnterEquity, Goto,
     InsertEquity, locals, SendEquity, SymbolsEnd, NothingToExit
<1>11. CASE SettleEquity
  BY <1>11, <1>0 DEF SettleEquity, Others, Goto, Strategies
<1>12. CASE SaveExitSteps
  BY <1>12, <1>0, SetsStrategy DEF SaveExitSteps, Others, Goto, locals
<1>13. CASE \/ NoMcxRow \/ McxManaged \/ KeepMcxRow \/ ExitMcx \/ ExitMcxAnswered
            \/ ExitMcxRaises \/ CloseMcxRow
            \/ NoMcxEntry \/ (\E side \in case.sides : EnterMcx(side))
  BY <1>13, <1>0, NoStrategyTyped DEF NoMcxRow, Others, Goto, locals, McxManaged, KeepMcxRow,
     NextRow, ExitMcx, ExitMcxAnswered, ExitMcxRaises, Rest, CloseMcxRow, NoMcxEntry, EnterMcx
<1>14. CASE McxOut
  BY <1>14, <1>0 DEF McxOut, Others, Goto, NextRow, Strategies
<1>15. CASE \/ SendMcx \/ InsertMcx
  BY <1>15, <1>0, NoStrategyTyped DEF SendMcx, EntryAnswered, Others, Rest, Goto, locals,
     InsertMcx
<1>16. CASE SettleMcx
  BY <1>16, <1>0, NoStrategyTyped DEF SettleMcx, Others, Rest, Goto, Strategies
<1>17. CASE \/ WindowPasses \/ Scan \/ ReadStrategy \/ WriteBack
  BY <1>17, <1>0, NoStrategyTyped DEF WindowPasses, engine, locals, Scan, Refreshing,
     ReadStrategy, WriteBack
<1>18. CASE RepairPosition
  BY <1>18, <1>0 DEF RepairPosition, Refreshing, engine, locals, Strategies
<1>19. CASE Retire
  BY <1>19, <1>0 DEF Retire, Requesting, engine, locals, Strategies
<1>20. CASE \/ MarkExit \/ ReadToStart \/ ReadToEdit \/ ExitPosition
  BY <1>20, <1>0, NoStrategyTyped DEF MarkExit, Requesting, engine, locals, ReadToStart,
     ReadToEdit, ExitPosition
<1>21. CASE CommitStart
  <2>1. \/ strat' = strat
        \/ strat' = [strat EXCEPT !.status = "opened", !.position = "out", !.entry = "none"]
        \/ strat' = [strat EXCEPT !.status = "opened"]
    BY <1>21 DEF CommitStart
  <2>. QED BY <1>21, <2>1, <1>0 DEF CommitStart, Requesting, engine, locals, Strategies
<1>22. CASE CommitEdit
  <2>1. req.status \in Statuses /\ req.position \in {"in", "out"} /\ req.contract \in Kinds
    BY DEF TypeOK
  <2>2. PICK b \in BOOLEAN :
          strat' = [strat EXCEPT !.status = req.status, !.position = req.position,
                                 !.contract = req.contract, !.steps = b]
    <3>1. PICK b \in {strat.steps, FALSE} :
            strat' = [strat EXCEPT !.status = req.status, !.position = req.position,
                        !.contract = req.contract,
                        !.steps = IF family = "equity" THEN b ELSE strat.steps]
      BY <1>22, <1>0 DEF CommitEdit, Strategies
    <3>2. strat.steps \in BOOLEAN
      BY <1>0 DEF Strategies
    <3>. QED BY <3>1, <3>2
  <2>. QED BY <1>22, <2>1, <2>2, <1>0 DEF CommitEdit, Requesting, engine, locals, Strategies
<1>23. CASE Crash
  BY <1>23, <1>0, NoStrategyTyped DEF Crash, Goto
<1>24. CASE Restart
  BY <1>24, <1>0 DEF Restart, Others, Goto, locals, Strategies
<1>. QED BY <1>1, <1>2, <1>3, <1>4, <1>5, <1>6, <1>7, <1>8, <1>9, <1>10, <1>11, <1>12, <1>13,
   <1>14, <1>15, <1>16, <1>17, <1>18, <1>19, <1>20, <1>21, <1>22, <1>23, <1>24 DEF Next,
   Round, FuturesRound, EquityRound, McxRound, Refresher, Request

\* The blank row is one.
LEMMA NoRowTyped == NoRow \in Rows /\ NoRows \in [Entries -> Rows]
BY DEF NoRow, NoRows, Rows

\* Every step leaves the rows well typed.
LEMMA RowsStep ==
  ASSUME IInv, Next
  PROVE  rows' \in [Entries -> Rows]
<1>0. /\ rows \in [Entries -> Rows] /\ mem \in [Entries -> Rows] /\ rcopy \in [Entries -> Rows]
      /\ cur \in Entries
      /\ pc \in {"loop", "save"} /\ todo # {} => First(todo) \in Entries
      /\ pc = "save" => First(todo) \in Entries
      /\ rpc # "idle" => First(rtodo) \in Entries
  BY TodoIn DEF TypeOK, IInv, Places, AtRow
<1>1. CASE \/ Load \/ Find("loop") \/ (\E k \in 0 .. MaxSlices : ExitOrder(k))
           \/ (\E k \in 0 .. MaxSlices : ExitAcknowledged(k))
           \/ (\E k \in 0 .. MaxSlices : ExitRaises(k)) \/ ExitAnswered \/ ExitBlocked
  BY <1>1, <1>0 DEF Load, Others, Goto, Find, ExitOrder, ExitAcknowledged, ExitRaises, Rest,
     ExitAnswered, ExitBlocked
<1>2. CASE KeepRow
  BY <1>2, <1>0 DEF KeepRow, Others, PutRow, NextRow
<1>3. CASE SaveRow
  BY <1>3, <1>0 DEF SaveRow, Others, PutRow, NextRow, Rest, Goto, locals
<1>4. CASE \/ FindNothing \/ SetOut \/ SaveConfig \/ ExitLoopEnds \/ NoFutureEntry
           \/ (\E side \in case.sides : EnterFuture(side, case.slices)) \/ MarkAttempted
           \/ SendSlice
  BY <1>4, <1>0 DEF FindNothing, Others, Goto, locals, SetOut, Rest, SaveConfig, NextRow,
     ExitLoopEnds, NoFutureEntry, EnterFuture, MarkAttempted, SendSlice
<1>5. CASE \/ SliceAnswered \/ SliceRaises \/ LookUpPrice \/ SettleFuture \/ FailFuture
  BY <1>5, <1>0 DEF SliceAnswered, EntryAnswered, Others, Goto, SliceRaises, locals,
     LookUpPrice, SettleFuture, Rest, FailFuture
<1>6. CASE InsertFuture
  <2>1. mem[cur] \in Rows
    BY <1>0
  <2>2. [mem[cur] EXCEPT !.status = "open"] \in Rows /\ [mem[cur] EXCEPT !.status = "broker_failed"] \in Rows
    BY <2>1 DEF Rows
  <2>. QED BY <1>6, <1>0, <2>2 DEF InsertFuture
<1>7. CASE \/ SaveSteps \/ SymbolAdded \/ PassSymbol \/ EnterEquity \/ SettleEquity
           \/ SendEquity \/ SymbolsEnd \/ NothingToExit
  BY <1>7, <1>0 DEF SaveSteps, Others, SymbolAdded, Rest, PassSymbol, EnterEquity, Goto,
     SettleEquity, SendEquity, SymbolsEnd, locals, NothingToExit
<1>8. CASE \/ InsertEquity \/ InsertMcx
  BY <1>8, <1>0 DEF InsertEquity, Others, Goto, locals, InsertMcx
<1>9. CASE SaveExitSteps
  BY <1>9, <1>0 DEF SaveExitSteps, Others, Goto, locals
<1>10. CASE \/ NoMcxRow \/ McxManaged \/ KeepMcxRow \/ ExitMcx \/ ExitMcxAnswered
            \/ ExitMcxRaises \/ McxOut
            \/ NoMcxEntry \/ (\E side \in case.sides : EnterMcx(side))
  BY <1>10, <1>0 DEF NoMcxRow, Others, Goto, locals, McxManaged, KeepMcxRow, NextRow, ExitMcx,
     ExitMcxAnswered, ExitMcxRaises, Rest, McxOut, NoMcxEntry, EnterMcx
<1>11. CASE CloseMcxRow
  <2>1. rows[First(todo)] \in Rows
    BY <1>11, <1>0 DEF CloseMcxRow
  <2>2. [rows[First(todo)] EXCEPT !.status = "close"] \in Rows
    BY <2>1 DEF Rows
  <2>. QED BY <1>11, <1>0, <2>2 DEF CloseMcxRow
<1>12. CASE \/ SendMcx \/ SettleMcx
  BY <1>12, <1>0 DEF SendMcx, EntryAnswered, Others, Rest, Goto, locals, SettleMcx
<1>13. CASE \/ WindowPasses \/ Scan \/ ReadStrategy \/ RepairPosition
  BY <1>13, <1>0 DEF WindowPasses, engine, locals, Scan, Refreshing, ReadStrategy,
     RepairPosition
<1>14. CASE WriteBack
  BY <1>14, <1>0 DEF WriteBack, Refreshing, engine, locals, PutRow
<1>15. CASE \/ Retire \/ ReadToStart \/ CommitStart \/ ReadToEdit \/ CommitEdit
  BY <1>15, <1>0 DEF Retire, Requesting, engine, locals, ReadToStart, CommitStart, ReadToEdit,
     CommitEdit
<1>16. CASE MarkExit
  <2>1. \A e \in Entries : [rows[e] EXCEPT !.decision = "exitit"] \in Rows
    BY <1>0 DEF Rows
  <2>. QED BY <1>16, <1>0, <2>1 DEF MarkExit
<1>17. CASE ExitPosition
  <2>1. \A e \in Entries : [rows[e] EXCEPT !.decision = "exitit"] \in Rows
    BY <1>0 DEF Rows
  <2>2. Open(rows) \subseteq Entries
    BY DEF Open
  <2>. QED BY <1>17, <1>0, <2>1, <2>2 DEF ExitPosition
<1>18. CASE \/ Crash \/ Restart
  BY <1>18, <1>0 DEF Crash, Goto, Restart, Others, locals
<1>. QED BY <1>1, <1>2, <1>3, <1>4, <1>5, <1>6, <1>7, <1>8, <1>9, <1>10, <1>11, <1>12, <1>13,
   <1>14, <1>15, <1>16, <1>17, <1>18 DEF Next, Round, FuturesRound, EquityRound, McxRound,
   Refresher, Request

\* Every step leaves the engine's copies of the rows well typed.
LEMMA MemoryStep ==
  ASSUME IInv, Next
  PROVE  mem' \in [Entries -> Rows]
<1>0. /\ rows \in [Entries -> Rows] /\ mem \in [Entries -> Rows]
      /\ pc = "loop" /\ todo # {} => First(todo) \in Entries
      /\ pc = "save" => First(todo) \in Entries
  BY TodoIn DEF TypeOK, IInv, Places, AtRow
<1>1. CASE Load
  BY <1>1, <1>0 DEF Load, Others, Goto
<1>2. CASE Find("loop")
  BY <1>2, <1>0, NoRowTyped DEF Find, Others, Goto
<1>3. CASE \/ KeepRow \/ SaveRow
  BY <1>3, <1>0, NoRowTyped DEF KeepRow, Others, PutRow, NextRow, SaveRow, Rest, Goto, locals
<1>4. ASSUME NEW k \in 0 .. MaxSlices, ExitOrder(k) PROVE mem' \in [Entries -> Rows]
  <2>. DEFINE e == First(todo)
              row == mem[e]
              closed == k = row.net
              s == IF closed THEN "close" ELSE row.status
              d == IF closed THEN row.decision ELSE "exitit"
  <2>1. e \in Entries /\ row \in Rows /\ k <= row.net
    BY <1>4, <1>0 DEF ExitOrder, AtExit
  <2>2. /\ s \in {"none", "open", "close", "broker_failed"} /\ d \in {"intrade", "exitit"}
        /\ row.net - k \in Nat
    BY <2>1 DEF Rows
  <2>3. mem' = [mem EXCEPT ![e] = [row EXCEPT !.net = row.net - k, !.status = s, !.decision = d]]
    BY <1>4, <1>0, <2>1 DEF ExitOrder, Rows
  <2>. HIDE DEF s, d
  <2>4. [row EXCEPT !.net = row.net - k, !.status = s, !.decision = d] \in Rows
    BY <2>1, <2>2 DEF Rows
  <2>. HIDE DEF row, e
  <2>. QED BY <1>0, <2>1, <2>3, <2>4
<1>5. ASSUME NEW k \in 0 .. MaxSlices, ExitAcknowledged(k) PROVE mem' \in [Entries -> Rows]
  <2>. DEFINE e == First(todo)
              row == mem[e]
              closed == [row EXCEPT !.net = 0, !.status = "close", !.decision = "intrade"]
  <2>1. e \in Entries /\ row \in Rows
    BY <1>5, <1>0 DEF ExitAcknowledged, AtExit
  <2>2. mem' = [mem EXCEPT ![e] = closed]
    BY <1>5, <1>0, <2>1 DEF ExitAcknowledged, Rows
  <2>3. closed \in Rows
    BY <2>1 DEF Rows
  <2>. HIDE DEF row, e, closed
  <2>. QED BY <1>0, <2>1, <2>2, <2>3
<1>6. ASSUME NEW k \in 0 .. MaxSlices, ExitRaises(k) PROVE mem' \in [Entries -> Rows]
  BY <1>6, <1>0, NoRowTyped DEF ExitRaises, Others, Rest, Goto
<1>7. CASE ExitAnswered
  <2>. DEFINE e == First(todo)
              row == mem[e]
              closed == [row EXCEPT !.net = 0, !.status = "close"]
  <2>1. e \in Entries /\ row \in Rows
    BY <1>7, <1>0 DEF ExitAnswered
  <2>2. mem' = [mem EXCEPT ![e] = closed]
    BY <1>7, <1>0, <2>1 DEF ExitAnswered, Rows
  <2>3. closed \in Rows
    BY <2>1 DEF Rows
  <2>. HIDE DEF row, e, closed
  <2>. QED BY <1>0, <2>1, <2>2, <2>3
<1>22. CASE ExitBlocked
  <2>. DEFINE e == First(todo)
              row == mem[e]
              marked == [row EXCEPT !.decision = "exitit"]
  <2>1. e \in Entries /\ row \in Rows
    BY <1>22, <1>0 DEF ExitBlocked
  <2>2. mem' = [mem EXCEPT ![e] = marked]
    BY <1>22, <1>0, <2>1 DEF ExitBlocked, Rows
  <2>3. marked \in Rows
    BY <2>1 DEF Rows
  <2>. HIDE DEF row, e, marked
  <2>. QED BY <1>0, <2>1, <2>2, <2>3
<1>8. CASE \/ FindNothing \/ SetOut \/ ExitLoopEnds \/ NoFutureEntry \/ MarkAttempted
           \/ SendSlice \/ SliceAnswered \/ SliceRaises
  BY <1>8, <1>0, NoRowTyped DEF FindNothing, Others, Goto, locals, SetOut, Rest, ExitLoopEnds,
     NoFutureEntry, MarkAttempted, SendSlice, SliceAnswered, EntryAnswered, SliceRaises
<1>9. CASE \/ SaveConfig \/ McxOut \/ KeepMcxRow
  BY <1>9, <1>0, NoRowTyped DEF SaveConfig, Others, NextRow, Goto, McxOut, KeepMcxRow
<1>10. ASSUME NEW side \in case.sides, EnterFuture(side, case.slices) PROVE mem' \in [Entries -> Rows]
  <2>0. case.slices \in Nat /\ side \in Sides
    BY CaseFacts, EntryNat DEF IInv
  <2>1. [NoRow EXCEPT !.net = case.slices, !.side = side] \in Rows
    BY <2>0 DEF NoRow, Rows
  <2>2. First(New) \in Entries
    BY <1>10, NewIn DEF EnterFuture, IInv
  <2>. QED BY <1>10, <2>1, <2>2, NoRowTyped DEF EnterFuture
<1>11. CASE \/ LookUpPrice \/ InsertFuture \/ SettleFuture \/ FailFuture
  BY <1>11, <1>0, NoRowTyped DEF LookUpPrice, Others, Goto, locals, InsertFuture, SettleFuture,
     Rest, FailFuture
<1>12. CASE \/ SaveSteps \/ SymbolAdded \/ PassSymbol \/ InsertEquity \/ SettleEquity
            \/ SendEquity \/ SymbolsEnd \/ NothingToExit
  BY <1>12, <1>0, NoRowTyped DEF SaveSteps, Others, SymbolAdded, Rest, PassSymbol,
     InsertEquity, Goto, locals, SettleEquity, SendEquity, SymbolsEnd, NothingToExit
<1>13. CASE EnterEquity
  <2>1. First(left) \in Kinds
    BY <1>13, FirstIn DEF EnterEquity, TypeOK, IInv
  <2>2. [NoRow EXCEPT !.status = "open", !.net = 1, !.kind = First(left)] \in Rows
    BY <2>1 DEF NoRow, Rows
  <2>3. First(New) \in Entries
    BY <1>13, NewIn DEF EnterEquity, IInv
  <2>. QED BY <1>13, <2>2, <2>3, NoRowTyped DEF EnterEquity
<1>14. CASE SaveExitSteps
  BY <1>14, <1>0, NoRowTyped DEF SaveExitSteps, Others, Goto, locals
<1>15. CASE \/ NoMcxRow \/ McxManaged \/ ExitMcx \/ ExitMcxAnswered \/ ExitMcxRaises
            \/ CloseMcxRow \/ NoMcxEntry
            \/ SendMcx \/ InsertMcx
  BY <1>15, <1>0, NoRowTyped DEF NoMcxRow, Others, Goto, locals, McxManaged, ExitMcx,
     ExitMcxAnswered, ExitMcxRaises, Rest, CloseMcxRow, NoMcxEntry, SendMcx, EntryAnswered,
     InsertMcx
<1>16. ASSUME NEW side \in case.sides, EnterMcx(side) PROVE mem' \in [Entries -> Rows]
  <2>1. copy.contract \in Kinds /\ side \in Sides
    BY CaseFacts DEF TypeOK, Strategies, IInv
  <2>2. [NoRow EXCEPT !.status = "open", !.net = 1, !.kind = copy.contract, !.side = side] \in Rows
    BY <2>1 DEF NoRow, Rows
  <2>3. First(New) \in Entries
    BY <1>16, NewIn DEF EnterMcx, IInv
  <2>. QED BY <1>16, <2>2, <2>3, NoRowTyped DEF EnterMcx
<1>17. CASE SettleMcx
  BY <1>17, <1>0, NoRowTyped DEF SettleMcx, Others, Rest, Goto
<1>18. CASE \/ WindowPasses \/ Scan \/ ReadStrategy \/ RepairPosition \/ WriteBack
  BY <1>18, <1>0, NoRowTyped DEF WindowPasses, engine, locals, Scan, Refreshing, ReadStrategy,
     RepairPosition, WriteBack
<1>19. CASE \/ Retire \/ MarkExit \/ ReadToStart \/ CommitStart \/ ReadToEdit \/ CommitEdit
            \/ ExitPosition
  BY <1>19, <1>0, NoRowTyped DEF Retire, Requesting, engine, locals, MarkExit, ReadToStart,
     CommitStart, ReadToEdit, CommitEdit, ExitPosition
<1>20. CASE Crash
  BY <1>20, NoRowTyped DEF Crash, Goto
<1>21. CASE Restart
  BY <1>21, <1>0, NoRowTyped DEF Restart, Others, Goto, locals
<1>. QED BY <1>1, <1>2, <1>3, <1>4, <1>5, <1>6, <1>7, <1>8, <1>9, <1>10, <1>11, <1>12, <1>13,
   <1>14, <1>15, <1>16, <1>17, <1>18, <1>19, <1>20, <1>21, <1>22 DEF Next, Round, FuturesRound,
   EquityRound, McxRound, Refresher, Request

\* Every step leaves the refresher's copies of the rows well typed.
LEMMA SnapshotStep ==
  ASSUME IInv, Next
  PROVE  rcopy' \in [Entries -> Rows]
<1>0. /\ rows \in [Entries -> Rows] /\ rcopy \in [Entries -> Rows]
      /\ rpc # "idle" => First(rtodo) \in Entries
  BY TodoIn DEF TypeOK, IInv, Places
<1>1. CASE \/ Load \/ Find("loop") \/ KeepRow \/ SaveRow
           \/ (\E k \in 0 .. MaxSlices : ExitOrder(k))
           \/ (\E k \in 0 .. MaxSlices : ExitAcknowledged(k))
           \/ (\E k \in 0 .. MaxSlices : ExitRaises(k)) \/ ExitAnswered \/ ExitBlocked
  BY <1>1, <1>0 DEF Load, Others, Goto, Find, KeepRow, PutRow, NextRow, SaveRow, Rest, locals,
     ExitOrder, ExitAcknowledged, ExitRaises, ExitAnswered, ExitBlocked, refresher
<1>2. CASE \/ FindNothing \/ SetOut \/ SaveConfig \/ ExitLoopEnds \/ NoFutureEntry
           \/ (\E side \in case.sides : EnterFuture(side, case.slices)) \/ MarkAttempted
           \/ SendSlice
  BY <1>2, <1>0 DEF FindNothing, Others, Goto, locals, SetOut, Rest, SaveConfig, NextRow,
     ExitLoopEnds, NoFutureEntry, EnterFuture, MarkAttempted, SendSlice, refresher
<1>3. CASE \/ SliceAnswered \/ SliceRaises \/ LookUpPrice \/ InsertFuture \/ SettleFuture
           \/ FailFuture
  BY <1>3, <1>0 DEF SliceAnswered, EntryAnswered, Others, Goto, SliceRaises, locals,
     LookUpPrice, InsertFuture, SettleFuture, Rest, FailFuture, refresher
<1>4. CASE \/ SaveSteps \/ SymbolAdded \/ PassSymbol \/ EnterEquity \/ InsertEquity
           \/ SettleEquity \/ SendEquity \/ SymbolsEnd
  BY <1>4, <1>0 DEF SaveSteps, Others, SymbolAdded, Rest, PassSymbol, EnterEquity, Goto,
     InsertEquity, locals, SettleEquity, SendEquity, SymbolsEnd, refresher
<1>5. CASE \/ NothingToExit \/ SaveExitSteps
  BY <1>5, <1>0 DEF NothingToExit, Others, Rest, SaveExitSteps, Goto, locals, refresher
<1>6. CASE \/ NoMcxRow \/ McxManaged \/ KeepMcxRow \/ ExitMcx \/ ExitMcxAnswered
           \/ ExitMcxRaises \/ CloseMcxRow
           \/ McxOut \/ NoMcxEntry
  BY <1>6, <1>0 DEF NoMcxRow, Others, Goto, locals, McxManaged, KeepMcxRow, NextRow, ExitMcx,
     ExitMcxAnswered, ExitMcxRaises, Rest, CloseMcxRow, McxOut, NoMcxEntry, refresher
<1>7. CASE \/ (\E side \in case.sides : EnterMcx(side)) \/ SendMcx \/ InsertMcx \/ SettleMcx
  BY <1>7, <1>0 DEF EnterMcx, Others, Goto, SendMcx, EntryAnswered, Rest, locals, InsertMcx,
     SettleMcx, refresher
<1>8. CASE \/ WindowPasses \/ RepairPosition
  BY <1>8, <1>0 DEF WindowPasses, engine, locals, RepairPosition, Refreshing, refresher
<1>9. CASE \/ Scan \/ WriteBack
  BY <1>9, <1>0, NoRowTyped DEF Scan, Refreshing, engine, locals, WriteBack, refresher
<1>10. CASE ReadStrategy
  <2>. DEFINE d == IF strat.status = "opened" THEN rcopy[First(rtodo)].decision ELSE "exitit"
              row == [rcopy[First(rtodo)] EXCEPT !.decision = d]
  <2>1. First(rtodo) \in Entries /\ rcopy[First(rtodo)] \in Rows
    BY <1>10, <1>0 DEF ReadStrategy
  <2>2. d \in {"intrade", "exitit"}
    BY <2>1 DEF Rows
  <2>3. rcopy' = [rcopy EXCEPT ![First(rtodo)] = row]
    BY <1>10, <1>0, <2>1 DEF ReadStrategy
  <2>. HIDE DEF d
  <2>4. row \in Rows
    BY <2>1, <2>2 DEF Rows
  <2>. HIDE DEF row
  <2>. QED BY <1>0, <2>1, <2>3, <2>4
<1>11. CASE \/ Retire \/ MarkExit \/ ReadToStart \/ CommitStart \/ ReadToEdit \/ CommitEdit
            \/ ExitPosition
  BY <1>11, <1>0 DEF Retire, Requesting, engine, locals, MarkExit, ReadToStart, CommitStart,
     ReadToEdit, CommitEdit, ExitPosition, refresher
<1>12. CASE Crash
  BY <1>12, NoRowTyped DEF Crash, Goto, refresher
<1>13. CASE Restart
  BY <1>13, <1>0 DEF Restart, Others, Goto, locals, refresher
<1>. QED BY <1>1, <1>2, <1>3, <1>4, <1>5, <1>6, <1>7, <1>8, <1>9, <1>10, <1>11, <1>12, <1>13
   DEF Next, Round, FuturesRound, EquityRound, McxRound, Refresher, Request

\* The rows still to visit are rows of entries.
LEMMA VisitsTyped ==
  ASSUME TypeOK, Next
  PROVE  todo' \subseteq Entries /\ rtodo' \subseteq Entries
<1>0. todo \subseteq Entries /\ rtodo \subseteq Entries /\ Open(rows) \subseteq Entries
  BY DEF TypeOK, Open
<1>1. CASE \/ Load \/ Find("loop") \/ KeepRow \/ SaveRow
           \/ (\E k \in 0 .. MaxSlices : ExitOrder(k))
           \/ (\E k \in 0 .. MaxSlices : ExitAcknowledged(k))
           \/ (\E k \in 0 .. MaxSlices : ExitRaises(k)) \/ ExitAnswered \/ ExitBlocked
  BY <1>1, <1>0 DEF Load, Others, Goto, Find, KeepRow, PutRow, NextRow, SaveRow, Rest, locals,
     ExitOrder, ExitAcknowledged, ExitRaises, ExitAnswered, ExitBlocked, refresher
<1>2. CASE \/ FindNothing \/ SetOut \/ SaveConfig \/ ExitLoopEnds \/ NoFutureEntry
           \/ (\E side \in case.sides : EnterFuture(side, case.slices)) \/ MarkAttempted
           \/ SendSlice
  BY <1>2, <1>0 DEF FindNothing, Others, Goto, locals, SetOut, Rest, SaveConfig, NextRow,
     ExitLoopEnds, NoFutureEntry, EnterFuture, MarkAttempted, SendSlice, refresher
<1>3. CASE \/ SliceAnswered \/ SliceRaises \/ LookUpPrice \/ InsertFuture \/ SettleFuture
           \/ FailFuture
  BY <1>3, <1>0 DEF SliceAnswered, EntryAnswered, Others, Goto, SliceRaises, locals,
     LookUpPrice, InsertFuture, SettleFuture, Rest, FailFuture, refresher
<1>4. CASE \/ SaveSteps \/ SymbolAdded \/ PassSymbol \/ EnterEquity \/ InsertEquity
           \/ SettleEquity \/ SendEquity \/ SymbolsEnd
  BY <1>4, <1>0 DEF SaveSteps, Others, SymbolAdded, Rest, PassSymbol, EnterEquity, Goto,
     InsertEquity, locals, SettleEquity, SendEquity, SymbolsEnd, refresher
<1>5. CASE \/ NothingToExit \/ SaveExitSteps
  BY <1>5, <1>0 DEF NothingToExit, Others, Rest, SaveExitSteps, Goto, locals, refresher
<1>6. CASE \/ NoMcxRow \/ McxManaged \/ KeepMcxRow \/ ExitMcx \/ ExitMcxAnswered
           \/ ExitMcxRaises \/ CloseMcxRow
           \/ McxOut \/ NoMcxEntry
  BY <1>6, <1>0 DEF NoMcxRow, Others, Goto, locals, McxManaged, KeepMcxRow, NextRow, ExitMcx,
     ExitMcxAnswered, ExitMcxRaises, Rest, CloseMcxRow, McxOut, NoMcxEntry, refresher
<1>7. CASE \/ (\E side \in case.sides : EnterMcx(side)) \/ SendMcx \/ InsertMcx \/ SettleMcx
  BY <1>7, <1>0 DEF EnterMcx, Others, Goto, SendMcx, EntryAnswered, Rest, locals, InsertMcx,
     SettleMcx, refresher
<1>8. CASE \/ WindowPasses \/ Scan \/ ReadStrategy \/ RepairPosition \/ WriteBack
  BY <1>8, <1>0 DEF WindowPasses, engine, locals, Scan, Refreshing, ReadStrategy,
     RepairPosition, WriteBack, refresher
<1>9. CASE \/ Retire \/ MarkExit \/ ReadToStart \/ CommitStart \/ ReadToEdit \/ CommitEdit
           \/ ExitPosition
  BY <1>9, <1>0 DEF Retire, Requesting, engine, locals, MarkExit, ReadToStart, CommitStart,
     ReadToEdit, CommitEdit, ExitPosition, refresher
<1>10. CASE \/ Crash \/ Restart
  BY <1>10, <1>0 DEF Crash, Goto, Restart, Others, locals, refresher
<1>. QED BY <1>1, <1>2, <1>3, <1>4, <1>5, <1>6, <1>7, <1>8, <1>9, <1>10 DEF Next, Round,
   FuturesRound, EquityRound, McxRound, Refresher, Request

\* The entry under way is an entry.
LEMMA EntryTyped ==
  ASSUME TypeOK, Next
  PROVE  cur' \in Entries /\ bad' \in BOOLEAN /\ left' \subseteq Kinds
<1>0. cur \in Entries /\ bad \in BOOLEAN /\ left \subseteq Kinds /\ 1 \in Entries
      /\ (New # {} => First(New) \in Entries)
  BY NewIn, EntryNat DEF TypeOK
<1>1. CASE \/ Load \/ Find("loop") \/ KeepRow \/ SaveRow
           \/ (\E k \in 0 .. MaxSlices : ExitOrder(k))
           \/ (\E k \in 0 .. MaxSlices : ExitAcknowledged(k))
           \/ (\E k \in 0 .. MaxSlices : ExitRaises(k)) \/ ExitAnswered \/ ExitBlocked
  BY <1>1, <1>0 DEF Load, Others, Goto, Find, KeepRow, PutRow, NextRow, SaveRow, Rest, locals,
     ExitOrder, ExitAcknowledged, ExitRaises, ExitAnswered, ExitBlocked
<1>2. CASE \/ FindNothing \/ SetOut \/ SaveConfig \/ ExitLoopEnds \/ NoFutureEntry
           \/ (\E side \in case.sides : EnterFuture(side, case.slices)) \/ MarkAttempted
           \/ SendSlice
  BY <1>2, <1>0 DEF FindNothing, Others, Goto, locals, SetOut, Rest, SaveConfig, NextRow,
     ExitLoopEnds, NoFutureEntry, EnterFuture, MarkAttempted, SendSlice
<1>3. CASE \/ SliceAnswered \/ SliceRaises \/ LookUpPrice \/ InsertFuture \/ SettleFuture
           \/ FailFuture
  BY <1>3, <1>0 DEF SliceAnswered, EntryAnswered, Others, Goto, SliceRaises, locals,
     LookUpPrice, InsertFuture, SettleFuture, Rest, FailFuture
<1>4. CASE \/ SaveSteps \/ SymbolAdded \/ EnterEquity \/ InsertEquity \/ SymbolsEnd
           \/ NothingToExit \/ SaveExitSteps
  BY <1>4, <1>0 DEF SaveSteps, Others, SymbolAdded, Rest, EnterEquity, Goto, InsertEquity,
     locals, SymbolsEnd, NothingToExit, SaveExitSteps
<1>5. CASE \/ PassSymbol \/ SettleEquity \/ SendEquity
  BY <1>5, <1>0 DEF PassSymbol, Others, SettleEquity, Goto, SendEquity, NextSymbol
<1>6. CASE \/ NoMcxRow \/ McxManaged \/ KeepMcxRow \/ ExitMcx \/ ExitMcxAnswered
           \/ ExitMcxRaises \/ CloseMcxRow
           \/ McxOut \/ NoMcxEntry
  BY <1>6, <1>0 DEF NoMcxRow, Others, Goto, locals, McxManaged, KeepMcxRow, NextRow, ExitMcx,
     ExitMcxAnswered, ExitMcxRaises, Rest, CloseMcxRow, McxOut, NoMcxEntry
<1>7. CASE \/ (\E side \in case.sides : EnterMcx(side)) \/ SendMcx \/ InsertMcx \/ SettleMcx
  BY <1>7, <1>0 DEF EnterMcx, Others, Goto, SendMcx, EntryAnswered, Rest, locals, InsertMcx,
     SettleMcx
<1>8. CASE \/ WindowPasses \/ Scan \/ ReadStrategy \/ RepairPosition \/ WriteBack
  BY <1>8, <1>0 DEF WindowPasses, engine, locals, Scan, Refreshing, ReadStrategy,
     RepairPosition, WriteBack
<1>9. CASE \/ Retire \/ MarkExit \/ ReadToStart \/ CommitStart \/ ReadToEdit \/ CommitEdit
           \/ ExitPosition
  BY <1>9, <1>0 DEF Retire, Requesting, engine, locals, MarkExit, ReadToStart, CommitStart,
     ReadToEdit, CommitEdit, ExitPosition
<1>10. CASE \/ Crash \/ Restart
  BY <1>10, <1>0 DEF Crash, Goto, Restart, Others, locals
<1>. QED BY <1>1, <1>2, <1>3, <1>4, <1>5, <1>6, <1>7, <1>8, <1>9, <1>10 DEF Next, Round,
   FuturesRound, EquityRound, McxRound, Refresher, Request

\* The case never changes, and the engine is at a step of the code.
LEMMA PlaceTyped ==
  ASSUME TypeOK, Next
  PROVE  case' = case /\ pc' \in PCs
<1>0. pc \in PCs
  BY DEF TypeOK
<1>1. CASE \/ Load \/ Find("loop") \/ KeepRow \/ SaveRow
           \/ (\E k \in 0 .. MaxSlices : ExitOrder(k))
           \/ (\E k \in 0 .. MaxSlices : ExitAcknowledged(k))
           \/ (\E k \in 0 .. MaxSlices : ExitRaises(k)) \/ ExitAnswered \/ ExitBlocked
  BY <1>1, <1>0 DEF Load, Others, Goto, Find, KeepRow, PutRow, NextRow, SaveRow, Rest, locals,
     ExitOrder, ExitAcknowledged, ExitRaises, ExitAnswered, ExitBlocked, PCs
<1>2. CASE \/ FindNothing \/ SetOut \/ SaveConfig \/ ExitLoopEnds \/ NoFutureEntry
           \/ (\E side \in case.sides : EnterFuture(side, case.slices)) \/ MarkAttempted
           \/ SliceRaises
  BY <1>2, <1>0 DEF FindNothing, Others, Goto, locals, SetOut, Rest, SaveConfig, NextRow,
     ExitLoopEnds, NoFutureEntry, EnterFuture, MarkAttempted, SliceRaises, PCs
<1>3. CASE \/ SendSlice \/ SliceAnswered
  BY <1>3, <1>0 DEF SendSlice, Others, Goto, SliceAnswered, EntryAnswered, AfterOrders, PCs
<1>4. CASE \/ LookUpPrice \/ InsertFuture \/ SettleFuture \/ FailFuture
  BY <1>4, <1>0 DEF LookUpPrice, Others, Goto, locals, InsertFuture, SettleFuture, Rest,
     FailFuture, PCs
<1>5. CASE \/ SaveSteps \/ SymbolAdded \/ PassSymbol \/ EnterEquity \/ InsertEquity
           \/ SettleEquity \/ SendEquity \/ SymbolsEnd
  BY <1>5, <1>0 DEF SaveSteps, Others, SymbolAdded, Rest, PassSymbol, EnterEquity, Goto,
     InsertEquity, locals, SettleEquity, SendEquity, SymbolsEnd, PCs
<1>6. CASE \/ NothingToExit \/ SaveExitSteps
  BY <1>6, <1>0 DEF NothingToExit, Others, Rest, SaveExitSteps, Goto, locals, PCs
<1>7. CASE \/ NoMcxRow \/ McxManaged \/ KeepMcxRow \/ ExitMcx \/ ExitMcxAnswered
           \/ ExitMcxRaises \/ CloseMcxRow
           \/ McxOut \/ NoMcxEntry
  BY <1>7, <1>0 DEF NoMcxRow, Others, Goto, locals, McxManaged, KeepMcxRow, NextRow, ExitMcx,
     ExitMcxAnswered, ExitMcxRaises, Rest, CloseMcxRow, McxOut, NoMcxEntry, PCs
<1>8. CASE \/ (\E side \in case.sides : EnterMcx(side)) \/ SendMcx \/ InsertMcx \/ SettleMcx
  BY <1>8, <1>0 DEF EnterMcx, Others, Goto, SendMcx, EntryAnswered, Rest, locals, InsertMcx,
     SettleMcx, PCs
<1>9. CASE \/ WindowPasses \/ Scan \/ ReadStrategy \/ RepairPosition \/ WriteBack
  BY <1>9, <1>0 DEF WindowPasses, engine, locals, Scan, Refreshing, ReadStrategy,
     RepairPosition, WriteBack, PCs
<1>10. CASE \/ Retire \/ MarkExit \/ ReadToStart \/ CommitStart \/ ReadToEdit \/ CommitEdit
            \/ ExitPosition
  BY <1>10, <1>0 DEF Retire, Requesting, engine, locals, MarkExit, ReadToStart, CommitStart,
     ReadToEdit, CommitEdit, ExitPosition, PCs
<1>11. CASE \/ Crash \/ Restart
  BY <1>11, <1>0 DEF Crash, Goto, Restart, Others, locals, PCs
<1>. QED BY <1>1, <1>2, <1>3, <1>4, <1>5, <1>6, <1>7, <1>8, <1>9, <1>10, <1>11 DEF Next,
   Round, FuturesRound, EquityRound, McxRound, Refresher, Request

\* The histories are about entries.
LEMMA HistoryTyped ==
  ASSUME IInv, Next
  PROVE  unseen' \subseteq Entries /\ phantom' \subseteq Entries
<1>0. /\ unseen \subseteq Entries /\ phantom \subseteq Entries /\ cur \in Entries
      /\ Open(rows) \subseteq Entries
      /\ todo # {} => First(todo) \in Entries
      /\ pc \in {"save", "steps"} => todo # {}
      /\ rpc # "idle" => First(rtodo) \in Entries
  BY TodoIn DEF IInv, TypeOK, Open, Places, AtRow
<1>1. CASE \/ Load \/ Find("loop")
  BY <1>1, <1>0 DEF Load, Others, Goto, Find, history, market
<1>2. CASE \/ KeepRow \/ SaveRow \/ WriteBack
  BY <1>2, <1>0 DEF KeepRow, Others, PutRow, NextRow, SaveRow, Rest, Goto, locals, WriteBack,
     Refreshing, engine, history, market
<1>3. CASE \/ (\E k \in 0 .. MaxSlices : ExitOrder(k))
           \/ (\E k \in 0 .. MaxSlices : ExitAcknowledged(k))
           \/ (\E k \in 0 .. MaxSlices : ExitRaises(k)) \/ ExitAnswered \/ ExitBlocked
  BY <1>3, <1>0 DEF ExitOrder, Others, Goto, ExitAcknowledged, ExitRaises, Rest, ExitAnswered,
     ExitBlocked, history, market, AtExit
<1>4. CASE \/ FindNothing \/ SetOut \/ SaveConfig \/ ExitLoopEnds \/ NoFutureEntry
           \/ (\E side \in case.sides : EnterFuture(side, case.slices)) \/ MarkAttempted
           \/ SendSlice
  BY <1>4, <1>0 DEF FindNothing, Others, Goto, locals, SetOut, Rest, SaveConfig, NextRow,
     ExitLoopEnds, NoFutureEntry, EnterFuture, MarkAttempted, SendSlice, history, market
<1>5. CASE \/ SliceAnswered \/ InsertFuture \/ SettleFuture \/ FailFuture
  BY <1>5, <1>0 DEF SliceAnswered, EntryAnswered, Others, Goto, InsertFuture, locals,
     SettleFuture, Rest, FailFuture, history, market
<1>6. CASE \/ SliceRaises \/ LookUpPrice
  BY <1>6, <1>0 DEF SliceRaises, Others, Goto, locals, LookUpPrice, history, market, LosesSight
<1>7. CASE \/ SaveSteps \/ SymbolAdded \/ PassSymbol \/ EnterEquity \/ InsertEquity
           \/ SettleEquity \/ SendEquity \/ SymbolsEnd
  BY <1>7, <1>0 DEF SaveSteps, Others, SymbolAdded, Rest, PassSymbol, EnterEquity, Goto,
     InsertEquity, locals, SettleEquity, SendEquity, SymbolsEnd, history, market
<1>8. CASE \/ NothingToExit \/ SaveExitSteps
  BY <1>8, <1>0 DEF NothingToExit, Others, Rest, SaveExitSteps, Goto, locals, history, market
<1>9. CASE \/ NoMcxRow \/ McxManaged \/ KeepMcxRow \/ ExitMcx \/ ExitMcxAnswered
           \/ ExitMcxRaises \/ CloseMcxRow
           \/ McxOut \/ NoMcxEntry
  BY <1>9, <1>0 DEF NoMcxRow, Others, Goto, locals, McxManaged, KeepMcxRow, NextRow, ExitMcx,
     ExitMcxAnswered, ExitMcxRaises, Rest, CloseMcxRow, McxOut, NoMcxEntry, history, market,
     AtMcxExit
<1>10. CASE \/ (\E side \in case.sides : EnterMcx(side)) \/ SendMcx \/ InsertMcx \/ SettleMcx
  BY <1>10, <1>0 DEF EnterMcx, Others, Goto, SendMcx, EntryAnswered, Rest, locals, InsertMcx,
     SettleMcx, history, market
<1>11. CASE \/ WindowPasses \/ Scan \/ ReadStrategy \/ RepairPosition
  BY <1>11, <1>0 DEF WindowPasses, engine, locals, Scan, Refreshing, ReadStrategy,
     RepairPosition, history, market
<1>12. CASE \/ Retire \/ MarkExit \/ ReadToStart \/ ReadToEdit \/ ExitPosition
  BY <1>12, <1>0 DEF Retire, Requesting, engine, locals, MarkExit, ReadToStart, ReadToEdit,
     ExitPosition, history, market
<1>13. CASE \/ CommitStart \/ CommitEdit
  <2>1. unseen' \in {unseen, unseen \cup Open(rows)} /\ phantom' = phantom
    BY <1>13 DEF CommitStart, CommitEdit, Displaces
  <2>. QED BY <2>1, <1>0
<1>14. CASE Crash
  <2>1. unseen' \in {unseen, unseen \cup {cur}}
    BY <1>14 DEF Crash, CutOff
  <2>2. phantom' = phantom \/ (phantom' = phantom \cup {cur} /\ Entering)
          \/ (phantom' = phantom \cup {First(todo)} /\ Exiting)
    BY <1>14 DEF Crash, CutOff, Exiting, Entering
  <2>. QED BY <2>1, <2>2, <1>0 DEF Exiting
<1>15. CASE Restart
  BY <1>15, <1>0 DEF Restart, Others, Goto, locals, history, market
<1>. QED BY <1>1, <1>2, <1>3, <1>4, <1>5, <1>6, <1>7, <1>8, <1>9, <1>10, <1>11, <1>12, <1>13,
   <1>14, <1>15 DEF Next, Round, FuturesRound, EquityRound, McxRound, Refresher, Request

\* The refresher is at a step of its code.
LEMMA RefresherTyped ==
  ASSUME TypeOK, Next
  PROVE  rpc' \in {"idle", "read", "repair", "write"}
<1>0. rpc \in {"idle", "read", "repair", "write"}
  BY DEF TypeOK
<1>1. CASE \/ Load \/ Find("loop") \/ KeepRow \/ SaveRow
           \/ (\E k \in 0 .. MaxSlices : ExitOrder(k))
           \/ (\E k \in 0 .. MaxSlices : ExitAcknowledged(k))
           \/ (\E k \in 0 .. MaxSlices : ExitRaises(k)) \/ ExitAnswered \/ ExitBlocked
  BY <1>1, <1>0 DEF Load, Others, Goto, Find, KeepRow, PutRow, NextRow, SaveRow, Rest, locals,
     ExitOrder, ExitAcknowledged, ExitRaises, ExitAnswered, ExitBlocked, refresher
<1>2. CASE \/ FindNothing \/ SetOut \/ SaveConfig \/ ExitLoopEnds \/ NoFutureEntry
           \/ (\E side \in case.sides : EnterFuture(side, case.slices)) \/ MarkAttempted
           \/ SendSlice
  BY <1>2, <1>0 DEF FindNothing, Others, Goto, locals, SetOut, Rest, SaveConfig, NextRow,
     ExitLoopEnds, NoFutureEntry, EnterFuture, MarkAttempted, SendSlice, refresher
<1>3. CASE \/ SliceAnswered \/ SliceRaises \/ LookUpPrice \/ InsertFuture \/ SettleFuture
           \/ FailFuture
  BY <1>3, <1>0 DEF SliceAnswered, EntryAnswered, Others, Goto, SliceRaises, locals,
     LookUpPrice, InsertFuture, SettleFuture, Rest, FailFuture, refresher
<1>4. CASE \/ SaveSteps \/ SymbolAdded \/ PassSymbol \/ EnterEquity \/ InsertEquity
           \/ SettleEquity \/ SendEquity \/ SymbolsEnd
  BY <1>4, <1>0 DEF SaveSteps, Others, SymbolAdded, Rest, PassSymbol, EnterEquity, Goto,
     InsertEquity, locals, SettleEquity, SendEquity, SymbolsEnd, refresher
<1>5. CASE \/ NothingToExit \/ SaveExitSteps
  BY <1>5, <1>0 DEF NothingToExit, Others, Rest, SaveExitSteps, Goto, locals, refresher
<1>6. CASE \/ NoMcxRow \/ McxManaged \/ KeepMcxRow \/ ExitMcx \/ ExitMcxAnswered
           \/ ExitMcxRaises \/ CloseMcxRow
           \/ McxOut \/ NoMcxEntry
  BY <1>6, <1>0 DEF NoMcxRow, Others, Goto, locals, McxManaged, KeepMcxRow, NextRow, ExitMcx,
     ExitMcxAnswered, ExitMcxRaises, Rest, CloseMcxRow, McxOut, NoMcxEntry, refresher
<1>7. CASE \/ (\E side \in case.sides : EnterMcx(side)) \/ SendMcx \/ InsertMcx \/ SettleMcx
  BY <1>7, <1>0 DEF EnterMcx, Others, Goto, SendMcx, EntryAnswered, Rest, locals, InsertMcx,
     SettleMcx, refresher
<1>8. CASE \/ WindowPasses \/ Scan \/ ReadStrategy \/ RepairPosition \/ WriteBack
  BY <1>8, <1>0 DEF WindowPasses, engine, locals, Scan, Refreshing, ReadStrategy,
     RepairPosition, WriteBack, refresher
<1>9. CASE \/ Retire \/ MarkExit \/ ReadToStart \/ CommitStart \/ ReadToEdit \/ CommitEdit
           \/ ExitPosition
  BY <1>9, <1>0 DEF Retire, Requesting, engine, locals, MarkExit, ReadToStart, CommitStart,
     ReadToEdit, CommitEdit, ExitPosition, refresher
<1>10. CASE \/ Crash \/ Restart
  BY <1>10, <1>0 DEF Crash, Goto, Restart, Others, locals, refresher
<1>. QED BY <1>1, <1>2, <1>3, <1>4, <1>5, <1>6, <1>7, <1>8, <1>9, <1>10 DEF Next, Round,
   FuturesRound, EquityRound, McxRound, Refresher, Request

\* Requests and deaths stay within the bound of the case.
LEMMA UpsetsTyped ==
  ASSUME TypeOK, Next
  PROVE  upsets' \in 0 .. case.upsets
<1>0. upsets \in 0 .. case.upsets /\ case.upsets \in Nat
  BY CaseFacts DEF TypeOK
<1>1. CASE \/ Load \/ Find("loop") \/ KeepRow \/ SaveRow
           \/ (\E k \in 0 .. MaxSlices : ExitOrder(k))
           \/ (\E k \in 0 .. MaxSlices : ExitAcknowledged(k))
           \/ (\E k \in 0 .. MaxSlices : ExitRaises(k)) \/ ExitAnswered \/ ExitBlocked
  BY <1>1, <1>0 DEF Load, Others, Goto, Find, KeepRow, PutRow, NextRow, SaveRow, Rest, locals,
     ExitOrder, ExitAcknowledged, ExitRaises, ExitAnswered, ExitBlocked
<1>2. CASE \/ FindNothing \/ SetOut \/ SaveConfig \/ ExitLoopEnds \/ NoFutureEntry
           \/ (\E side \in case.sides : EnterFuture(side, case.slices)) \/ MarkAttempted
           \/ SendSlice
  BY <1>2, <1>0 DEF FindNothing, Others, Goto, locals, SetOut, Rest, SaveConfig, NextRow,
     ExitLoopEnds, NoFutureEntry, EnterFuture, MarkAttempted, SendSlice
<1>3. CASE \/ SliceAnswered \/ SliceRaises \/ LookUpPrice \/ InsertFuture \/ SettleFuture
           \/ FailFuture
  BY <1>3, <1>0 DEF SliceAnswered, EntryAnswered, Others, Goto, SliceRaises, locals,
     LookUpPrice, InsertFuture, SettleFuture, Rest, FailFuture
<1>4. CASE \/ SaveSteps \/ SymbolAdded \/ PassSymbol \/ EnterEquity \/ InsertEquity
           \/ SettleEquity \/ SendEquity \/ SymbolsEnd
  BY <1>4, <1>0 DEF SaveSteps, Others, SymbolAdded, Rest, PassSymbol, EnterEquity, Goto,
     InsertEquity, locals, SettleEquity, SendEquity, SymbolsEnd
<1>5. CASE \/ NothingToExit \/ SaveExitSteps
  BY <1>5, <1>0 DEF NothingToExit, Others, Rest, SaveExitSteps, Goto, locals
<1>6. CASE \/ NoMcxRow \/ McxManaged \/ KeepMcxRow \/ ExitMcx \/ ExitMcxAnswered
           \/ ExitMcxRaises \/ CloseMcxRow
           \/ McxOut \/ NoMcxEntry
  BY <1>6, <1>0 DEF NoMcxRow, Others, Goto, locals, McxManaged, KeepMcxRow, NextRow, ExitMcx,
     ExitMcxAnswered, ExitMcxRaises, Rest, CloseMcxRow, McxOut, NoMcxEntry
<1>7. CASE \/ (\E side \in case.sides : EnterMcx(side)) \/ SendMcx \/ InsertMcx \/ SettleMcx
  BY <1>7, <1>0 DEF EnterMcx, Others, Goto, SendMcx, EntryAnswered, Rest, locals, InsertMcx,
     SettleMcx
<1>8. CASE \/ WindowPasses \/ Scan \/ ReadStrategy \/ RepairPosition \/ WriteBack
  BY <1>8, <1>0 DEF WindowPasses, engine, locals, Scan, Refreshing, ReadStrategy,
     RepairPosition, WriteBack
<1>9. CASE \/ Retire \/ ReadToEdit \/ ExitPosition
  <2>1. Upset
    BY <1>9 DEF Retire, ReadToEdit, ExitPosition
  <2>. QED BY <2>1, <1>0 DEF Upset
<1>10. CASE \/ MarkExit \/ ReadToStart \/ CommitStart \/ CommitEdit
  BY <1>10, <1>0 DEF MarkExit, Requesting, engine, locals, ReadToStart, CommitStart, CommitEdit
<1>11. CASE Crash
  BY <1>11, <1>0 DEF Crash, Goto, Upset
<1>12. CASE Restart
  BY <1>12, <1>0 DEF Restart, Others, Goto, locals
<1>. QED BY <1>1, <1>2, <1>3, <1>4, <1>5, <1>6, <1>7, <1>8, <1>9, <1>10, <1>11, <1>12 DEF
   Next, Round, FuturesRound, EquityRound, McxRound, Refresher, Request

\* A request between two operations is well typed.
LEMMA RequestTyped ==
  ASSUME TypeOK, Next
  PROVE  req' \in [op : {"none", "mark", "start", "edit"}, status : Statuses,
                  position : {"in", "out"}, contract : Kinds, clear : BOOLEAN]
<1>0. /\ strat \in Strategies
      /\ req \in [op : {"none", "mark", "start", "edit"}, status : Statuses,
                  position : {"in", "out"}, contract : Kinds, clear : BOOLEAN]
      /\ NoRequest \in [op : {"none", "mark", "start", "edit"}, status : Statuses,
                  position : {"in", "out"}, contract : Kinds, clear : BOOLEAN]
  BY DEF TypeOK, NoRequest
<1>1. CASE \/ Load \/ Find("loop") \/ KeepRow \/ SaveRow
           \/ (\E k \in 0 .. MaxSlices : ExitOrder(k))
           \/ (\E k \in 0 .. MaxSlices : ExitAcknowledged(k))
           \/ (\E k \in 0 .. MaxSlices : ExitRaises(k)) \/ ExitAnswered \/ ExitBlocked
  BY <1>1, <1>0 DEF Load, Others, Goto, Find, KeepRow, PutRow, NextRow, SaveRow, Rest, locals,
     ExitOrder, ExitAcknowledged, ExitRaises, ExitAnswered, ExitBlocked
<1>2. CASE \/ FindNothing \/ SetOut \/ SaveConfig \/ ExitLoopEnds \/ NoFutureEntry
           \/ (\E side \in case.sides : EnterFuture(side, case.slices)) \/ MarkAttempted
           \/ SendSlice
  BY <1>2, <1>0 DEF FindNothing, Others, Goto, locals, SetOut, Rest, SaveConfig, NextRow,
     ExitLoopEnds, NoFutureEntry, EnterFuture, MarkAttempted, SendSlice
<1>3. CASE \/ SliceAnswered \/ SliceRaises \/ LookUpPrice \/ InsertFuture \/ SettleFuture
           \/ FailFuture
  BY <1>3, <1>0 DEF SliceAnswered, EntryAnswered, Others, Goto, SliceRaises, locals,
     LookUpPrice, InsertFuture, SettleFuture, Rest, FailFuture
<1>4. CASE \/ SaveSteps \/ SymbolAdded \/ PassSymbol \/ EnterEquity \/ InsertEquity
           \/ SettleEquity \/ SendEquity \/ SymbolsEnd
  BY <1>4, <1>0 DEF SaveSteps, Others, SymbolAdded, Rest, PassSymbol, EnterEquity, Goto,
     InsertEquity, locals, SettleEquity, SendEquity, SymbolsEnd
<1>5. CASE \/ NothingToExit \/ SaveExitSteps
  BY <1>5, <1>0 DEF NothingToExit, Others, Rest, SaveExitSteps, Goto, locals
<1>6. CASE \/ NoMcxRow \/ McxManaged \/ KeepMcxRow \/ ExitMcx \/ ExitMcxAnswered
           \/ ExitMcxRaises \/ CloseMcxRow
           \/ McxOut \/ NoMcxEntry
  BY <1>6, <1>0 DEF NoMcxRow, Others, Goto, locals, McxManaged, KeepMcxRow, NextRow, ExitMcx,
     ExitMcxAnswered, ExitMcxRaises, Rest, CloseMcxRow, McxOut, NoMcxEntry
<1>7. CASE \/ (\E side \in case.sides : EnterMcx(side)) \/ SendMcx \/ InsertMcx \/ SettleMcx
  BY <1>7, <1>0 DEF EnterMcx, Others, Goto, SendMcx, EntryAnswered, Rest, locals, InsertMcx,
     SettleMcx
<1>8. CASE \/ WindowPasses \/ Scan \/ ReadStrategy \/ RepairPosition \/ WriteBack
  BY <1>8, <1>0 DEF WindowPasses, engine, locals, Scan, Refreshing, ReadStrategy,
     RepairPosition, WriteBack
<1>9. CASE Retire
  <2>1. req' = [NoRequest EXCEPT !.op = "mark"]
    BY <1>9 DEF Retire
  <2>. QED BY <2>1 DEF NoRequest
<1>10. CASE \/ MarkExit \/ CommitStart \/ CommitEdit \/ ExitPosition
  BY <1>10, <1>0 DEF MarkExit, Requesting, engine, locals, CommitStart, CommitEdit,
     ExitPosition
<1>11. CASE ReadToStart
  <2>. DEFINE b == /\ strat.position # "in"
                   /\ strat.entry \in {"broker_failed", "preflight_failed"}
  <2>1. req' = [NoRequest EXCEPT !.op = "start", !.clear = b]
    BY <1>11 DEF ReadToStart
  <2>2. b \in BOOLEAN
    OBVIOUS
  <2>. HIDE DEF b
  <2>. QED BY <2>1, <2>2 DEF NoRequest
<1>12. CASE ReadToEdit
  <2>1. /\ strat.status \in Statuses /\ strat.position \in {"in", "out"}
        /\ strat.contract \in Kinds
    BY <1>0 DEF Strategies
  <2>2. PICK c \in Kinds : req' = [NoRequest EXCEPT !.op = "edit", !.status = strat.status,
                                    !.position = strat.position, !.contract = c]
    BY <1>12, <2>1 DEF ReadToEdit
  <2>. QED BY <2>1, <2>2 DEF NoRequest
<1>13. CASE \/ Crash \/ Restart
  BY <1>13, <1>0 DEF Crash, Goto, Restart, Others, locals
<1>. QED BY <1>1, <1>2, <1>3, <1>4, <1>5, <1>6, <1>7, <1>8, <1>9, <1>10, <1>11, <1>12, <1>13
   DEF Next, Round, FuturesRound, EquityRound, McxRound, Refresher, Request

\* A trade that leaves room leaves the account well typed.
LEMMA TradeTyped ==
  ASSUME held \in [Entries -> -1 .. MaxSlices], NEW e \in Entries, NEW k \in Int,
         held[e] + k <= MaxSlices, Trade(e, k)
  PROVE  held' \in [Entries -> -1 .. MaxSlices]
<1>. DEFINE v == IF ~live THEN held[e] ELSE IF held[e] + k < -1 THEN -1 ELSE held[e] + k
<1>1. held' = [held EXCEPT ![e] = v]
  BY DEF Trade
<1>2. v \in -1 .. MaxSlices
  BY EntryNat
<1>. HIDE DEF v
<1>. QED BY <1>1, <1>2

\* The account holds less than a full entry when an order of it goes out.
LEMMA RoomToOrder ==
  ASSUME IInv
  PROVE  /\ pc = "send" /\ Futures => held[cur] + 1 <= MaxSlices /\ sent + 1 <= MaxSlices
         /\ pc = "send" => held[cur] + 1 <= MaxSlices
<1>1. /\ cur \in Entries /\ held[cur] \in -1 .. MaxSlices /\ case.slices \in 1 .. MaxSlices
      /\ sent \in 0 .. MaxSlices /\ MaxSlices \in Nat \ {0}
      /\ family \in {"futures", "equity", "mcx"}
  BY EntryNat, CaseFacts DEF IInv, TypeOK
<1>2. /\ pc = "send" /\ Futures => held[cur] <= sent /\ sent < case.slices
      /\ pc = "send" /\ Equity => held[cur] <= 0
      /\ pc = "send" /\ Mcx => held[cur] <= 0
  BY DEF IInv, Ordering
<1>. QED BY <1>1, <1>2 DEF Futures, Equity, Mcx

\* No entry sends more orders than it has slices.
LEMMA SentTyped ==
  ASSUME IInv, Next
  PROVE  sent' \in 0 .. MaxSlices
<1>0. sent \in 0 .. MaxSlices /\ 0 \in 0 .. MaxSlices
  BY EntryNat DEF IInv, TypeOK
<1>1. CASE \/ Load \/ Find("loop") \/ KeepRow \/ SaveRow
           \/ (\E k \in 0 .. MaxSlices : ExitOrder(k))
           \/ (\E k \in 0 .. MaxSlices : ExitAcknowledged(k))
           \/ (\E k \in 0 .. MaxSlices : ExitRaises(k)) \/ ExitAnswered \/ ExitBlocked
  BY <1>1, <1>0 DEF Load, Others, Goto, Find, KeepRow, PutRow, NextRow, SaveRow, Rest, locals,
     ExitOrder, ExitAcknowledged, ExitRaises, ExitAnswered, ExitBlocked
<1>2. CASE \/ FindNothing \/ SetOut \/ SaveConfig \/ ExitLoopEnds \/ NoFutureEntry
           \/ (\E side \in case.sides : EnterFuture(side, case.slices)) \/ MarkAttempted
           \/ SliceRaises
  BY <1>2, <1>0 DEF FindNothing, Others, Goto, locals, SetOut, Rest, SaveConfig, NextRow,
     ExitLoopEnds, NoFutureEntry, EnterFuture, MarkAttempted, SliceRaises
<1>3. CASE \/ SendSlice \/ SliceAnswered
  BY <1>3, <1>0, RoomToOrder DEF SendSlice, Others, Goto, SliceAnswered, EntryAnswered
<1>4. CASE \/ LookUpPrice \/ InsertFuture \/ SettleFuture \/ FailFuture
  BY <1>4, <1>0 DEF LookUpPrice, Others, Goto, locals, InsertFuture, SettleFuture, Rest,
     FailFuture
<1>5. CASE \/ SaveSteps \/ SymbolAdded \/ PassSymbol \/ EnterEquity \/ InsertEquity
           \/ SettleEquity \/ SendEquity \/ SymbolsEnd
  BY <1>5, <1>0 DEF SaveSteps, Others, SymbolAdded, Rest, PassSymbol, EnterEquity, Goto,
     InsertEquity, locals, SettleEquity, SendEquity, SymbolsEnd
<1>6. CASE \/ NothingToExit \/ SaveExitSteps
  BY <1>6, <1>0 DEF NothingToExit, Others, Rest, SaveExitSteps, Goto, locals
<1>7. CASE \/ NoMcxRow \/ McxManaged \/ KeepMcxRow \/ ExitMcx \/ ExitMcxAnswered
           \/ ExitMcxRaises \/ CloseMcxRow
           \/ McxOut \/ NoMcxEntry
  BY <1>7, <1>0 DEF NoMcxRow, Others, Goto, locals, McxManaged, KeepMcxRow, NextRow, ExitMcx,
     ExitMcxAnswered, ExitMcxRaises, Rest, CloseMcxRow, McxOut, NoMcxEntry
<1>8. CASE \/ (\E side \in case.sides : EnterMcx(side)) \/ SendMcx \/ InsertMcx \/ SettleMcx
  BY <1>8, <1>0 DEF EnterMcx, Others, Goto, SendMcx, EntryAnswered, Rest, locals, InsertMcx,
     SettleMcx
<1>9. CASE \/ WindowPasses \/ Scan \/ ReadStrategy \/ RepairPosition \/ WriteBack
  BY <1>9, <1>0 DEF WindowPasses, engine, locals, Scan, Refreshing, ReadStrategy,
     RepairPosition, WriteBack
<1>10. CASE \/ Retire \/ MarkExit \/ ReadToStart \/ CommitStart \/ ReadToEdit \/ CommitEdit
            \/ ExitPosition
  BY <1>10, <1>0 DEF Retire, Requesting, engine, locals, MarkExit, ReadToStart, CommitStart,
     ReadToEdit, CommitEdit, ExitPosition
<1>11. CASE \/ Crash \/ Restart
  BY <1>11, <1>0 DEF Crash, Goto, Restart, Others, locals
<1>. QED BY <1>1, <1>2, <1>3, <1>4, <1>5, <1>6, <1>7, <1>8, <1>9, <1>10, <1>11 DEF Next,
   Round, FuturesRound, EquityRound, McxRound, Refresher, Request

\* Orders are of a symbol and a side.
LEMMA KeysTyped ==
  ASSUME TypeOK
  PROVE  EntryKey \in Keys /\ \A e \in Entries : ExitKey(e) \in Keys
BY DEF TypeOK, Rows, Strategies, EntryKey, ExitKey, Keys

\* The account holds no more of an entry than it has slices.
LEMMA AccountTyped ==
  ASSUME IInv, Next
  PROVE  held' \in [Entries -> -1 .. MaxSlices]
<1>0. /\ held \in [Entries -> -1 .. MaxSlices] /\ cur \in Entries
      /\ todo # {} => First(todo) \in Entries /\ mem[First(todo)].net \in Nat
      /\ MaxSlices \in Nat \ {0}
  BY EntryNat, TodoIn DEF IInv, TypeOK, Rows
<1>1. CASE \/ Load \/ Find("loop") \/ KeepRow \/ SaveRow \/ ExitAnswered \/ ExitBlocked
  BY <1>1, <1>0 DEF Load, Others, Goto, Find, KeepRow, PutRow, NextRow, SaveRow, Rest, locals,
     ExitAnswered, ExitBlocked, market
<1>2. ASSUME NEW k \in 0 .. MaxSlices, ExitOrder(k) PROVE held' \in [Entries -> -1 .. MaxSlices]
  <2>1. First(todo) \in Entries /\ Trade(First(todo), -k)
    BY <1>2, <1>0 DEF ExitOrder, AtExit
  <2>. QED BY <2>1, <1>0, TradeTyped
<1>3. ASSUME NEW k \in 0 .. MaxSlices, ExitAcknowledged(k) PROVE held' \in [Entries -> -1 .. MaxSlices]
  <2>1. First(todo) \in Entries /\ Trade(First(todo), -k)
    BY <1>3, <1>0 DEF ExitAcknowledged, AtExit
  <2>. QED BY <2>1, <1>0, TradeTyped
<1>4. ASSUME NEW k \in 0 .. MaxSlices, ExitRaises(k) PROVE held' \in [Entries -> -1 .. MaxSlices]
  <2>1. First(todo) \in Entries /\ Trade(First(todo), -k)
    BY <1>4, <1>0 DEF ExitRaises, AtExit
  <2>. QED BY <2>1, <1>0, TradeTyped
<1>5. CASE \/ FindNothing \/ SetOut \/ SaveConfig \/ ExitLoopEnds \/ NoFutureEntry
           \/ (\E side \in case.sides : EnterFuture(side, case.slices)) \/ MarkAttempted
           \/ LookUpPrice
  BY <1>5, <1>0 DEF FindNothing, Others, Goto, locals, SetOut, Rest, SaveConfig, NextRow,
     ExitLoopEnds, NoFutureEntry, EnterFuture, MarkAttempted, LookUpPrice, market
<1>6. CASE SendSlice
  <2>1. held' = held \/ Trade(cur, 1)
    BY <1>6 DEF SendSlice, AcceptEntry, market
  <2>. QED BY <1>6, <2>1, <1>0, TradeTyped, RoomToOrder DEF SendSlice
<1>a. ASSUME EntryAnswered, pc = "send" PROVE held' \in [Entries -> -1 .. MaxSlices]
  <2>. DEFINE f == book[EntryKey]
  <2>1. CASE ~Adopts(f)
    BY <1>a, <2>1, <1>0 DEF EntryAnswered, market
  <2>2. CASE Adopts(f)
    <3>1. EntryKey \in Keys
      BY KeysTyped DEF IInv
    <3>2. f \in 0 .. MaxEntries /\ f # 0
      BY <2>2, <3>1 DEF IInv, TypeOK, Adopts
    <3>3. f \in Entries /\ f # cur /\ held[f] > 0
      BY <3>2, <2>2, EntryNat DEF Entries, Adopts
    <3>4. held' = [held EXCEPT ![f] = held[f] - 1, ![cur] = held[cur] + 1]
      BY <1>a, <2>2, <3>3, <1>0 DEF EntryAnswered
    <3>5. held[cur] + 1 \in -1 .. MaxSlices /\ held[f] - 1 \in -1 .. MaxSlices
      BY <1>a, <3>3, <1>0, RoomToOrder
    <3>. QED BY <3>3, <3>4, <3>5, <1>0
  <2>. QED BY <2>1, <2>2
<1>7. CASE SliceAnswered
  BY <1>7, <1>a, <1>0 DEF SliceAnswered, market
<1>8. CASE SliceRaises
  <2>1. held' = held \/ Trade(cur, 1)
    BY <1>8 DEF SliceRaises, AcceptEntry, market
  <2>. QED BY <1>8, <2>1, <1>0, TradeTyped, RoomToOrder DEF SliceRaises
<1>9. CASE \/ InsertFuture \/ SettleFuture \/ FailFuture
  BY <1>9, <1>0 DEF InsertFuture, Others, Goto, locals, SettleFuture, Rest, FailFuture, market
<1>10. CASE \/ SaveSteps \/ SymbolAdded \/ PassSymbol \/ EnterEquity \/ InsertEquity
            \/ SettleEquity \/ SymbolsEnd \/ NothingToExit
  BY <1>10, <1>0 DEF SaveSteps, Others, SymbolAdded, Rest, PassSymbol, EnterEquity, Goto,
     InsertEquity, locals, SettleEquity, SymbolsEnd, NothingToExit, market
<1>11. CASE SendEquity
  <2>1. held' = held \/ Trade(cur, 1)
    BY <1>11 DEF SendEquity, AcceptEntry, market
  <2>. QED BY <1>11, <2>1, <1>0, TradeTyped, RoomToOrder DEF SendEquity
<1>12. CASE SaveExitSteps
  BY <1>12, <1>0 DEF SaveExitSteps, Others, Goto, locals, market
<1>13. CASE \/ NoMcxRow \/ McxManaged \/ KeepMcxRow \/ CloseMcxRow \/ McxOut \/ NoMcxEntry
            \/ (\E side \in case.sides : EnterMcx(side)) \/ InsertMcx
  BY <1>13, <1>0 DEF NoMcxRow, Others, Goto, locals, McxManaged, KeepMcxRow, NextRow,
     CloseMcxRow, McxOut, NoMcxEntry, Rest, EnterMcx, InsertMcx, market
<1>14. CASE \/ ExitMcx \/ ExitMcxAnswered \/ ExitMcxRaises
  <2>1. First(todo) \in Entries /\ mem[First(todo)].net \in Nat
    BY <1>14, <1>0 DEF ExitMcx, ExitMcxAnswered, ExitMcxRaises, AtMcxExit
  <2>2. held' = held \/ Trade(First(todo), -mem[First(todo)].net)
    BY <1>14 DEF ExitMcx, ExitMcxAnswered, ExitMcxRaises, market
  <2>. QED BY <2>1, <2>2, <1>0, TradeTyped
<1>16. CASE SendMcx
  <2>1. held' = held \/ Trade(cur, 1) \/ EntryAnswered
    BY <1>16 DEF SendMcx, AcceptEntry, market
  <2>. QED BY <1>16, <2>1, <1>a, <1>0, TradeTyped, RoomToOrder DEF SendMcx
<1>17. CASE SettleMcx
  BY <1>17, <1>0 DEF SettleMcx, Others, Rest, Goto, market
<1>18. CASE \/ WindowPasses \/ Scan \/ ReadStrategy \/ RepairPosition \/ WriteBack
  BY <1>18, <1>0 DEF WindowPasses, engine, locals, Scan, Refreshing, ReadStrategy,
     RepairPosition, WriteBack, market
<1>19. CASE \/ Retire \/ MarkExit \/ ReadToStart \/ CommitStart \/ ReadToEdit \/ CommitEdit
            \/ ExitPosition
  BY <1>19, <1>0 DEF Retire, Requesting, engine, locals, MarkExit, ReadToStart, CommitStart,
     ReadToEdit, CommitEdit, ExitPosition, market
<1>20. CASE Crash
  <2>1. held' = held \/ Trade(cur, 1)
    BY <1>20 DEF Crash, AcceptEntry, market
  <2>. QED BY <1>20, <2>1, <1>0, TradeTyped, RoomToOrder DEF Crash
<1>21. CASE Restart
  BY <1>21, <1>0 DEF Restart, Others, Goto, locals, market
<1>. QED BY <1>1, <1>2, <1>3, <1>4, <1>5, <1>6, <1>7, <1>8, <1>9, <1>10, <1>11, <1>12, <1>13,
   <1>14, <1>16, <1>17, <1>18, <1>19, <1>20, <1>21 DEF Next, Round, FuturesRound,
   EquityRound, McxRound, Refresher, Request

\* The order book and the memory of orders are well typed.
LEMMA WindowTyped ==
  ASSUME TypeOK, Next
  PROVE  book' \in [Keys -> 0 .. MaxEntries] /\ recent' \subseteq Keys
<1>0. /\ book \in [Keys -> 0 .. MaxEntries] /\ recent \subseteq Keys
      /\ cur \in Entries
      /\ EntryKey \in Keys
      /\ todo # {} => First(todo) \in Entries /\ ExitKey(First(todo)) \in Keys
  BY KeysTyped, TodoIn DEF TypeOK
<1>e. Entries \subseteq 0 .. MaxEntries /\ 0 \in 0 .. MaxEntries
  BY EntryNat DEF Entries
<1>1. CASE \/ Load \/ Find("loop") \/ KeepRow \/ SaveRow \/ ExitAnswered \/ ExitBlocked
  BY <1>1, <1>0 DEF Load, Others, Goto, Find, KeepRow, PutRow, NextRow, SaveRow, Rest, locals,
     ExitAnswered, ExitBlocked, market, window
<1>2. CASE \/ (\E k \in 0 .. MaxSlices : ExitOrder(k))
           \/ (\E k \in 0 .. MaxSlices : ExitAcknowledged(k))
           \/ (\E k \in 0 .. MaxSlices : ExitRaises(k))
  BY <1>2, <1>0, <1>e DEF ExitOrder, Others, Goto, ExitAcknowledged, ExitRaises, Rest, market,
     window, AtExit, ExitSent, OrderOut, Books, Remembers
<1>3. CASE \/ FindNothing \/ SetOut \/ SaveConfig \/ ExitLoopEnds \/ NoFutureEntry
           \/ (\E side \in case.sides : EnterFuture(side, case.slices)) \/ MarkAttempted
           \/ LookUpPrice
  BY <1>3, <1>0 DEF FindNothing, Others, Goto, locals, SetOut, Rest, SaveConfig, NextRow,
     ExitLoopEnds, NoFutureEntry, EnterFuture, MarkAttempted, LookUpPrice, market, window
<1>4. CASE \/ SendSlice \/ SliceAnswered \/ SliceRaises \/ Crash
  BY <1>4, <1>0, <1>e DEF SendSlice, Others, Goto, SliceAnswered, EntryAnswered, SliceRaises,
     locals, Crash, market, window, AcceptEntry, Books, Remembers
<1>5. CASE \/ InsertFuture \/ SettleFuture \/ FailFuture
  BY <1>5, <1>0 DEF InsertFuture, Others, Goto, locals, SettleFuture, Rest, FailFuture, market,
     window
<1>6. CASE \/ SaveSteps \/ SymbolAdded \/ PassSymbol \/ EnterEquity \/ InsertEquity
           \/ SettleEquity \/ SendEquity \/ SymbolsEnd
  BY <1>6, <1>0 DEF SaveSteps, Others, SymbolAdded, Rest, PassSymbol, EnterEquity, Goto,
     InsertEquity, locals, SettleEquity, SendEquity, SymbolsEnd, market, window
<1>7. CASE \/ NothingToExit \/ SaveExitSteps
  BY <1>7, <1>0 DEF NothingToExit, Others, Rest, SaveExitSteps, Goto, locals, market, window
<1>8. CASE \/ NoMcxRow \/ McxManaged \/ KeepMcxRow \/ CloseMcxRow \/ McxOut \/ NoMcxEntry
  BY <1>8, <1>0 DEF NoMcxRow, Others, Goto, locals, McxManaged, KeepMcxRow, NextRow, Rest,
     CloseMcxRow, McxOut, NoMcxEntry, market, window
<1>14. CASE \/ ExitMcx \/ ExitMcxAnswered \/ ExitMcxRaises \/ SendMcx
  BY <1>14, <1>0, <1>e DEF ExitMcx, ExitMcxAnswered, ExitMcxRaises, AtMcxExit, OrderOut, SendMcx,
     AcceptEntry, EntryAnswered, Books, Remembers, market, window
<1>9. CASE \/ (\E side \in case.sides : EnterMcx(side)) \/ InsertMcx \/ SettleMcx
  BY <1>9, <1>0 DEF EnterMcx, Others, Goto, Rest, locals, InsertMcx, SettleMcx, market, window
<1>10. CASE WindowPasses
  <2>1. PICK key \in Keys : /\ book' = [book EXCEPT ![key] = 0]
                            /\ recent' = recent \ {key}
    BY <1>10 DEF WindowPasses
  <2>. QED BY <2>1, <1>0, <1>e
<1>11. CASE \/ Scan \/ ReadStrategy \/ RepairPosition \/ WriteBack
  BY <1>11, <1>0 DEF Scan, Refreshing, engine, locals, ReadStrategy, RepairPosition, WriteBack,
     market, window
<1>12. CASE \/ Retire \/ MarkExit \/ ReadToStart \/ CommitStart \/ ReadToEdit \/ CommitEdit
            \/ ExitPosition
  BY <1>12, <1>0 DEF Retire, Requesting, engine, locals, MarkExit, ReadToStart, CommitStart,
     ReadToEdit, CommitEdit, ExitPosition, market, window
<1>13. CASE Restart
  BY <1>13, <1>0 DEF Restart, Others, Goto, locals, market, window
<1>. QED BY <1>1, <1>2, <1>3, <1>4, <1>5, <1>6, <1>7, <1>8, <1>9, <1>10, <1>11, <1>12, <1>13,
   <1>14 DEF Next, Round, FuturesRound, EquityRound, McxRound, Refresher, Request

\* The accepted orders are counted.
LEMMA AcceptedTyped ==
  ASSUME TypeOK, Next
  PROVE  accepted' \in [Keys -> Nat]
<1>0. /\ accepted \in [Keys -> Nat] /\ EntryKey \in Keys
  BY KeysTyped DEF TypeOK
<1>1. CASE \/ Load \/ Find("loop") \/ KeepRow \/ SaveRow \/ ExitAnswered \/ ExitBlocked
  BY <1>1, <1>0 DEF Load, Others, Goto, Find, KeepRow, PutRow, NextRow, SaveRow, Rest, locals,
     ExitAnswered, ExitBlocked, market, window
<1>2. CASE \/ (\E k \in 0 .. MaxSlices : ExitOrder(k))
           \/ (\E k \in 0 .. MaxSlices : ExitAcknowledged(k))
           \/ (\E k \in 0 .. MaxSlices : ExitRaises(k))
  BY <1>2, <1>0 DEF ExitOrder, Others, Goto, ExitAcknowledged, ExitRaises, Rest, market,
     window, AtExit, ExitSent, OrderOut
<1>3. CASE \/ FindNothing \/ SetOut \/ SaveConfig \/ ExitLoopEnds \/ NoFutureEntry
           \/ (\E side \in case.sides : EnterFuture(side, case.slices)) \/ MarkAttempted
           \/ LookUpPrice
  BY <1>3, <1>0 DEF FindNothing, Others, Goto, locals, SetOut, Rest, SaveConfig, NextRow,
     ExitLoopEnds, NoFutureEntry, EnterFuture, MarkAttempted, LookUpPrice, market, window
<1>4. CASE \/ SendSlice \/ SliceAnswered \/ SliceRaises \/ Crash
  BY <1>4, <1>0 DEF SendSlice, Others, Goto, SliceAnswered, EntryAnswered, SliceRaises, locals,
     Crash, market, window, AcceptEntry
<1>5. CASE \/ InsertFuture \/ SettleFuture \/ FailFuture
  BY <1>5, <1>0 DEF InsertFuture, Others, Goto, locals, SettleFuture, Rest, FailFuture, market,
     window
<1>6. CASE \/ SaveSteps \/ SymbolAdded \/ PassSymbol \/ EnterEquity \/ InsertEquity
           \/ SettleEquity \/ SendEquity \/ SymbolsEnd
  BY <1>6, <1>0 DEF SaveSteps, Others, SymbolAdded, Rest, PassSymbol, EnterEquity, Goto,
     InsertEquity, locals, SettleEquity, SendEquity, SymbolsEnd, market, window
<1>7. CASE \/ NothingToExit \/ SaveExitSteps
  BY <1>7, <1>0 DEF NothingToExit, Others, Rest, SaveExitSteps, Goto, locals, market, window
<1>8. CASE \/ NoMcxRow \/ McxManaged \/ KeepMcxRow \/ CloseMcxRow \/ McxOut \/ NoMcxEntry
  BY <1>8, <1>0 DEF NoMcxRow, Others, Goto, locals, McxManaged, KeepMcxRow, NextRow, Rest,
     CloseMcxRow, McxOut, NoMcxEntry, market, window
<1>13. CASE \/ ExitMcx \/ ExitMcxAnswered \/ ExitMcxRaises \/ SendMcx
  BY <1>13, <1>0 DEF ExitMcx, ExitMcxAnswered, ExitMcxRaises, OrderOut, SendMcx, AcceptEntry,
     EntryAnswered, market, window
<1>9. CASE \/ (\E side \in case.sides : EnterMcx(side)) \/ InsertMcx \/ SettleMcx
  BY <1>9, <1>0 DEF EnterMcx, Others, Goto, Rest, locals, InsertMcx, SettleMcx, market, window
<1>10. CASE \/ WindowPasses \/ Scan \/ ReadStrategy \/ RepairPosition \/ WriteBack
  BY <1>10, <1>0 DEF WindowPasses, engine, locals, Scan, Refreshing, ReadStrategy,
     RepairPosition, WriteBack, market, window
<1>11. CASE \/ Retire \/ MarkExit \/ ReadToStart \/ CommitStart \/ ReadToEdit \/ CommitEdit
            \/ ExitPosition
  BY <1>11, <1>0 DEF Retire, Requesting, engine, locals, MarkExit, ReadToStart, CommitStart,
     ReadToEdit, CommitEdit, ExitPosition, market, window
<1>12. CASE Restart
  BY <1>12, <1>0 DEF Restart, Others, Goto, locals, market, window
<1>. QED BY <1>1, <1>2, <1>3, <1>4, <1>5, <1>6, <1>7, <1>8, <1>9, <1>10, <1>11, <1>12, <1>13
   DEF Next, Round, FuturesRound, EquityRound, McxRound, Refresher, Request

\* The type invariant is kept.
LEMMA TypeStep ==
  ASSUME IInv, Next
  PROVE  TypeOK'
<1>1. TypeOK
  BY DEF IInv
<1>2. case' = case /\ pc' \in PCs
  BY <1>1, PlaceTyped
<1>3. upsets' \in 0 .. case'.upsets
  BY <1>1, <1>2, UpsetsTyped
<1>4. Entries' = Entries
  BY DEF Entries
<1>. QED BY <1>1, <1>2, <1>3, <1>4, StrategyStep, RowsStep, MemoryStep, SnapshotStep, VisitsTyped, EntryTyped,
     HistoryTyped, RefresherTyped, RequestTyped, SentTyped, AccountTyped, WindowTyped, AcceptedTyped
     DEF TypeOK

-----------------------------------------------------------------------------
(* The window of AliceBlue.                                                *)

\* Inside a window the first accepted order of a side keeps out the next.
LEMMA WindowStep ==
  ASSUME IInv, Next
  PROVE  Windows' /\ WindowsElse'
<1>e. TypeOK /\ \A e \in Entries : e # 0
  BY EntryNat DEF IInv, Entries
<1>0. /\ book \in [Keys -> 0 .. MaxEntries] /\ accepted \in [Keys -> Nat]
      /\ cur \in Entries /\ cur # 0 /\ EntryKey \in Keys
      /\ todo # {} => First(todo) # 0 /\ ExitKey(First(todo)) \in Keys
  BY <1>e, KeysTyped, TodoIn DEF TypeOK
<1>w. case' = case /\ Windows /\ WindowsElse
  BY PlaceTyped DEF IInv
<1>u. UNCHANGED <<book, accepted>> => Windows' /\ WindowsElse'
  BY <1>w DEF Windows, WindowsElse
<1>b. ASSUME UNCHANGED accepted, NEW s \in Keys, NEW e, e # 0, book' = book \/ book' = [book EXCEPT ![s] = e]
      PROVE  Windows' /\ WindowsElse'
  BY <1>0, <1>w, <1>b DEF Windows, WindowsElse
<1>a. ASSUME AcceptEntry
      PROVE  Windows' /\ WindowsElse'
  <2>. DEFINE s == EntryKey
  <2>1. CASE case.window = "one"
    <3>1. book' = [book EXCEPT ![s] = cur] /\ accepted' = [accepted EXCEPT ![s] = @ + 1]
      BY <1>a, <2>1 DEF AcceptEntry, Books, alice
    <3>2. book[s] = 0 \/ "blind" \in case.faults
      BY <1>a, <2>1 DEF AcceptEntry, NewOrder, alice
    <3>. HIDE DEF s
    <3>3. s \in Keys
      BY <1>0 DEF s
    <3>. QED BY <3>1, <3>2, <3>3, <2>1, <1>0, <1>w DEF Windows, WindowsElse
  <2>2. CASE case.window # "one"
    BY <1>a, <2>2, <1>w DEF AcceptEntry, Windows, WindowsElse
  <2>. QED BY <2>1, <2>2
<1>1. CASE \/ Load \/ Find("loop") \/ KeepRow \/ SaveRow \/ ExitAnswered \/ ExitBlocked
  BY <1>1, <1>u DEF Load, Others, Goto, Find, KeepRow, PutRow, NextRow, SaveRow, Rest, locals,
     ExitAnswered, ExitBlocked, market, window
<1>2. ASSUME NEW k \in 0 .. MaxSlices, ExitOrder(k) PROVE Windows' /\ WindowsElse'
  <2>1. First(todo) # 0 /\ ExitKey(First(todo)) \in Keys /\ UNCHANGED accepted
    BY <1>2, <1>0 DEF ExitOrder, AtExit, ExitSent, OrderOut, window
  <2>2. book' = book \/ book' = [book EXCEPT ![ExitKey(First(todo))] = First(todo)]
    BY <1>2 DEF ExitOrder, ExitSent, OrderOut, Books, window
  <2>. QED BY <2>1, <2>2, <1>b
<1>3. ASSUME NEW k \in 0 .. MaxSlices, ExitAcknowledged(k) PROVE Windows' /\ WindowsElse'
  <2>1. First(todo) # 0 /\ ExitKey(First(todo)) \in Keys /\ UNCHANGED accepted
    BY <1>3, <1>0 DEF ExitAcknowledged, AtExit, ExitSent, OrderOut, window
  <2>2. book' = book \/ book' = [book EXCEPT ![ExitKey(First(todo))] = First(todo)]
    BY <1>3 DEF ExitAcknowledged, ExitSent, OrderOut, Books, window
  <2>. QED BY <2>1, <2>2, <1>b
<1>4. ASSUME NEW k \in 0 .. MaxSlices, ExitRaises(k) PROVE Windows' /\ WindowsElse'
  <2>1. First(todo) # 0 /\ ExitKey(First(todo)) \in Keys /\ UNCHANGED accepted
    BY <1>4, <1>0 DEF ExitRaises, AtExit, ExitSent, OrderOut, window
  <2>2. book' = book \/ book' = [book EXCEPT ![ExitKey(First(todo))] = First(todo)]
    BY <1>4 DEF ExitRaises, ExitSent, OrderOut, Books, window
  <2>. QED BY <2>1, <2>2, <1>b
<1>5. CASE \/ FindNothing \/ SetOut \/ SaveConfig \/ ExitLoopEnds \/ NoFutureEntry
           \/ (\E side \in case.sides : EnterFuture(side, case.slices)) \/ MarkAttempted
           \/ LookUpPrice
  BY <1>5, <1>u DEF FindNothing, Others, Goto, locals, SetOut, Rest, SaveConfig, NextRow,
     ExitLoopEnds, NoFutureEntry, EnterFuture, MarkAttempted, LookUpPrice, market, window
<1>6. CASE \/ SendSlice \/ SliceRaises \/ Crash
  BY <1>6, <1>a, <1>u DEF SendSlice, Others, Goto, SliceRaises, locals, Crash, market, window
<1>d. ASSUME EntryAnswered PROVE Windows' /\ WindowsElse'
  <2>1. UNCHANGED accepted /\ (book' = book \/ book' = [book EXCEPT ![EntryKey] = cur])
    BY <1>d DEF EntryAnswered, Books, market, window
  <2>. QED BY <2>1, <1>0, <1>b
<1>7. CASE SliceAnswered
  BY <1>7, <1>d, <1>u DEF SliceAnswered, market, window
<1>8. CASE \/ InsertFuture \/ SettleFuture \/ FailFuture
  BY <1>8, <1>u DEF InsertFuture, Others, Goto, locals, SettleFuture, Rest, FailFuture, market,
     window
<1>9. CASE \/ SaveSteps \/ SymbolAdded \/ PassSymbol \/ EnterEquity \/ InsertEquity
           \/ SettleEquity \/ SendEquity \/ SymbolsEnd
  BY <1>9, <1>u DEF SaveSteps, Others, SymbolAdded, Rest, PassSymbol, EnterEquity, Goto,
     InsertEquity, locals, SettleEquity, SendEquity, SymbolsEnd, market, window
<1>10. CASE \/ NothingToExit \/ SaveExitSteps
  BY <1>10, <1>u DEF NothingToExit, Others, Rest, SaveExitSteps, Goto, locals, market, window
<1>11. CASE \/ NoMcxRow \/ McxManaged \/ KeepMcxRow \/ ExitMcxAnswered \/ CloseMcxRow
            \/ McxOut \/ NoMcxEntry
  BY <1>11, <1>u DEF NoMcxRow, Others, Goto, locals, McxManaged, KeepMcxRow, NextRow,
     ExitMcxAnswered, Rest, CloseMcxRow, McxOut, NoMcxEntry, market, window
<1>12. CASE \/ (\E side \in case.sides : EnterMcx(side)) \/ InsertMcx \/ SettleMcx
  BY <1>12, <1>u DEF EnterMcx, Others, Goto, Rest, locals, InsertMcx, SettleMcx, market, window
<1>17. CASE ExitMcx \/ ExitMcxRaises
  <2>1. First(todo) # 0 /\ ExitKey(First(todo)) \in Keys /\ UNCHANGED accepted
    BY <1>17, <1>0 DEF ExitMcx, ExitMcxRaises, AtMcxExit, OrderOut, market, window
  <2>2. book' = book \/ book' = [book EXCEPT ![ExitKey(First(todo))] = First(todo)]
    BY <1>17 DEF ExitMcx, ExitMcxRaises, OrderOut, Books, market, window
  <2>. QED BY <2>1, <2>2, <1>b
<1>18. CASE SendMcx
  BY <1>18, <1>a, <1>d, <1>u DEF SendMcx, market, window
<1>13. CASE WindowPasses
  <2>1. case.window = "many" /\ UNCHANGED accepted
    BY <1>13 DEF WindowPasses
  <2>. QED BY <2>1, <1>w DEF Windows, WindowsElse
<1>14. CASE \/ Scan \/ ReadStrategy \/ RepairPosition \/ WriteBack
  BY <1>14, <1>u DEF Scan, Refreshing, engine, locals, ReadStrategy, RepairPosition, WriteBack,
     market, window
<1>15. CASE \/ Retire \/ MarkExit \/ ReadToStart \/ CommitStart \/ ReadToEdit \/ CommitEdit
            \/ ExitPosition
  BY <1>15, <1>u DEF Retire, Requesting, engine, locals, MarkExit, ReadToStart, CommitStart,
     ReadToEdit, CommitEdit, ExitPosition, market, window
<1>16. CASE Restart
  BY <1>16, <1>u DEF Restart, Others, Goto, locals, market, window
<1>. QED BY <1>1, <1>2, <1>3, <1>4, <1>5, <1>6, <1>7, <1>8, <1>9, <1>10, <1>11, <1>12, <1>13,
   <1>14, <1>15, <1>16, <1>17, <1>18 DEF Next, Round, FuturesRound, EquityRound, McxRound,
   Refresher, Request

\* A strategy on paper never touches the account.
LEMMA PaperStep ==
  ASSUME IInv, Next
  PROVE  PaperInv'
<1>0. case' = case /\ (~live => ~alice)
  BY PlaceTyped, CaseFacts DEF IInv
<1>u. UNCHANGED held => PaperInv'
  BY <1>0 DEF IInv, PaperInv, live, Entries
<1>t. ASSUME NEW e, NEW k, Trade(e, k)
      PROVE  PaperInv'
  BY <1>0, <1>t DEF IInv, TypeOK, PaperInv, Trade, live, Entries
<1>1. CASE \/ Load \/ Find("loop") \/ KeepRow \/ SaveRow \/ ExitAnswered \/ ExitBlocked
  BY <1>1, <1>u DEF Load, Others, Goto, Find, KeepRow, PutRow, NextRow, SaveRow, Rest, locals,
     ExitAnswered, ExitBlocked, market
<1>2. ASSUME NEW k \in 0 .. MaxSlices, ExitOrder(k) PROVE PaperInv'
  BY <1>2, <1>t DEF ExitOrder, Others, Goto
<1>3. ASSUME NEW k \in 0 .. MaxSlices, ExitAcknowledged(k) PROVE PaperInv'
  BY <1>3, <1>t DEF ExitAcknowledged, Others, Goto
<1>4. ASSUME NEW k \in 0 .. MaxSlices, ExitRaises(k) PROVE PaperInv'
  BY <1>4, <1>t DEF ExitRaises, Others, Rest, Goto
<1>5. CASE \/ FindNothing \/ SetOut \/ SaveConfig \/ ExitLoopEnds \/ NoFutureEntry
           \/ (\E side \in case.sides : EnterFuture(side, case.slices)) \/ MarkAttempted
           \/ LookUpPrice
  BY <1>5, <1>u DEF FindNothing, Others, Goto, locals, SetOut, Rest, SaveConfig, NextRow,
     ExitLoopEnds, NoFutureEntry, EnterFuture, MarkAttempted, LookUpPrice, market
<1>6. CASE \/ SendSlice \/ SliceRaises \/ Crash
  BY <1>6, <1>t, <1>u DEF SendSlice, Others, Goto, SliceRaises, locals, Crash, AcceptEntry,
     market
<1>a. ASSUME EntryAnswered PROVE PaperInv'
  <2>1. live
    BY <1>a, <1>0 DEF EntryAnswered, alice, live
  <2>. QED BY <2>1, <1>0 DEF PaperInv, live
<1>7. CASE SliceAnswered
  BY <1>7, <1>a, <1>u DEF SliceAnswered, market
<1>8. CASE \/ InsertFuture \/ SettleFuture \/ FailFuture
  BY <1>8, <1>u DEF InsertFuture, Others, Goto, locals, SettleFuture, Rest, FailFuture, market
<1>9. CASE \/ SaveSteps \/ SymbolAdded \/ PassSymbol \/ EnterEquity \/ InsertEquity
           \/ SettleEquity \/ SymbolsEnd \/ NothingToExit
  BY <1>9, <1>u DEF SaveSteps, Others, SymbolAdded, Rest, PassSymbol, EnterEquity, Goto,
     InsertEquity, locals, SettleEquity, SymbolsEnd, NothingToExit, market
<1>10. CASE \/ SendEquity \/ SendMcx \/ ExitMcx \/ ExitMcxAnswered \/ ExitMcxRaises
  BY <1>10, <1>t, <1>a, <1>u DEF SendEquity, SendMcx, AcceptEntry, ExitMcx, ExitMcxAnswered,
     ExitMcxRaises, market
<1>11. CASE SaveExitSteps
  BY <1>11, <1>u DEF SaveExitSteps, Others, Goto, locals, market
<1>12. CASE \/ NoMcxRow \/ McxManaged \/ KeepMcxRow \/ CloseMcxRow \/ McxOut \/ NoMcxEntry
            \/ (\E side \in case.sides : EnterMcx(side)) \/ InsertMcx
  BY <1>12, <1>u DEF NoMcxRow, Others, Goto, locals, McxManaged, KeepMcxRow, NextRow,
     CloseMcxRow, McxOut, NoMcxEntry, Rest, EnterMcx, InsertMcx, market
<1>13. CASE SettleMcx
  BY <1>13, <1>u DEF SettleMcx, Others, Rest, Goto, market
<1>14. CASE \/ WindowPasses \/ Scan \/ ReadStrategy \/ RepairPosition \/ WriteBack
  BY <1>14, <1>u DEF WindowPasses, engine, locals, Scan, Refreshing, ReadStrategy,
     RepairPosition, WriteBack, market
<1>15. CASE \/ Retire \/ MarkExit \/ ReadToStart \/ CommitStart \/ ReadToEdit \/ CommitEdit
            \/ ExitPosition
  BY <1>15, <1>u DEF Retire, Requesting, engine, locals, MarkExit, ReadToStart, CommitStart,
     ReadToEdit, CommitEdit, ExitPosition, market
<1>16. CASE Restart
  BY <1>16, <1>u DEF Restart, Others, Goto, locals, market
<1>. QED BY <1>1, <1>2, <1>3, <1>4, <1>5, <1>6, <1>7, <1>8, <1>9, <1>10, <1>11, <1>12, <1>13,
   <1>14, <1>15, <1>16 DEF Next, Round, FuturesRound, EquityRound, McxRound, Refresher,
   Request

-----------------------------------------------------------------------------
(* Rows are inserted, and never go away.                                   *)

\* A step knows the same rows, or that of the entry just inserted.
LEMMA KnownStep ==
  ASSUME IInv, Next
  PROVE  \/ Known' = Known
         \/ pc = "insert" /\ pc' = "settle" /\ Known' = Known \cup {cur}
<1>. DEFINE Goal == \/ Known' = Known
                    \/ pc = "insert" /\ pc' = "settle" /\ Known' = Known \cup {cur}
<1>. SUFFICES Goal
  OBVIOUS
<1>0. /\ rows \in [Entries -> Rows] /\ cur \in Entries /\ Known \subseteq Entries
      /\ case' = case
      /\ pc \in {"loop", "save", "steps"} /\ todo # {} =>
           First(todo) \in Known /\ First(todo) \in Entries
      /\ pc = "save" => todo # {}
      /\ rpc # "idle" => First(rtodo) \in Known /\ rcopy[First(rtodo)].status = "open"
  BY TodoIn, PlaceTyped DEF IInv, TypeOK, Known, Places, AtRow, Copies
<1>k. /\ \A e : e \in Known <=> e \in Entries /\ rows[e].status # "none"
      /\ \A e : e \in Known' <=> e \in Entries /\ rows'[e].status # "none"
  BY DEF Known, Entries
<1>x. (\A e : e \in Known' <=> e \in Known) => Known' = Known
  OBVIOUS
<1>u. UNCHANGED rows => Goal
  <2>1. UNCHANGED rows => \A e : e \in Known' <=> e \in Known
    BY <1>k
  <2>. QED BY <2>1, <1>x
<1>p. ASSUME NEW e \in Known, NEW row, rows' = [rows EXCEPT ![e] = row], row.status # "none"
      PROVE  Goal
  <2>1. \A e2 : e2 \in Known' <=> e2 \in Known
    BY <1>0, <1>k, <1>p
  <2>. QED BY <2>1, <1>x
<1>1. CASE \/ Load \/ Find("loop") \/ (\E k \in 0 .. MaxSlices : ExitOrder(k))
           \/ (\E k \in 0 .. MaxSlices : ExitAcknowledged(k))
           \/ (\E k \in 0 .. MaxSlices : ExitRaises(k)) \/ ExitAnswered \/ ExitBlocked
  BY <1>1, <1>u DEF Load, Others, Goto, Find, ExitOrder, ExitAcknowledged, ExitRaises, Rest,
     ExitAnswered, ExitBlocked, market
<1>2. CASE KeepRow
  <2>1. First(todo) \in Known /\ mem[First(todo)].status = "open"
    BY <1>2, <1>0, TodoIn DEF KeepRow, IInv, Copies, Visits
  <2>. QED BY <1>2, <2>1, <1>p DEF KeepRow, PutRow
<1>3. CASE SaveRow
  <2>1. First(todo) \in Known /\ mem[First(todo)].status # "none"
    BY <1>3, <1>0 DEF SaveRow, IInv, Copies, Mcx
  <2>. QED BY <1>3, <2>1, <1>p DEF SaveRow, PutRow
<1>4. CASE \/ FindNothing \/ SetOut \/ SaveConfig \/ ExitLoopEnds \/ NoFutureEntry
           \/ (\E side \in case.sides : EnterFuture(side, case.slices)) \/ MarkAttempted
           \/ SendSlice
  BY <1>4, <1>u DEF FindNothing, Others, Goto, locals, SetOut, Rest, SaveConfig, NextRow,
     ExitLoopEnds, NoFutureEntry, EnterFuture, MarkAttempted, SendSlice, market
<1>5. CASE \/ SliceAnswered \/ SliceRaises \/ LookUpPrice \/ SettleFuture \/ FailFuture
  BY <1>5, <1>u DEF SliceAnswered, EntryAnswered, Others, Goto, SliceRaises, locals,
     LookUpPrice, SettleFuture, Rest, FailFuture, market
<1>6. CASE InsertFuture
  <2>1. mem[cur] \in Rows
    BY <1>0 DEF IInv, TypeOK
  <2>2. \/ rows' = rows
        \/ rows' = [rows EXCEPT ![cur] = [mem[cur] EXCEPT !.status = "open"]]
        \/ rows' = [rows EXCEPT ![cur] = [mem[cur] EXCEPT !.status = "broker_failed"]]
    BY <1>6 DEF InsertFuture
  <2>3. /\ [mem[cur] EXCEPT !.status = "open"].status = "open"
        /\ [mem[cur] EXCEPT !.status = "broker_failed"].status = "broker_failed"
    BY <2>1 DEF Rows
  <2>4. pc = "insert" /\ pc' = "settle"
    BY <1>6 DEF InsertFuture, Goto
  <2>. QED BY <2>2, <2>3, <2>4, <1>0, <1>u DEF Known, Entries
<1>7. CASE \/ SaveSteps \/ SymbolAdded \/ PassSymbol \/ EnterEquity \/ SettleEquity
           \/ SendEquity \/ SymbolsEnd \/ NothingToExit
  BY <1>7, <1>u DEF SaveSteps, Others, SymbolAdded, Rest, PassSymbol, EnterEquity, Goto,
     SettleEquity, SendEquity, SymbolsEnd, locals, NothingToExit, market
<1>8. CASE \/ InsertEquity \/ InsertMcx
  <2>1. rows' = [rows EXCEPT ![cur] = mem[cur]] /\ mem[cur].status = "open"
    BY <1>8 DEF InsertEquity, InsertMcx, IInv, Ordering
  <2>2. pc = "insert" /\ pc' = "settle"
    BY <1>8 DEF InsertEquity, InsertMcx, Goto
  <2>. QED BY <2>1, <2>2, <1>0 DEF Known, Entries
<1>9. CASE SaveExitSteps
  BY <1>9, <1>u DEF SaveExitSteps, Others, Goto, locals, market
<1>10. CASE \/ NoMcxRow \/ McxManaged \/ KeepMcxRow \/ ExitMcx \/ ExitMcxAnswered
            \/ ExitMcxRaises \/ McxOut
            \/ NoMcxEntry \/ (\E side \in case.sides : EnterMcx(side))
  BY <1>10, <1>u DEF NoMcxRow, Others, Goto, locals, McxManaged, KeepMcxRow, NextRow, ExitMcx,
     ExitMcxAnswered, ExitMcxRaises, Rest, McxOut, NoMcxEntry, EnterMcx, market
<1>11. CASE CloseMcxRow
  <2>. DEFINE row == [rows[First(todo)] EXCEPT !.status = "close"]
  <2>1. First(todo) \in Known /\ rows[First(todo)] \in Rows
    BY <1>11, <1>0 DEF CloseMcxRow
  <2>2. rows' = [rows EXCEPT ![First(todo)] = row]
    BY <1>11 DEF CloseMcxRow
  <2>3. row.status = "close"
    BY <2>1 DEF Rows
  <2>. HIDE DEF row
  <2>. QED BY <2>1, <2>2, <2>3, <1>p
<1>12. CASE \/ SendMcx \/ SettleMcx
  BY <1>12, <1>u DEF SendMcx, EntryAnswered, Others, Rest, Goto, locals, SettleMcx, market
<1>13. CASE \/ WindowPasses \/ Scan \/ ReadStrategy \/ RepairPosition
  BY <1>13, <1>u DEF WindowPasses, engine, locals, Scan, Refreshing, ReadStrategy,
     RepairPosition, market
<1>14. CASE WriteBack
  <2>1. First(rtodo) \in Known /\ rcopy[First(rtodo)].status # "none"
    BY <1>14, <1>0 DEF WriteBack
  <2>. QED BY <1>14, <2>1, <1>p, <1>u DEF WriteBack, PutRow
<1>15. CASE \/ Retire \/ ReadToStart \/ CommitStart \/ ReadToEdit \/ CommitEdit
  BY <1>15, <1>u DEF Retire, Requesting, engine, locals, ReadToStart, CommitStart, ReadToEdit,
     CommitEdit, market
<1>16. CASE MarkExit
  <2>1. \A e \in Entries : [rows[e] EXCEPT !.decision = "exitit"].status = rows[e].status
    BY <1>0 DEF Rows
  <2>2. \A e : e \in Known' <=> e \in Known
    BY <1>16, <2>1, <1>k DEF MarkExit
  <2>. QED BY <2>2, <1>x
<1>17. CASE ExitPosition
  <2>1. PICK e \in Open(rows) : rows' = [rows EXCEPT ![e] = [rows[e] EXCEPT !.decision = "exitit"]]
    BY <1>17 DEF ExitPosition
  <2>2. e \in Known /\ [rows[e] EXCEPT !.decision = "exitit"].status # "none"
    BY <1>0 DEF Open, Known, Rows
  <2>. QED BY <2>1, <2>2, <1>p
<1>18. CASE \/ Crash \/ Restart
  BY <1>18, <1>u DEF Crash, Goto, Restart, Others, locals, market
<1>. QED BY <1>1, <1>2, <1>3, <1>4, <1>5, <1>6, <1>7, <1>8, <1>9, <1>10, <1>11, <1>12, <1>13,
   <1>14, <1>15, <1>16, <1>17, <1>18 DEF Next, Round, FuturesRound, EquityRound, McxRound,
   Refresher, Request

\* No row goes away.
LEMMA KnownGrows ==
  ASSUME IInv, Next
  PROVE  Known \subseteq Known'
BY KnownStep

\* Rows still to visit are known, before and after.
LEMMA VisitsStep ==
  ASSUME IInv, Next
  PROVE  todo' \subseteq Known' /\ rtodo' \subseteq Known' /\ (rpc' # "idle" => rtodo' # {})
<1>0. /\ todo \subseteq Known /\ rtodo \subseteq Known /\ Known \subseteq Known'
      /\ Open(rows) \subseteq Known
      /\ rpc # "idle" => rtodo # {}
  BY KnownGrows DEF IInv, Places, Open, Known
<1>1. CASE \/ Load \/ Find("loop") \/ KeepRow \/ SaveRow
           \/ (\E k \in 0 .. MaxSlices : ExitOrder(k))
           \/ (\E k \in 0 .. MaxSlices : ExitAcknowledged(k))
           \/ (\E k \in 0 .. MaxSlices : ExitRaises(k)) \/ ExitAnswered \/ ExitBlocked
  BY <1>1, <1>0 DEF Load, Others, Goto, Find, KeepRow, PutRow, NextRow, SaveRow, Rest, locals,
     ExitOrder, ExitAcknowledged, ExitRaises, ExitAnswered, ExitBlocked, refresher
<1>2. CASE \/ FindNothing \/ SetOut \/ SaveConfig \/ ExitLoopEnds \/ NoFutureEntry
           \/ (\E side \in case.sides : EnterFuture(side, case.slices)) \/ MarkAttempted
           \/ SendSlice
  BY <1>2, <1>0 DEF FindNothing, Others, Goto, locals, SetOut, Rest, SaveConfig, NextRow,
     ExitLoopEnds, NoFutureEntry, EnterFuture, MarkAttempted, SendSlice, refresher
<1>3. CASE \/ SliceAnswered \/ SliceRaises \/ LookUpPrice \/ InsertFuture \/ SettleFuture
           \/ FailFuture
  BY <1>3, <1>0 DEF SliceAnswered, EntryAnswered, Others, Goto, SliceRaises, locals,
     LookUpPrice, InsertFuture, SettleFuture, Rest, FailFuture, refresher
<1>4. CASE \/ SaveSteps \/ SymbolAdded \/ PassSymbol \/ EnterEquity \/ InsertEquity
           \/ SettleEquity \/ SendEquity \/ SymbolsEnd
  BY <1>4, <1>0 DEF SaveSteps, Others, SymbolAdded, Rest, PassSymbol, EnterEquity, Goto,
     InsertEquity, locals, SettleEquity, SendEquity, SymbolsEnd, refresher
<1>5. CASE \/ NothingToExit \/ SaveExitSteps
  BY <1>5, <1>0 DEF NothingToExit, Others, Rest, SaveExitSteps, Goto, locals, refresher
<1>6. CASE \/ NoMcxRow \/ McxManaged \/ KeepMcxRow \/ ExitMcx \/ ExitMcxAnswered
           \/ ExitMcxRaises \/ CloseMcxRow
           \/ McxOut \/ NoMcxEntry
  BY <1>6, <1>0 DEF NoMcxRow, Others, Goto, locals, McxManaged, KeepMcxRow, NextRow, ExitMcx,
     ExitMcxAnswered, ExitMcxRaises, Rest, CloseMcxRow, McxOut, NoMcxEntry, refresher
<1>7. CASE \/ (\E side \in case.sides : EnterMcx(side)) \/ SendMcx \/ InsertMcx \/ SettleMcx
  BY <1>7, <1>0 DEF EnterMcx, Others, Goto, SendMcx, EntryAnswered, Rest, locals, InsertMcx,
     SettleMcx, refresher
<1>8. CASE \/ WindowPasses \/ Scan \/ ReadStrategy \/ RepairPosition \/ WriteBack
  BY <1>8, <1>0 DEF WindowPasses, engine, locals, Scan, Refreshing, ReadStrategy,
     RepairPosition, WriteBack, refresher
<1>9. CASE \/ Retire \/ MarkExit \/ ReadToStart \/ CommitStart \/ ReadToEdit \/ CommitEdit
           \/ ExitPosition
  BY <1>9, <1>0 DEF Retire, Requesting, engine, locals, MarkExit, ReadToStart, CommitStart,
     ReadToEdit, CommitEdit, ExitPosition, refresher
<1>10. CASE \/ Crash \/ Restart
  BY <1>10, <1>0 DEF Crash, Goto, Restart, Others, locals, refresher
<1>. QED BY <1>1, <1>2, <1>3, <1>4, <1>5, <1>6, <1>7, <1>8, <1>9, <1>10 DEF Next, Round,
   FuturesRound, EquityRound, McxRound, Refresher, Request

\* Each step of the code belongs to the families that have it.
LEMMA PlacesHold ==
  ASSUME IInv, Next
  PROVE  /\ AtRow' => todo' # {}
         /\ pc' \in {"mark", "quote", "fail"} => Futures'
         /\ pc' = "steps" => Equity'
         /\ pc' = "set_out" => Futures'
         /\ pc' = "config" => ~Equity'
         /\ ~Futures' => sent' = 0
         /\ Equity' /\ pc' \notin {"loop", "steps", "save"} => todo' = {}
<1>. DEFINE Goal == /\ AtRow' => todo' # {}
                    /\ pc' \in {"mark", "quote", "fail"} => Futures'
                    /\ pc' = "steps" => Equity'
                    /\ pc' = "set_out" => Futures'
                    /\ pc' = "config" => ~Equity'
                    /\ ~Futures' => sent' = 0
                    /\ Equity' /\ pc' \notin {"loop", "steps", "save"} => todo' = {}
<1>. SUFFICES Goal
  OBVIOUS
<1>0. /\ case' = case
      /\ AtRow => todo # {}
      /\ pc \in {"mark", "quote", "fail"} => Futures
      /\ pc = "steps" => Equity
      /\ pc = "set_out" => Futures
      /\ pc = "config" => ~Equity
      /\ ~Futures => sent = 0
      /\ Equity /\ pc \notin {"loop", "steps", "save"} => todo = {}
  BY PlaceTyped DEF IInv, Places
<1>. USE DEF AtRow, Futures, Equity, Mcx, family
<1>1. CASE Load
  BY <1>1, <1>0 DEF Load, Others, Goto
<1>2. CASE Find("loop")
  BY <1>2, <1>0 DEF Find, Others, Goto
<1>3. CASE KeepRow
  BY <1>3, <1>0 DEF KeepRow, Others, PutRow, NextRow
<1>4. CASE SaveRow
  BY <1>4, <1>0 DEF SaveRow, Others, PutRow, NextRow, Rest, Goto, locals
<1>5. CASE \/ (\E k \in 0 .. MaxSlices : ExitOrder(k))
           \/ (\E k \in 0 .. MaxSlices : ExitAcknowledged(k))
           \/ (\E k \in 0 .. MaxSlices : ExitRaises(k))
  BY <1>5, <1>0 DEF ExitOrder, Others, Goto, ExitAcknowledged, ExitRaises, Rest, AtExit
<1>6. CASE ExitAnswered \/ ExitBlocked
  BY <1>6, <1>0 DEF ExitAnswered, ExitBlocked, Others, Goto
<1>7. CASE \/ FindNothing \/ SetOut \/ SaveConfig \/ ExitLoopEnds \/ NoFutureEntry
           \/ (\E side \in case.sides : EnterFuture(side, case.slices)) \/ MarkAttempted
           \/ SliceRaises
  BY <1>7, <1>0 DEF FindNothing, Others, Goto, locals, SetOut, Rest, SaveConfig, NextRow,
     ExitLoopEnds, NoFutureEntry, EnterFuture, MarkAttempted, SliceRaises
<1>8. CASE \/ SendSlice \/ SliceAnswered
  BY <1>8, <1>0 DEF SendSlice, Others, Goto, SliceAnswered, EntryAnswered, AfterOrders
<1>9. CASE \/ LookUpPrice \/ InsertFuture \/ SettleFuture \/ FailFuture
  BY <1>9, <1>0 DEF LookUpPrice, Others, Goto, locals, InsertFuture, SettleFuture, Rest,
     FailFuture
<1>10. CASE \/ SaveSteps \/ SymbolAdded \/ PassSymbol \/ EnterEquity \/ InsertEquity
            \/ SettleEquity \/ SendEquity \/ SymbolsEnd
  BY <1>10, <1>0 DEF SaveSteps, Others, SymbolAdded, Rest, PassSymbol, EnterEquity, Goto,
     InsertEquity, locals, SettleEquity, SendEquity, SymbolsEnd
<1>11. CASE \/ NothingToExit \/ SaveExitSteps
  BY <1>11, <1>0 DEF NothingToExit, Others, Rest, SaveExitSteps, Goto, locals
<1>12. CASE \/ NoMcxRow \/ McxManaged \/ KeepMcxRow \/ CloseMcxRow \/ McxOut \/ NoMcxEntry
            \/ (\E side \in case.sides : EnterMcx(side)) \/ SendMcx
  BY <1>12, <1>0 DEF NoMcxRow, Others, Goto, locals, McxManaged, KeepMcxRow, NextRow,
     CloseMcxRow, McxOut, NoMcxEntry, Rest, EnterMcx, SendMcx, EntryAnswered
<1>13. CASE ExitMcx \/ ExitMcxAnswered
  BY <1>13, <1>0 DEF ExitMcx, ExitMcxAnswered, AtMcxExit, Others, Goto, locals
<1>14. CASE ExitMcxRaises
  BY <1>14, <1>0 DEF ExitMcxRaises, Others, Rest, Goto
<1>15. CASE \/ InsertMcx \/ SettleMcx
  BY <1>15, <1>0 DEF InsertMcx, Others, Goto, locals, SettleMcx, Rest
<1>16. CASE WindowPasses
  BY <1>16, <1>0 DEF WindowPasses, engine, locals
<1>17. CASE Scan
  BY <1>17, <1>0 DEF Scan, Refreshing, engine, locals
<1>18. CASE ReadStrategy
  BY <1>18, <1>0 DEF ReadStrategy, Refreshing, engine, locals
<1>19. CASE RepairPosition
  BY <1>19, <1>0 DEF RepairPosition, Refreshing, engine, locals
<1>20. CASE WriteBack
  BY <1>20, <1>0 DEF WriteBack, Refreshing, engine, locals
<1>21. CASE \/ Retire \/ MarkExit \/ ReadToStart \/ CommitStart \/ ReadToEdit \/ CommitEdit
            \/ ExitPosition
  BY <1>21, <1>0 DEF Retire, Requesting, engine, locals, MarkExit, ReadToStart, CommitStart,
     ReadToEdit, CommitEdit, ExitPosition
<1>22. CASE Crash
  BY <1>22, <1>0 DEF Crash, Goto
<1>23. CASE Restart
  BY <1>23, <1>0 DEF Restart, Others, Goto, locals
<1>. QED BY <1>1, <1>2, <1>3, <1>4, <1>5, <1>6, <1>7, <1>8, <1>9, <1>10, <1>11, <1>12, <1>13,
   <1>14, <1>15, <1>16, <1>17, <1>18, <1>19, <1>20, <1>21, <1>22, <1>23 DEF Next, Round,
   FuturesRound, EquityRound, McxRound, Refresher, Request

\* Places is kept.
LEMMA PlacesStep ==
  ASSUME IInv, Next
  PROVE  Places'
BY VisitsStep, PlacesHold DEF Places

\* An entry has no row until it is inserted.
LEMMA FreshStep ==
  ASSUME IInv, Next
  PROVE  FreshEntry'
<1>0. /\ case' = case /\ (New # {} => First(New) \notin Known)
      /\ \/ Known' = Known
         \/ pc = "insert" /\ pc' = "settle" /\ Known' = Known \cup {cur}
      /\ Rowless => cur \notin Known
      /\ ~(Equity /\ (Futures \/ Mcx)) /\ (pc \in {"mark", "quote", "fail"} => Futures)
  BY PlaceTyped, KnownStep, NewIn DEF IInv, FreshEntry, Known, NoRow, Equity, Futures, Mcx,
     Places
<1>s. UNCHANGED <<pc, cur>> => FreshEntry'
  BY <1>0 DEF FreshEntry, Rowless, Equity, family
<1>. USE DEF FreshEntry, Rowless, Equity, Futures, Mcx, family
<1>1. CASE \/ Load \/ Find("loop") \/ KeepRow \/ SaveRow
           \/ (\E k \in 0 .. MaxSlices : ExitOrder(k))
           \/ (\E k \in 0 .. MaxSlices : ExitAcknowledged(k))
           \/ (\E k \in 0 .. MaxSlices : ExitRaises(k)) \/ ExitAnswered \/ ExitBlocked
  BY <1>1, <1>0 DEF Load, Others, Goto, Find, KeepRow, PutRow, NextRow, SaveRow, Rest, locals,
     ExitOrder, ExitAcknowledged, ExitRaises, ExitAnswered, ExitBlocked
<1>2. CASE \/ FindNothing \/ SetOut \/ SaveConfig \/ ExitLoopEnds \/ NoFutureEntry
           \/ SettleFuture \/ FailFuture
  BY <1>2, <1>0 DEF FindNothing, Others, Goto, locals, SetOut, Rest, SaveConfig, NextRow,
     ExitLoopEnds, NoFutureEntry, SettleFuture, FailFuture
<1>3. ASSUME NEW side \in case.sides, EnterFuture(side, case.slices) PROVE FreshEntry'
  BY <1>3, <1>0 DEF EnterFuture, Others, Goto
<1>4. CASE MarkAttempted
  BY <1>4, <1>0 DEF MarkAttempted, Others, Goto, locals
<1>5. CASE \/ SendSlice \/ SliceAnswered
  BY <1>5, <1>0 DEF SendSlice, Others, Goto, SliceAnswered, EntryAnswered, AfterOrders
<1>6. CASE SliceRaises
  BY <1>6, <1>0 DEF SliceRaises, Others, Goto, locals
<1>7. CASE LookUpPrice
  BY <1>7, <1>0 DEF LookUpPrice, Others, Goto, locals
<1>8. CASE InsertFuture
  BY <1>8, <1>0 DEF InsertFuture, Others, Goto, locals
<1>9. CASE \/ SaveSteps \/ SymbolAdded \/ PassSymbol \/ SymbolsEnd \/ NothingToExit
           \/ SaveExitSteps
  BY <1>9, <1>0 DEF SaveSteps, Others, SymbolAdded, Rest, PassSymbol, SymbolsEnd, Goto, locals,
     NothingToExit, SaveExitSteps
<1>10. CASE EnterEquity
  BY <1>10, <1>0 DEF EnterEquity, Others, Goto
<1>11. CASE InsertEquity
  BY <1>11, <1>0 DEF InsertEquity, Others, Goto, locals
<1>12. CASE SettleEquity
  BY <1>12, <1>0 DEF SettleEquity, Others, Goto
<1>13. CASE SendEquity
  BY <1>13, <1>0 DEF SendEquity, Others, Goto
<1>14. CASE \/ NoMcxRow \/ McxManaged \/ KeepMcxRow \/ ExitMcx \/ ExitMcxAnswered
            \/ ExitMcxRaises \/ CloseMcxRow
            \/ McxOut \/ NoMcxEntry
  BY <1>14, <1>0 DEF NoMcxRow, Others, Goto, locals, McxManaged, KeepMcxRow, NextRow, ExitMcx,
     ExitMcxAnswered, ExitMcxRaises, Rest, CloseMcxRow, McxOut, NoMcxEntry
<1>15. CASE \E side \in case.sides : EnterMcx(side)
  BY <1>15, <1>0 DEF EnterMcx, Others, Goto
<1>16. CASE SendMcx
  BY <1>16, <1>0 DEF SendMcx, EntryAnswered, Others, Rest, Goto, locals
<1>17. CASE InsertMcx
  BY <1>17, <1>0 DEF InsertMcx, Others, Goto, locals
<1>18. CASE SettleMcx
  BY <1>18, <1>0 DEF SettleMcx, Others, Rest, Goto
<1>19. CASE \/ WindowPasses \/ Scan \/ ReadStrategy \/ RepairPosition \/ WriteBack \/ Retire
            \/ MarkExit \/ ReadToStart \/ CommitStart \/ ReadToEdit \/ CommitEdit
            \/ ExitPosition
  BY <1>19, <1>s DEF WindowPasses, engine, locals, Scan, Refreshing, ReadStrategy,
     RepairPosition, WriteBack, Retire, Requesting, MarkExit, ReadToStart, CommitStart,
     ReadToEdit, CommitEdit, ExitPosition
<1>20. CASE \/ Crash \/ Restart
  BY <1>20, <1>0 DEF Crash, Goto, Restart, Others, locals
<1>. QED BY <1>1, <1>2, <1>3, <1>4, <1>5, <1>6, <1>7, <1>8, <1>9, <1>10, <1>11, <1>12, <1>13,
   <1>14, <1>15, <1>16, <1>17, <1>18, <1>19, <1>20 DEF Next, Round, FuturesRound, EquityRound,
   McxRound, Refresher, Request

\* An MCX entry under way was allowed by the limit, and no row came since.
LEMMA BelowLimitToEnter ==
  ASSUME IInv, Next
  PROVE  /\ Mcx' <=> Mcx
         /\ Mcx /\ pc' \in {"send", "insert"} => Cardinality(Today) < case.limit
<1>. DEFINE Goal == Mcx /\ pc' \in {"send", "insert"} => Cardinality(Today) < case.limit
<1>. SUFFICES Goal
  BY PlaceTyped DEF IInv, Mcx, family
<1>0. Mcx /\ pc \in {"send", "insert"} => Cardinality(Today) < case.limit
  BY DEF IInv, Days
<1>. USE DEF Mcx, Futures, Equity
<1>1. CASE \/ Load \/ Find("loop") \/ KeepRow \/ SaveRow
           \/ (\E k \in 0 .. MaxSlices : ExitOrder(k))
           \/ (\E k \in 0 .. MaxSlices : ExitAcknowledged(k))
           \/ (\E k \in 0 .. MaxSlices : ExitRaises(k)) \/ ExitAnswered \/ ExitBlocked
  BY <1>1, <1>0 DEF Load, Others, Goto, Find, KeepRow, PutRow, NextRow, SaveRow, Rest, locals,
     ExitOrder, ExitAcknowledged, ExitRaises, ExitAnswered, ExitBlocked
<1>2. CASE \/ FindNothing \/ SetOut \/ SaveConfig \/ ExitLoopEnds \/ NoFutureEntry
           \/ (\E side \in case.sides : EnterFuture(side, case.slices)) \/ MarkAttempted
           \/ SendSlice
  BY <1>2, <1>0 DEF FindNothing, Others, Goto, locals, SetOut, Rest, SaveConfig, NextRow,
     ExitLoopEnds, NoFutureEntry, EnterFuture, MarkAttempted, SendSlice
<1>3. CASE \/ SliceAnswered \/ SliceRaises \/ LookUpPrice \/ InsertFuture \/ SettleFuture
           \/ FailFuture
  BY <1>3, <1>0 DEF SliceAnswered, EntryAnswered, Others, Goto, SliceRaises, locals,
     LookUpPrice, InsertFuture, SettleFuture, Rest, FailFuture
<1>4. CASE \/ SaveSteps \/ SymbolAdded \/ PassSymbol \/ EnterEquity \/ InsertEquity
           \/ SettleEquity \/ SendEquity \/ SymbolsEnd
  BY <1>4, <1>0 DEF SaveSteps, Others, SymbolAdded, Rest, PassSymbol, EnterEquity, Goto,
     InsertEquity, locals, SettleEquity, SendEquity, SymbolsEnd
<1>5. CASE \/ NothingToExit \/ SaveExitSteps
  BY <1>5, <1>0 DEF NothingToExit, Others, Rest, SaveExitSteps, Goto, locals
<1>6. CASE \/ NoMcxRow \/ McxManaged \/ KeepMcxRow \/ ExitMcx \/ ExitMcxAnswered
           \/ ExitMcxRaises \/ CloseMcxRow
           \/ McxOut \/ NoMcxEntry
  BY <1>6, <1>0 DEF NoMcxRow, Others, Goto, locals, McxManaged, KeepMcxRow, NextRow, ExitMcx,
     ExitMcxAnswered, ExitMcxRaises, Rest, CloseMcxRow, McxOut, NoMcxEntry
<1>7. CASE \E side \in case.sides : EnterMcx(side)
  BY <1>7, <1>0 DEF EnterMcx, Others, Goto, BelowLimit
<1>8. CASE \/ SendMcx \/ InsertMcx \/ SettleMcx
  BY <1>8, <1>0 DEF SendMcx, EntryAnswered, Others, Rest, Goto, locals, InsertMcx, SettleMcx
<1>9. CASE \/ WindowPasses \/ Scan \/ ReadStrategy \/ RepairPosition \/ WriteBack
  BY <1>9, <1>0 DEF WindowPasses, engine, locals, Scan, Refreshing, ReadStrategy,
     RepairPosition, WriteBack
<1>10. CASE \/ Retire \/ MarkExit \/ ReadToStart \/ CommitStart \/ ReadToEdit \/ CommitEdit
            \/ ExitPosition
  BY <1>10, <1>0 DEF Retire, Requesting, engine, locals, MarkExit, ReadToStart, CommitStart,
     ReadToEdit, CommitEdit, ExitPosition
<1>11. CASE \/ Crash \/ Restart
  BY <1>11, <1>0 DEF Crash, Goto, Restart, Others, locals
<1>. QED BY <1>1, <1>2, <1>3, <1>4, <1>5, <1>6, <1>7, <1>8, <1>9, <1>10, <1>11 DEF Next,
   Round, FuturesRound, EquityRound, McxRound, Refresher, Request

\* The limit of the day is kept.
LEMMA DaysStep ==
  ASSUME IInv, Next
  PROVE  Days'
<1>1. /\ case' = case /\ case.limit \in Nat /\ (Mcx' <=> Mcx)
      /\ Mcx => Cardinality(Known) <= case.limit
      /\ Mcx /\ pc \in {"send", "insert"} => Cardinality(Known) < case.limit
      /\ Mcx /\ pc' \in {"send", "insert"} => Cardinality(Known) < case.limit
  BY PlaceTyped, CaseFacts, BelowLimitToEnter DEF IInv, Days, Today, Known
<1>2. IsFiniteSet(Known)
  <2>1. IsFiniteSet(Entries)
    BY EntryNat, FS_Interval DEF Entries
  <2>2. Known \subseteq Entries
    BY DEF Known
  <2>. QED BY <2>1, <2>2, FS_Subset
<1>3. /\ Cardinality(Known) \in Nat
      /\ Cardinality(Known \cup {cur}) \in {Cardinality(Known), Cardinality(Known) + 1}
  BY <1>2, FS_CardinalityType, FS_AddElement
<1>4. \/ Known' = Known
      \/ pc = "insert" /\ pc' = "settle" /\ Known' = Known \cup {cur}
  BY KnownStep
<1>5. /\ Mcx' => Cardinality(Known') <= case.limit
      /\ Mcx' /\ pc' \in {"send", "insert"} => Cardinality(Known') < case.limit
  BY <1>1, <1>3, <1>4
<1>. QED BY <1>1, <1>5 DEF Days, Today, Known

-----------------------------------------------------------------------------
(* The account, the rows and their copies.                                 *)

\* A trade moves the units of one entry; a sale adds to none.
LEMMA Traded ==
  ASSUME TypeOK, NEW e \in Entries, NEW k \in Int, Trade(e, k)
  PROVE  /\ \A f \in Entries : f # e => held'[f] = held[f]
         /\ held'[e] = IF ~live THEN held[e] ELSE IF held[e] + k < -1 THEN -1 ELSE held[e] + k
         /\ k <= 0 => \A f \in Entries : held'[f] <= held[f]
<1>1. held \in [Entries -> -1 .. MaxSlices] /\ MaxSlices \in Nat
  BY EntryNat DEF TypeOK
<1>2. held[e] \in -1 .. MaxSlices /\ \A f \in Entries : held[f] \in Int
  BY <1>1
<1>. QED BY <1>1, <1>2 DEF Trade

\* Requests, the refresher and the window leave the engine and the account
\* alone, and what the documents lost sight of stays lost.
LEMMA OutsideStep ==
  ASSUME IInv, WindowPasses \/ Refresher \/ Request
  PROVE  /\ UNCHANGED <<case, pc, copy, mem, todo, cur, sent, bad, left, held>>
         /\ phantom \subseteq phantom' /\ unseen \subseteq unseen'
<1>1. CASE WindowPasses
  BY <1>1 DEF WindowPasses, engine, locals, history
<1>2. CASE Refresher
  BY <1>2 DEF Refresher, Scan, ReadStrategy, RepairPosition, WriteBack, PutRow, Refreshing,
     engine, locals, market
<1>3. CASE Request
  BY <1>3 DEF Request, Retire, MarkExit, ReadToStart, CommitStart, ReadToEdit, CommitEdit,
     ExitPosition, Displaces, Requesting, engine, locals, market, history
<1>. QED BY <1>1, <1>2, <1>3

\* A duplicate moves a unit to the entry under way from an entry without a row,
\* or makes the entry a phantom.
LEMMA Answered ==
  ASSUME TypeOK, EntryAnswered
  PROVE  \/ /\ held'[cur] = held[cur] + 1 /\ phantom' = phantom
            /\ \E f \in Entries \ {cur} :
                  /\ rows[f].status = "none" /\ held[f] > 0 /\ held'[f] = held[f] - 1
                  /\ unseen' = IF held[f] = 1 THEN unseen \ {f} ELSE unseen
                  /\ \A e \in Entries \ {f, cur} : held'[e] = held[e]
         \/ held' = held /\ phantom' = phantom \cup {cur} /\ unseen' = unseen
<1>. DEFINE f == book[EntryKey]
<1>0. held \in [Entries -> -1 .. MaxSlices] /\ cur \in Entries /\ f \in 0 .. MaxEntries
  <2>1. mem[cur] \in Rows /\ book \in [Keys -> 0 .. MaxEntries]
    BY DEF TypeOK
  <2>2. EntryKey \in Keys
    BY <2>1 DEF EntryKey, Keys, Rows
  <2>. QED BY <2>1, <2>2 DEF TypeOK
<1>1. CASE Adopts(f)
  <2>1. /\ held' = [held EXCEPT ![f] = held[f] - 1, ![cur] = held[cur] + 1]
        /\ unseen' = IF held[f] = 1 THEN unseen \ {f} ELSE unseen
        /\ phantom' = phantom
    BY <1>1 DEF EntryAnswered, Adopts
  <2>2. f \in Entries \ {cur} /\ rows[f].status = "none" /\ held[f] > 0
    BY <1>0, <1>1, EntryNat DEF Adopts, Entries
  <2>3. /\ held'[cur] = held[cur] + 1 /\ held'[f] = held[f] - 1
        /\ \A e \in Entries \ {f, cur} : held'[e] = held[e]
    BY <1>0, <2>1, <2>2
  <2>. QED BY <2>1, <2>2, <2>3
<1>2. CASE ~Adopts(f)
  BY <1>2 DEF EntryAnswered, market
<1>. QED BY <1>1, <1>2

\* The orders of a futures entry, from its mark to its row.
LEMMA FuturesOrders ==
  ASSUME IInv, Next
  PROVE  /\ Futures /\ pc' \in {"mark", "send", "quote", "insert"} =>
             /\ mem'[cur'].net = case.slices
             /\ held'[cur'] <= sent'
             /\ live /\ ~bad' /\ cur' \notin phantom' => sent' <= held'[cur']
         /\ Futures /\ pc' \in {"mark", "send"} => sent' < case.slices /\ live
         /\ Futures /\ pc' \in {"quote", "insert"} => (live => sent' = case.slices)
         /\ Futures /\ pc' = "fail" => held'[cur'] <= 0 \/ cur' \in unseen'
<1>. DEFINE Goal == /\ Futures /\ pc' \in {"mark", "send", "quote", "insert"} =>
                        /\ mem'[cur'].net = case.slices
                        /\ held'[cur'] <= sent'
                        /\ live /\ ~bad' /\ cur' \notin phantom' => sent' <= held'[cur']
                    /\ Futures /\ pc' \in {"mark", "send"} => sent' < case.slices /\ live
                    /\ Futures /\ pc' \in {"quote", "insert"} => (live => sent' = case.slices)
                    /\ Futures /\ pc' = "fail" => held'[cur'] <= 0 \/ cur' \in unseen'
<1>. SUFFICES Goal
  OBVIOUS
<1>0. /\ Futures /\ pc \in {"mark", "send", "quote", "insert"} =>
          /\ mem[cur].net = case.slices
          /\ held[cur] <= sent
          /\ live /\ ~bad /\ cur \notin phantom => sent <= held[cur]
      /\ Futures /\ pc \in {"mark", "send"} => sent < case.slices /\ live
      /\ Futures /\ pc \in {"quote", "insert"} => (live => sent = case.slices)
      /\ Futures /\ pc = "fail" => held[cur] <= 0 \/ cur \in unseen
  BY DEF IInv, Ordering
<1>c. case' = case /\ TypeOK /\ cur \in Entries
  BY PlaceTyped DEF IInv, TypeOK
<1>. USE DEF Futures, Equity, Mcx, family, live
<1>1. CASE Load
  BY <1>1, <1>0, <1>c DEF Load, Others, Goto
<1>2. CASE Find("loop")
  BY <1>2, <1>0, <1>c DEF Find, Others, Goto
<1>3. CASE KeepRow
  BY <1>3, <1>0, <1>c DEF KeepRow, Others, PutRow, NextRow
<1>4. CASE SaveRow
  BY <1>4, <1>0, <1>c DEF SaveRow, Others, PutRow, NextRow, Rest, Goto, locals
<1>5. CASE \/ (\E k \in 0 .. MaxSlices : ExitOrder(k))
           \/ (\E k \in 0 .. MaxSlices : ExitAcknowledged(k))
           \/ (\E k \in 0 .. MaxSlices : ExitRaises(k))
  BY <1>5, <1>0, <1>c DEF ExitOrder, Others, Goto, ExitAcknowledged, ExitRaises, Rest, AtExit
<1>6. CASE ExitAnswered \/ ExitBlocked
  BY <1>6, <1>0, <1>c DEF ExitAnswered, ExitBlocked, Others, Goto
<1>7. CASE \/ FindNothing \/ SetOut \/ SaveConfig \/ ExitLoopEnds \/ NoFutureEntry
           \/ InsertFuture \/ SettleFuture \/ FailFuture
  BY <1>7, <1>0, <1>c DEF FindNothing, Others, Goto, locals, SetOut, Rest, SaveConfig, NextRow,
     ExitLoopEnds, NoFutureEntry, InsertFuture, SettleFuture, FailFuture
<1>8. ASSUME NEW side \in case.sides, EnterFuture(side, case.slices) PROVE Goal
  <2>. DEFINE e == First(New)
  <2>1. e \in Entries /\ held[e] = 0
    BY <1>8, <1>c, NewIn DEF EnterFuture
  <2>2. /\ cur' = e /\ sent' = 0 /\ held' = held /\ Futures
        /\ pc' \in {"mark", "quote", "insert", "fail"} /\ (pc' = "mark" => live)
        /\ live => pc' \notin {"quote", "insert"}
    BY <1>8 DEF EnterFuture, Goto, market
  <2>3. mem'[e].net = case.slices
    BY <1>8, <2>1 DEF EnterFuture, NoRows, NoRow
  <2>4. case.slices \in 1 .. MaxSlices /\ MaxSlices \in Nat
    BY <1>c, CaseFacts, EntryNat
  <2>. QED BY <2>1, <2>2, <2>3, <2>4
<1>9. CASE MarkAttempted
  BY <1>9, <1>0, <1>c DEF MarkAttempted, Others, Goto, locals, market, history
<1>10. CASE SendSlice
  <2>0. /\ Futures /\ pc = "send" /\ sent' = sent + 1 /\ UNCHANGED <<mem, cur>>
        /\ pc' \in {"send", "quote", "insert"} /\ (pc' = "send" => sent' # mem[cur].net)
        /\ pc' # "send" => sent' = mem[cur].net
    BY <1>10 DEF SendSlice, Goto, AfterOrders, AllSent
  <2>1. /\ held[cur] \in -1 .. MaxSlices /\ sent \in 0 .. MaxSlices /\ MaxSlices \in Nat
        /\ case.slices \in 1 .. MaxSlices /\ live
    BY <2>0, <1>0, <1>c, CaseFacts, EntryNat DEF TypeOK
  <2>2. /\ phantom' = phantom
        /\ \/ Trade(cur, 1) /\ (bad' = bad \/ bad' = TRUE)
           \/ held' = held /\ bad' = TRUE
    BY <1>10 DEF SendSlice, AcceptEntry, market, history
  <2>3. held' = held \/ held'[cur] = held[cur] + 1
    BY <2>1, <2>2, <1>c, Traded
  <2>4. Trade(cur, 1) => held'[cur] = held[cur] + 1
    BY <2>1, <1>c, Traded
  <2>. QED BY <2>0, <2>1, <2>2, <2>3, <2>4, <1>0, <1>c
<1>11. CASE SliceAnswered
  <2>0. /\ Futures /\ pc = "send" /\ sent' = sent + 1 /\ UNCHANGED <<mem, cur>>
        /\ pc' \in {"send", "quote", "insert"} /\ (pc' = "send" => sent' # mem[cur].net)
        /\ pc' # "send" => sent' = mem[cur].net
    BY <1>11 DEF SliceAnswered, EntryAnswered, Goto, AfterOrders, AllSent
  <2>1. /\ held[cur] \in -1 .. MaxSlices /\ sent \in 0 .. MaxSlices /\ MaxSlices \in Nat
        /\ case.slices \in 1 .. MaxSlices /\ live
    BY <2>0, <1>0, <1>c, CaseFacts, EntryNat DEF TypeOK
  <2>2. \/ /\ bad' = bad
           /\ \/ held'[cur] = held[cur] + 1 /\ phantom' = phantom
              \/ held' = held /\ phantom' = phantom \cup {cur}
        \/ bad' = TRUE /\ held' = held /\ phantom' = phantom
    BY <1>11, <1>c, Answered DEF SliceAnswered, market, history
  <2>. QED BY <2>0, <2>1, <2>2, <1>0, <1>c
<1>12. CASE SliceRaises
  <2>1. pc' = "fail" /\ cur' = cur /\ (held'[cur] > 0 => cur \in unseen')
    BY <1>12 DEF SliceRaises, LosesSight, Goto, locals
  <2>2. held' \in [Entries -> -1 .. MaxSlices] /\ MaxSlices \in Nat
    BY AccountTyped, EntryNat
  <2>. QED BY <2>1, <2>2, <1>c
<1>13. CASE LookUpPrice
  <2>1. /\ pc = "quote" /\ pc' \in {"insert", "fail"} /\ UNCHANGED <<mem, cur, held, sent, bad, phantom>>
        /\ pc' = "fail" /\ held'[cur] > 0 => cur \in unseen'
    BY <1>13 DEF LookUpPrice, LosesSight, Goto, locals, market
  <2>2. held' \in [Entries -> -1 .. MaxSlices] /\ MaxSlices \in Nat
    BY AccountTyped, EntryNat
  <2>. QED BY <2>1, <2>2, <1>0, <1>c
<1>14. CASE \/ SaveSteps \/ SymbolAdded \/ PassSymbol \/ EnterEquity \/ InsertEquity
            \/ SettleEquity \/ SendEquity \/ SymbolsEnd
  BY <1>14, <1>0, <1>c DEF SaveSteps, Others, SymbolAdded, Rest, PassSymbol, EnterEquity, Goto,
     InsertEquity, locals, SettleEquity, SendEquity, SymbolsEnd
<1>15. CASE \/ NothingToExit \/ SaveExitSteps
  BY <1>15, <1>0, <1>c DEF NothingToExit, Others, Rest, SaveExitSteps, Goto, locals
<1>16. CASE \/ NoMcxRow \/ McxManaged \/ KeepMcxRow \/ ExitMcx \/ ExitMcxAnswered
            \/ ExitMcxRaises \/ CloseMcxRow
            \/ McxOut \/ NoMcxEntry
  BY <1>16, <1>0, <1>c DEF NoMcxRow, Others, Goto, locals, McxManaged, KeepMcxRow, NextRow,
     ExitMcx, ExitMcxAnswered, ExitMcxRaises, Rest, CloseMcxRow, McxOut, NoMcxEntry
<1>17. CASE \/ (\E side \in case.sides : EnterMcx(side)) \/ SendMcx \/ InsertMcx \/ SettleMcx
  BY <1>17, <1>0, <1>c DEF EnterMcx, Others, Goto, SendMcx, EntryAnswered, Rest, locals,
     InsertMcx, SettleMcx
<1>18. CASE \/ WindowPasses \/ Scan \/ ReadStrategy \/ RepairPosition \/ WriteBack \/ Retire
            \/ MarkExit \/ ReadToStart \/ CommitStart \/ ReadToEdit \/ CommitEdit
            \/ ExitPosition
  <2>1. /\ UNCHANGED <<case, pc, copy, mem, todo, cur, sent, bad, left, held>>
        /\ phantom \subseteq phantom' /\ unseen \subseteq unseen'
    BY <1>18, OutsideStep DEF Refresher, Request
  <2>. QED BY <2>1, <1>0, <1>c
<1>19. CASE Crash
  BY <1>19, <1>0, <1>c DEF Crash, Goto
<1>20. CASE Restart
  BY <1>20, <1>0, <1>c DEF Restart, Others, Goto, locals
<1>. QED BY <1>1, <1>2, <1>3, <1>4, <1>5, <1>6, <1>7, <1>8, <1>9, <1>10, <1>11, <1>12, <1>13,
   <1>14, <1>15, <1>16, <1>17, <1>18, <1>19, <1>20 DEF Next, Round, FuturesRound, EquityRound,
   McxRound, Refresher, Request

\* A mark for exit changes neither the status nor the quantity of a row.
LEMMA MarksKeep ==
  ASSUME TypeOK, MarkExit \/ ExitPosition
  PROVE  /\ \A e \in Entries : rows'[e].status = rows[e].status /\ rows'[e].net = rows[e].net
         /\ Open(rows') = Open(rows)
<1>1. rows \in [Entries -> Rows] /\ Open(rows) \subseteq Entries
  BY DEF TypeOK, Open
<1>2. \A e \in Entries : rows'[e] = rows[e] \/ rows'[e] = [rows[e] EXCEPT !.decision = "exitit"]
  BY <1>1 DEF MarkExit, ExitPosition
<1>3. \A e \in Entries : rows'[e].status = rows[e].status /\ rows'[e].net = rows[e].net
  BY <1>1, <1>2 DEF Rows
<1>. QED BY <1>3 DEF Open

\* The row and the order of an equity entry.
LEMMA EquityOrders ==
  ASSUME IInv, Next
  PROVE  /\ Equity /\ pc' = "insert" =>
             mem'[cur'].status = "open" /\ mem'[cur'].net = 1 /\ held'[cur'] = 0
         /\ Equity /\ pc' \in {"settle", "send"} =>
             /\ rows'[cur'].status = "open" /\ rows'[cur'].net = 1 /\ held'[cur'] = 0
             /\ cur' \in rtodo' => rcopy'[cur'].net = 1
<1>. DEFINE Goal == /\ Equity /\ pc' = "insert" =>
                        mem'[cur'].status = "open" /\ mem'[cur'].net = 1 /\ held'[cur'] = 0
                    /\ Equity /\ pc' \in {"settle", "send"} =>
                        /\ rows'[cur'].status = "open" /\ rows'[cur'].net = 1 /\ held'[cur'] = 0
                        /\ cur' \in rtodo' => rcopy'[cur'].net = 1
<1>. SUFFICES Goal
  OBVIOUS
<1>0. /\ Equity /\ pc = "insert" =>
          mem[cur].status = "open" /\ mem[cur].net = 1 /\ held[cur] = 0
      /\ Equity /\ pc \in {"settle", "send"} =>
          /\ rows[cur].status = "open" /\ rows[cur].net = 1 /\ held[cur] = 0
          /\ cur \in rtodo => rcopy[cur].net = 1
  BY DEF IInv, Ordering
<1>c. case' = case /\ TypeOK /\ cur \in Entries
  BY PlaceTyped DEF IInv, TypeOK
<1>. USE DEF Futures, Equity, Mcx, family, live
<1>1. CASE Load
  BY <1>1, <1>0, <1>c DEF Load, Others, Goto
<1>2. CASE Find("loop")
  BY <1>2, <1>0, <1>c DEF Find, Others, Goto
<1>3. CASE KeepRow
  BY <1>3, <1>0, <1>c DEF KeepRow, Others, PutRow, NextRow
<1>4. CASE SaveRow
  BY <1>4, <1>0, <1>c DEF SaveRow, Others, PutRow, NextRow, Rest, Goto, locals
<1>5. CASE \/ (\E k \in 0 .. MaxSlices : ExitOrder(k))
           \/ (\E k \in 0 .. MaxSlices : ExitAcknowledged(k))
           \/ (\E k \in 0 .. MaxSlices : ExitRaises(k))
  BY <1>5, <1>0, <1>c DEF ExitOrder, Others, Goto, ExitAcknowledged, ExitRaises, Rest, AtExit
<1>6. CASE ExitAnswered \/ ExitBlocked
  BY <1>6, <1>0, <1>c DEF ExitAnswered, ExitBlocked, Others, Goto
<1>7. CASE \/ FindNothing \/ SetOut \/ SaveConfig \/ ExitLoopEnds \/ NoFutureEntry
           \/ (\E side \in case.sides : EnterFuture(side, case.slices)) \/ MarkAttempted
           \/ SendSlice
  BY <1>7, <1>0, <1>c DEF FindNothing, Others, Goto, locals, SetOut, Rest, SaveConfig, NextRow,
     ExitLoopEnds, NoFutureEntry, EnterFuture, MarkAttempted, SendSlice
<1>8. CASE \/ SliceAnswered \/ SliceRaises \/ LookUpPrice \/ InsertFuture \/ SettleFuture
           \/ FailFuture
  BY <1>8, <1>0, <1>c DEF SliceAnswered, EntryAnswered, Others, Goto, SliceRaises, locals,
     LookUpPrice, InsertFuture, SettleFuture, Rest, FailFuture
<1>9. CASE \/ SaveSteps \/ SymbolAdded \/ PassSymbol \/ SendEquity \/ SymbolsEnd
           \/ NothingToExit \/ SaveExitSteps
  BY <1>9, <1>0, <1>c DEF SaveSteps, Others, SymbolAdded, Rest, PassSymbol, SendEquity, Goto,
     SymbolsEnd, locals, NothingToExit, SaveExitSteps
<1>10. CASE EnterEquity
  <2>. DEFINE e == First(New)
  <2>1. e \in Entries /\ held[e] = 0
    BY <1>10, <1>c, NewIn DEF EnterEquity
  <2>2. /\ cur' = e /\ held' = held /\ pc' = "insert"
        /\ mem' = [NoRows EXCEPT ![e] = [NoRow EXCEPT !.status = "open", !.net = 1, !.kind = First(left)]]
    BY <1>10 DEF EnterEquity, Goto, market
  <2>3. mem'[e].status = "open" /\ mem'[e].net = 1
    BY <2>1, <2>2 DEF NoRows, NoRow
  <2>. QED BY <2>1, <2>2, <2>3
<1>11. CASE InsertEquity
  <2>1. cur \notin rtodo
    BY <1>11 DEF InsertEquity, IInv, FreshEntry, Rowless, Places
  <2>2. /\ rows' = [rows EXCEPT ![cur] = mem[cur]] /\ pc = "insert" /\ pc' = "settle"
        /\ UNCHANGED <<cur, held, rtodo>> /\ Equity
    BY <1>11 DEF InsertEquity, Goto, locals, market, Others, refresher
  <2>3. rows'[cur] = mem[cur]
    BY <2>2, <1>c DEF TypeOK
  <2>. QED BY <2>1, <2>2, <2>3, <1>0, <1>c
<1>12. CASE SettleEquity
  BY <1>12, <1>0, <1>c DEF SettleEquity, Others, Goto, market, refresher
<1>13. CASE \/ NoMcxRow \/ McxManaged \/ KeepMcxRow \/ ExitMcx \/ ExitMcxAnswered
            \/ ExitMcxRaises \/ CloseMcxRow
            \/ McxOut \/ NoMcxEntry
  BY <1>13, <1>0, <1>c DEF NoMcxRow, Others, Goto, locals, McxManaged, KeepMcxRow, NextRow,
     ExitMcx, ExitMcxAnswered, ExitMcxRaises, Rest, CloseMcxRow, McxOut, NoMcxEntry
<1>14. CASE \/ (\E side \in case.sides : EnterMcx(side)) \/ SendMcx \/ InsertMcx \/ SettleMcx
  BY <1>14, <1>0, <1>c DEF EnterMcx, Others, Goto, SendMcx, EntryAnswered, Rest, locals,
     InsertMcx, SettleMcx
<1>15. CASE WindowPasses
  BY <1>15, <1>0, <1>c DEF WindowPasses, engine, locals, refresher
<1>16. CASE Scan
  <2>1. /\ UNCHANGED <<pc, cur, mem, held, rows, case>> /\ rtodo' = Open(rows)
        /\ rcopy' = [e \in Entries |-> IF e \in Open(rows) THEN rows[e] ELSE NoRow]
    BY <1>16 DEF Scan, Refreshing, engine, locals, market
  <2>. QED BY <2>1, <1>0, <1>c
<1>17. CASE ReadStrategy
  <2>1. /\ UNCHANGED <<pc, cur, mem, held, rows, rtodo, case>>
        /\ \E d : rcopy' = [rcopy EXCEPT ![First(rtodo)] = [rcopy[First(rtodo)] EXCEPT !.decision = d]]
    BY <1>17 DEF ReadStrategy, Refreshing, engine, locals, market
  <2>2. rcopy[cur] \in Rows /\ rcopy \in [Entries -> Rows]
    BY <1>c DEF TypeOK
  <2>3. rcopy'[cur].net = rcopy[cur].net
    BY <2>1, <2>2 DEF Rows
  <2>. QED BY <2>1, <2>3, <1>0, <1>c
<1>18. CASE RepairPosition
  BY <1>18, <1>0, <1>c DEF RepairPosition, Refreshing, engine, locals, market
<1>19. CASE WriteBack
  <2>1. /\ UNCHANGED <<pc, cur, mem, held, case>> /\ rtodo' = rtodo \ {First(rtodo)}
        /\ rcopy' = [rcopy EXCEPT ![First(rtodo)] = NoRow]
        /\ rows' = rows \/ rows' = [rows EXCEPT ![First(rtodo)] = rcopy[First(rtodo)]]
    BY <1>19 DEF WriteBack, PutRow, Refreshing, engine, locals, market
  <2>2. First(rtodo) \in rtodo /\ rcopy[First(rtodo)].status = "open"
    BY <1>19, <1>c, TodoIn DEF WriteBack, IInv, Places, Copies
  <2>3. /\ cur \in rtodo' => cur # First(rtodo) /\ cur \in rtodo
        /\ cur # First(rtodo) => rcopy'[cur] = rcopy[cur] /\ rows'[cur] = rows[cur]
        /\ cur = First(rtodo) => rows'[cur] = rows[cur] \/ rows'[cur] = rcopy[cur]
    BY <2>1, <2>2, <1>c DEF TypeOK
  <2>. QED BY <2>1, <2>2, <2>3, <1>0, <1>c
<1>20. CASE \/ Retire \/ ReadToStart \/ CommitStart \/ ReadToEdit \/ CommitEdit
  BY <1>20, <1>0, <1>c DEF Retire, Requesting, engine, locals, ReadToStart, CommitStart,
     ReadToEdit, CommitEdit, market, refresher
<1>21. CASE \/ MarkExit \/ ExitPosition
  <2>1. UNCHANGED <<pc, cur, mem, held, rtodo, rcopy, case>>
    BY <1>21 DEF MarkExit, ExitPosition, Requesting, engine, locals, market, refresher
  <2>2. rows'[cur].status = rows[cur].status /\ rows'[cur].net = rows[cur].net
    BY <1>21, <1>c, MarksKeep
  <2>. QED BY <2>1, <2>2, <1>0, <1>c
<1>22. CASE Crash
  BY <1>22, <1>0, <1>c DEF Crash, Goto
<1>23. CASE Restart
  BY <1>23, <1>0, <1>c DEF Restart, Others, Goto, locals
<1>. QED BY <1>1, <1>2, <1>3, <1>4, <1>5, <1>6, <1>7, <1>8, <1>9, <1>10, <1>11, <1>12, <1>13,
   <1>14, <1>15, <1>16, <1>17, <1>18, <1>19, <1>20, <1>21, <1>22, <1>23 DEF Next, Round,
   FuturesRound, EquityRound, McxRound, Refresher, Request

\* The order and the row of an MCX entry.
LEMMA McxOrders ==
  ASSUME IInv, Next
  PROVE  /\ Mcx /\ pc' \in {"send", "insert"} => mem'[cur'].status = "open" /\ mem'[cur'].net = 1
         /\ Mcx /\ pc' = "send" => held'[cur'] = 0
         /\ Mcx /\ pc' = "insert" =>
             held'[cur'] <= 1 /\ (live /\ cur' \notin phantom' => held'[cur'] = 1)
<1>. DEFINE Goal == /\ Mcx /\ pc' \in {"send", "insert"} => mem'[cur'].status = "open" /\ mem'[cur'].net = 1
                    /\ Mcx /\ pc' = "send" => held'[cur'] = 0
                    /\ Mcx /\ pc' = "insert" =>
                        held'[cur'] <= 1 /\ (live /\ cur' \notin phantom' => held'[cur'] = 1)
<1>. SUFFICES Goal
  OBVIOUS
<1>0. /\ Mcx /\ pc \in {"send", "insert"} => mem[cur].status = "open" /\ mem[cur].net = 1
      /\ Mcx /\ pc = "send" => held[cur] = 0
      /\ Mcx /\ pc = "insert" => held[cur] <= 1 /\ (live /\ cur \notin phantom => held[cur] = 1)
  BY DEF IInv, Ordering
<1>c. case' = case /\ TypeOK /\ cur \in Entries /\ live \in BOOLEAN
  BY PlaceTyped, CaseFacts DEF IInv, TypeOK
<1>. USE DEF Futures, Equity, Mcx, family
<1>1. CASE Load
  BY <1>1, <1>0, <1>c DEF Load, Others, Goto
<1>2. CASE Find("loop")
  BY <1>2, <1>0, <1>c DEF Find, Others, Goto
<1>3. CASE KeepRow
  BY <1>3, <1>0, <1>c DEF KeepRow, Others, PutRow, NextRow
<1>4. CASE SaveRow
  BY <1>4, <1>0, <1>c DEF SaveRow, Others, PutRow, NextRow, Rest, Goto, locals
<1>5. CASE \/ (\E k \in 0 .. MaxSlices : ExitOrder(k))
           \/ (\E k \in 0 .. MaxSlices : ExitAcknowledged(k))
           \/ (\E k \in 0 .. MaxSlices : ExitRaises(k))
  BY <1>5, <1>0, <1>c DEF ExitOrder, Others, Goto, ExitAcknowledged, ExitRaises, Rest, AtExit
<1>6. CASE ExitAnswered \/ ExitBlocked
  BY <1>6, <1>0, <1>c DEF ExitAnswered, ExitBlocked, Others, Goto
<1>7. CASE \/ FindNothing \/ SetOut \/ SaveConfig \/ ExitLoopEnds \/ NoFutureEntry
           \/ (\E side \in case.sides : EnterFuture(side, case.slices)) \/ MarkAttempted
           \/ SendSlice
  BY <1>7, <1>0, <1>c DEF FindNothing, Others, Goto, locals, SetOut, Rest, SaveConfig, NextRow,
     ExitLoopEnds, NoFutureEntry, EnterFuture, MarkAttempted, SendSlice
<1>8. CASE \/ SliceAnswered \/ SliceRaises \/ LookUpPrice \/ InsertFuture \/ SettleFuture
           \/ FailFuture
  BY <1>8, <1>0, <1>c DEF SliceAnswered, EntryAnswered, Others, Goto, SliceRaises, locals,
     LookUpPrice, InsertFuture, SettleFuture, Rest, FailFuture
<1>9. CASE \/ SaveSteps \/ SymbolAdded \/ PassSymbol \/ EnterEquity \/ InsertEquity
           \/ SettleEquity \/ SendEquity \/ SymbolsEnd
  BY <1>9, <1>0, <1>c DEF SaveSteps, Others, SymbolAdded, Rest, PassSymbol, EnterEquity, Goto,
     InsertEquity, locals, SettleEquity, SendEquity, SymbolsEnd
<1>10. CASE \/ NothingToExit \/ SaveExitSteps
  BY <1>10, <1>0, <1>c DEF NothingToExit, Others, Rest, SaveExitSteps, Goto, locals
<1>11. CASE \/ NoMcxRow \/ McxManaged \/ KeepMcxRow \/ ExitMcx \/ ExitMcxAnswered
            \/ ExitMcxRaises \/ CloseMcxRow
            \/ McxOut \/ NoMcxEntry
  BY <1>11, <1>0, <1>c DEF NoMcxRow, Others, Goto, locals, McxManaged, KeepMcxRow, NextRow,
     ExitMcx, ExitMcxAnswered, ExitMcxRaises, Rest, CloseMcxRow, McxOut, NoMcxEntry
<1>12. CASE \E side \in case.sides : EnterMcx(side)
  <2>. DEFINE e == First(New)
  <2>1. e \in Entries /\ held[e] = 0
    BY <1>12, <1>c, NewIn DEF EnterMcx
  <2>2. PICK side \in case.sides : EnterMcx(side)
    BY <1>12
  <2>4. /\ cur' = e /\ held' = held /\ pc' = IF live THEN "send" ELSE "insert"
        /\ mem' = [NoRows EXCEPT ![e] = [NoRow EXCEPT !.status = "open", !.net = 1,
                      !.kind = copy.contract, !.side = side]]
    BY <2>2 DEF EnterMcx, Goto, market
  <2>3. mem'[e].status = "open" /\ mem'[e].net = 1
    BY <2>1, <2>4 DEF NoRows, NoRow
  <2>. QED BY <2>1, <2>4, <2>3, <1>c
<1>13. CASE SendMcx
  <2>1. /\ pc = "send" /\ Mcx
        /\ \/ pc' = "insert" /\ UNCHANGED <<cur, mem>> /\ (Trade(cur, 1) \/ EntryAnswered)
           \/ pc' = "idle"
    BY <1>13 DEF SendMcx, AcceptEntry, Rest, Goto, locals
  <2>2. Trade(cur, 1) => held'[cur] = IF live THEN 1 ELSE 0
    BY <2>1, <1>0, <1>c, Traded
  <2>3. held[cur] = 0
    BY <2>1, <1>0
  <2>4. ASSUME EntryAnswered
        PROVE  held'[cur] = held[cur] + 1 \/ (held' = held /\ phantom' = phantom \cup {cur})
    BY <1>c, <2>4, Answered
  <2>5. EntryAnswered => held'[cur] = 1 \/ (held'[cur] = 0 /\ cur \in phantom')
    BY <2>3, <2>4
  <2>. QED BY <2>1, <2>2, <2>5, <1>0, <1>c
<1>14. CASE \/ InsertMcx \/ SettleMcx
  BY <1>14, <1>0, <1>c DEF InsertMcx, Others, Goto, locals, SettleMcx, Rest
<1>15. CASE \/ WindowPasses \/ Scan \/ ReadStrategy \/ RepairPosition \/ WriteBack \/ Retire
            \/ MarkExit \/ ReadToStart \/ CommitStart \/ ReadToEdit \/ CommitEdit
            \/ ExitPosition
  <2>1. UNCHANGED <<case, pc, mem, cur, held>> /\ phantom \subseteq phantom'
    BY <1>15, OutsideStep DEF Refresher, Request
  <2>. QED BY <2>1, <1>0, <1>c
<1>16. CASE Crash
  BY <1>16, <1>0, <1>c DEF Crash, Goto
<1>17. CASE Restart
  BY <1>17, <1>0, <1>c DEF Restart, Others, Goto, locals
<1>. QED BY <1>1, <1>2, <1>3, <1>4, <1>5, <1>6, <1>7, <1>8, <1>9, <1>10, <1>11, <1>12, <1>13,
   <1>14, <1>15, <1>16, <1>17 DEF Next, Round, FuturesRound, EquityRound, McxRound, Refresher,
   Request

\* Ordering is kept.
LEMMA OrderingStep ==
  ASSUME IInv, Next
  PROVE  Ordering'
<1>1. case' = case
  BY PlaceTyped DEF IInv
<1>. QED BY <1>1, FuturesOrders, EquityOrders, McxOrders DEF Ordering, Futures, Equity, Mcx, family, live

\* The engine's copies of the rows it has still to visit speak for the account.
LEMMA VisitsCopied ==
  ASSUME IInv, Next
  PROVE  \A e \in Visits' : mem'[e].status = "open" /\ Asks(mem[e], e)'
<1>. DEFINE Goal == \A e \in Visits' : mem'[e].status = "open" /\ Asks(mem[e], e)'
<1>. SUFFICES Goal
  OBVIOUS
<1>0. /\ \A e \in Visits : mem[e].status = "open" /\ Asks(mem[e], e)
      /\ todo \subseteq Entries /\ TypeOK /\ case' = case
      /\ todo # {} => First(todo) \in todo /\ First(todo) \in Entries
      /\ AtRow => todo # {}
  BY PlaceTyped, TodoIn DEF IInv, Copies, TypeOK, Places
<1>g. ASSUME Visits' \subseteq Visits, unseen \subseteq unseen', phantom \subseteq phantom',
             \A e \in Visits' : mem'[e] = mem[e] /\ held'[e] = held[e]
      PROVE  Goal
  BY <1>0, <1>g DEF Asks, live
<1>n. ASSUME pc' \notin {"loop", "steps", "save", "config"}
      PROVE  Goal
  BY <1>n DEF Visits, AtRow
<1>1. CASE \/ Load \/ (\E k \in 0 .. MaxSlices : ExitRaises(k)) \/ Crash \/ Restart
           \/ NothingToExit
  BY <1>1, <1>n DEF Load, Others, Goto, ExitRaises, Rest, Crash, Restart, locals, NothingToExit
<1>2. CASE Find("loop")
  <2>1. /\ pc = "find" /\ pc' = "loop" /\ todo' = Open(rows) /\ UNCHANGED <<held, unseen, phantom>>
        /\ mem' = [e \in Entries |-> IF e \in Open(rows) THEN rows[e] ELSE NoRow]
    BY <1>2 DEF Find, Goto, market, history
  <2>2. ASSUME NEW e \in Visits'
        PROVE  mem'[e].status = "open" /\ Asks(mem[e], e)'
    <3>1. e \in Entries /\ e \in Open(rows) /\ rows[e].status = "open" /\ mem'[e] = rows[e]
      BY <2>1, <2>2 DEF Visits, Open
    <3>2. e \notin unseen => held[e] <= rows[e].net
      BY <2>1, <3>1 DEF IInv, Tracked, Entering
    <3>3. live /\ e \notin phantom => rows[e].net <= held[e]
      BY <2>1, <3>1 DEF IInv, RowBacked, InHand, Exiting
    <3>. QED BY <1>0, <2>1, <3>1, <3>2, <3>3 DEF Asks, live
  <2>. QED BY <2>2
<1>3. CASE KeepRow
  <2>1. /\ Visits' \subseteq Visits /\ First(todo) \notin Visits'
        /\ held' = held /\ phantom \subseteq phantom' /\ unseen' = unseen
        /\ mem' = [mem EXCEPT ![First(todo)] = NoRow] \/ mem' = mem
    BY <1>3, <1>0 DEF KeepRow, PutRow, NextRow, market, history, locals, Visits, AtRow
  <2>2. \A e \in Visits' : e # First(todo) /\ e \in Entries
    BY <2>1, <1>0 DEF Visits
  <2>. QED BY <2>1, <2>2, <1>0, <1>g DEF TypeOK
<1>4. CASE SaveRow
  <2>1. CASE pc' = "idle"
    BY <2>1, <1>n
  <2>2. CASE pc' # "idle"
    <3>1. /\ Visits' \subseteq Visits /\ First(todo) \notin Visits'
          /\ held' = held /\ phantom \subseteq phantom' /\ unseen' = unseen
          /\ mem' = [mem EXCEPT ![First(todo)] = NoRow] \/ mem' = mem
      BY <1>4, <2>2, <1>0 DEF SaveRow, PutRow, NextRow, Rest, Goto, market, locals, Visits,
         AtRow
    <3>2. \A e \in Visits' : e # First(todo) /\ e \in Entries
      BY <3>1, <1>0 DEF Visits
    <3>. QED BY <3>1, <3>2, <1>0, <1>g DEF TypeOK
  <2>. QED BY <2>1, <2>2
<1>5. ASSUME NEW k \in 0 .. MaxSlices, ExitOrder(k) PROVE Goal
  <2>1. /\ pc = "loop" /\ pc' \in {"steps", "save"} /\ todo' = todo /\ todo # {}
        /\ phantom' = phantom /\ unseen \subseteq unseen'
    BY <1>5 DEF ExitOrder, AtExit, Goto, history, locals
  <2>2. First(todo) \in Entries /\ (held' = held \/ Trade(First(todo), -k))
    BY <1>5, <1>0, <2>1 DEF ExitOrder, market
  <2>3. \A e \in Entries : e # First(todo) => held'[e] = held[e] /\ mem'[e] = mem[e]
    BY <1>5, <1>0, <2>2, Traded DEF ExitOrder, TypeOK, locals
  <2>4. /\ Visits' \subseteq Visits
        /\ \A e \in Visits' : e # First(todo) /\ e \in Entries
    BY <2>1, <1>0 DEF Visits, AtRow
  <2>. QED BY <2>1, <2>3, <2>4, <1>g
<1>6. ASSUME NEW k \in 0 .. MaxSlices, ExitAcknowledged(k) PROVE Goal
  <2>1. /\ pc = "loop" /\ pc' \in {"steps", "save"} /\ todo' = todo /\ todo # {}
        /\ phantom' = phantom /\ unseen \subseteq unseen'
    BY <1>6 DEF ExitAcknowledged, AtExit, Goto, history, locals
  <2>2. First(todo) \in Entries /\ (held' = held \/ Trade(First(todo), -k))
    BY <1>6, <1>0, <2>1 DEF ExitAcknowledged, market
  <2>3. \A e \in Entries : e # First(todo) => held'[e] = held[e] /\ mem'[e] = mem[e]
    BY <1>6, <1>0, <2>2, Traded DEF ExitAcknowledged, TypeOK, locals
  <2>4. /\ Visits' \subseteq Visits
        /\ \A e \in Visits' : e # First(todo) /\ e \in Entries
    BY <2>1, <1>0 DEF Visits, AtRow
  <2>. QED BY <2>1, <2>3, <2>4, <1>g
<1>7. CASE ExitAnswered \/ ExitBlocked
  <2>1. /\ pc = "loop" /\ pc' \in {"steps", "save"} /\ todo' = todo /\ todo # {}
        /\ phantom' = phantom /\ unseen \subseteq unseen'
    BY <1>7 DEF ExitAnswered, ExitBlocked, AtExit, market, Goto, history, locals
  <2>2. First(todo) \in Entries /\ (held' = held \/ Trade(First(todo), -0))
    BY <1>7, <1>0, <2>1 DEF ExitAnswered, ExitBlocked, market
  <2>3. \A e \in Entries : e # First(todo) => held'[e] = held[e] /\ mem'[e] = mem[e]
    BY <1>7, <1>0, <2>2, Traded DEF ExitAnswered, ExitBlocked, TypeOK, locals
  <2>4. /\ Visits' \subseteq Visits
        /\ \A e \in Visits' : e # First(todo) /\ e \in Entries
    BY <2>1, <1>0 DEF Visits, AtRow
  <2>. QED BY <2>1, <2>3, <2>4, <1>g
<1>8. CASE \/ FindNothing \/ SetOut \/ ExitLoopEnds \/ NoFutureEntry
           \/ (\E side \in case.sides : EnterFuture(side, case.slices)) \/ MarkAttempted
           \/ SliceRaises \/ LookUpPrice
  BY <1>8, <1>n DEF FindNothing, Others, Goto, locals, SetOut, Rest, ExitLoopEnds,
     NoFutureEntry, EnterFuture, MarkAttempted, SliceRaises, LookUpPrice
<1>9. CASE SaveConfig
  <2>1. /\ Visits' \subseteq Visits /\ First(todo) \notin Visits'
        /\ held' = held /\ phantom \subseteq phantom' /\ unseen' = unseen
        /\ mem' = [mem EXCEPT ![First(todo)] = NoRow] \/ mem' = mem
    BY <1>9, <1>0 DEF SaveConfig, NextRow, Goto, market, history, locals, Visits, AtRow
  <2>2. \A e \in Visits' : e # First(todo) /\ e \in Entries
    BY <2>1, <1>0 DEF Visits
  <2>. QED BY <2>1, <2>2, <1>0, <1>g DEF TypeOK
<1>10. CASE \/ SendSlice \/ SliceAnswered
  BY <1>10, <1>n DEF SendSlice, Others, Goto, SliceAnswered, EntryAnswered, AfterOrders
<1>11. CASE \/ InsertFuture \/ SettleFuture \/ FailFuture
  BY <1>11, <1>n DEF InsertFuture, Others, Goto, locals, SettleFuture, Rest, FailFuture
<1>12. CASE \/ SaveSteps \/ SymbolAdded \/ PassSymbol \/ EnterEquity \/ InsertEquity
            \/ SettleEquity \/ SendEquity \/ SymbolsEnd
  BY <1>12, <1>n DEF SaveSteps, Others, SymbolAdded, Rest, PassSymbol, EnterEquity, Goto,
     InsertEquity, locals, SettleEquity, SendEquity, SymbolsEnd
<1>13. CASE SaveExitSteps
  <2>1. /\ Visits' \subseteq Visits /\ First(todo) \notin Visits'
        /\ held' = held /\ phantom \subseteq phantom' /\ unseen' = unseen
        /\ mem' = [mem EXCEPT ![First(todo)] = NoRow] \/ mem' = mem
    BY <1>13, <1>0 DEF SaveExitSteps, Goto, market, history, locals, Visits, AtRow
  <2>2. \A e \in Visits' : e # First(todo) /\ e \in Entries
    BY <2>1, <1>0 DEF Visits
  <2>. QED BY <2>1, <2>2, <1>0, <1>g DEF TypeOK
<1>14. CASE \/ NoMcxRow \/ McxManaged \/ ExitMcxRaises \/ NoMcxEntry
            \/ (\E side \in case.sides : EnterMcx(side)) \/ SendMcx
            \/ InsertMcx \/ SettleMcx
  BY <1>14, <1>n DEF NoMcxRow, Others, Goto, locals, McxManaged, ExitMcxRaises, Rest,
     NoMcxEntry, EnterMcx, SendMcx, EntryAnswered, InsertMcx, SettleMcx
<1>15. CASE KeepMcxRow
  <2>1. /\ Visits' \subseteq Visits /\ First(todo) \notin Visits'
        /\ held' = held /\ phantom \subseteq phantom' /\ unseen' = unseen
        /\ mem' = [mem EXCEPT ![First(todo)] = NoRow] \/ mem' = mem
    BY <1>15, <1>0 DEF KeepMcxRow, NextRow, Goto, market, history, locals, Visits, AtRow
  <2>2. \A e \in Visits' : e # First(todo) /\ e \in Entries
    BY <2>1, <1>0 DEF Visits
  <2>. QED BY <2>1, <2>2, <1>0, <1>g DEF TypeOK
<1>16. CASE ExitMcx \/ ExitMcxAnswered
  <2>1. /\ pc = "loop" /\ pc' \in {"steps", "save"} /\ todo' = todo /\ todo # {}
        /\ phantom' = phantom /\ unseen \subseteq unseen'
    BY <1>16 DEF ExitMcx, ExitMcxAnswered, AtMcxExit, Goto, history, locals
  <2>2. First(todo) \in Entries /\ (held' = held \/ Trade(First(todo), -mem[First(todo)].net))
    BY <1>16, <1>0, <2>1 DEF ExitMcx, ExitMcxAnswered, market
  <2>m. mem[First(todo)].net \in Nat
    BY <1>0, <2>2 DEF TypeOK, Rows
  <2>3. \A e \in Entries : e # First(todo) => held'[e] = held[e] /\ mem'[e] = mem[e]
    BY <1>16, <1>0, <2>2, <2>m, Traded DEF ExitMcx, ExitMcxAnswered, TypeOK, locals
  <2>4. /\ Visits' \subseteq Visits
        /\ \A e \in Visits' : e # First(todo) /\ e \in Entries
    BY <2>1, <1>0 DEF Visits, AtRow
  <2>. QED BY <2>1, <2>3, <2>4, <1>g
<1>17. CASE CloseMcxRow
  <2>1. /\ Visits' \subseteq Visits /\ First(todo) \notin Visits'
        /\ held' = held /\ phantom \subseteq phantom' /\ unseen' = unseen
        /\ mem' = [mem EXCEPT ![First(todo)] = NoRow] \/ mem' = mem
    BY <1>17, <1>0 DEF CloseMcxRow, Goto, market, history, locals, Visits, AtRow
  <2>2. \A e \in Visits' : e # First(todo) /\ e \in Entries
    BY <2>1, <1>0 DEF Visits
  <2>. QED BY <2>1, <2>2, <1>0, <1>g DEF TypeOK
<1>18. CASE McxOut
  <2>1. /\ Visits' \subseteq Visits /\ First(todo) \notin Visits'
        /\ held' = held /\ phantom \subseteq phantom' /\ unseen' = unseen
        /\ mem' = [mem EXCEPT ![First(todo)] = NoRow] \/ mem' = mem
    BY <1>18, <1>0 DEF McxOut, NextRow, Goto, market, history, locals, Visits, AtRow
  <2>2. \A e \in Visits' : e # First(todo) /\ e \in Entries
    BY <2>1, <1>0 DEF Visits
  <2>. QED BY <2>1, <2>2, <1>0, <1>g DEF TypeOK
<1>19. CASE \/ WindowPasses \/ Scan \/ ReadStrategy \/ RepairPosition \/ WriteBack \/ Retire
            \/ MarkExit \/ ReadToStart \/ CommitStart \/ ReadToEdit \/ CommitEdit
            \/ ExitPosition
  <2>1. /\ UNCHANGED <<pc, mem, todo, held>>
        /\ phantom \subseteq phantom' /\ unseen \subseteq unseen'
    BY <1>19, OutsideStep DEF Refresher, Request
  <2>2. Visits' = Visits
    BY <2>1 DEF Visits, AtRow
  <2>. QED BY <2>1, <2>2, <1>g
<1>. QED BY <1>1, <1>2, <1>3, <1>4, <1>5, <1>6, <1>7, <1>8, <1>9, <1>10, <1>11, <1>12, <1>13,
   <1>14, <1>15, <1>16, <1>17, <1>18, <1>19 DEF Next, Round, FuturesRound, EquityRound,
   McxRound, Refresher, Request

\* So does the copy of the row in hand, with the result of its exit.
LEMMA RowInHand ==
  ASSUME IInv, Next
  PROVE  /\ pc' \in {"steps", "save"} /\ ~Mcx =>
             /\ mem'[First(todo')].status \in {"open", "close"}
             /\ Asks(mem[First(todo)], First(todo))'
         /\ pc' = "save" /\ Mcx => held'[First(todo')] <= 0 \/ First(todo') \in unseen'
<1>. DEFINE e == First(todo)
            Hand == mem[e].status \in {"open", "close"} /\ Asks(mem[e], e)
            Goal == /\ pc' \in {"steps", "save"} /\ ~Mcx => Hand'
                    /\ pc' = "save" /\ Mcx => held'[e'] <= 0 \/ e' \in unseen'
<1>. SUFFICES Goal
  OBVIOUS
<1>0. /\ pc \in {"steps", "save"} /\ ~Mcx => Hand
      /\ pc = "save" /\ Mcx => held[e] <= 0 \/ e \in unseen
  BY DEF IInv, Copies
<1>c. /\ TypeOK /\ case' = case /\ (todo # {} => e \in todo /\ e \in Entries) /\ live \in BOOLEAN
      /\ pc = "loop" /\ todo # {} => mem[e].status = "open" /\ Asks(mem[e], e)
      /\ ~live => \A f \in Entries : held[f] = 0
      /\ held \in [Entries -> -1 .. MaxSlices] /\ mem \in [Entries -> Rows] /\ MaxSlices \in Nat
      /\ mem[e] \in Rows => mem[e].net \in Nat
  BY PlaceTyped, TodoIn, CaseFacts, EntryNat DEF IInv, Copies, Visits, TypeOK, PaperInv, Rows
<1>n. ASSUME pc' \notin {"steps", "save"}
      PROVE  Goal
  BY <1>n
<1>. USE DEF Futures, Equity, Mcx, family
<1>1. CASE Load
  BY <1>1, <1>n DEF Load, Others, Goto
<1>2. CASE Find("loop")
  BY <1>2, <1>n DEF Find, Others, Goto
<1>3. CASE KeepRow
  BY <1>3, <1>n DEF KeepRow, Others, PutRow, NextRow
<1>4. CASE SaveRow
  BY <1>4, <1>n DEF SaveRow, Others, PutRow, NextRow, Rest, Goto, locals
<1>5. ASSUME NEW k \in 0 .. MaxSlices, ExitOrder(k) PROVE Goal
  <2>1. /\ pc = "loop" /\ todo' = todo /\ todo # {} /\ ~Mcx /\ UNCHANGED <<unseen, phantom>>
        /\ k <= mem[e].net /\ (live \/ k = mem[e].net) /\ Trade(e, -k)
    BY <1>5 DEF ExitOrder, AtExit, history
  <2>2. /\ e \in Entries /\ mem[e] \in Rows /\ mem[e].net \in Nat /\ held[e] \in -1 .. MaxSlices
        /\ mem[e].status = "open" /\ Asks(mem[e], e)
    BY <1>c, <2>1
  <2>3. held'[e] = IF ~live THEN held[e] ELSE IF held[e] - k < -1 THEN -1 ELSE held[e] - k
    BY <2>1, <2>2, <1>c, Traded
  <2>4. /\ mem'[e].status = IF k = mem[e].net THEN "close" ELSE "open"
        /\ mem'[e].net = mem[e].net - k
    BY <1>5, <2>2, <1>c DEF ExitOrder, Rows
  <2>5. e' = e /\ live' = live
    BY <2>1, <1>c DEF live
  <2>. HIDE DEF e
  <2>6. e \notin unseen => held'[e] <= (IF mem'[e].status = "open" THEN mem'[e].net ELSE 0)
    BY <2>1, <2>2, <2>3, <2>4, <1>c DEF Asks
  <2>7. live /\ e \notin phantom /\ mem'[e].status = "open" => mem'[e].net <= held'[e]
    BY <2>1, <2>2, <2>3, <2>4, <1>c DEF Asks
  <2>8. Hand'
    BY <2>1, <2>4, <2>5, <2>6, <2>7 DEF Asks
  <2>. QED BY <2>1, <2>8
<1>6. ASSUME NEW k \in 0 .. MaxSlices, ExitAcknowledged(k) PROVE Goal
  <2>1. /\ pc = "loop" /\ todo' = todo /\ todo # {} /\ ~Mcx
        /\ (e \in unseen' \/ held'[e] <= 0)
    BY <1>6, <1>c DEF ExitAcknowledged, AtExit
  <2>2. mem'[e].status = "close"
    BY <1>6, <1>c, <2>1 DEF ExitAcknowledged, Rows
  <2>3. e' = e
    BY <2>1
  <2>. HIDE DEF e
  <2>4. Hand'
    BY <2>1, <2>2, <2>3 DEF Asks
  <2>. QED BY <2>1, <2>4
<1>7. ASSUME NEW k \in 0 .. MaxSlices, ExitRaises(k) PROVE Goal
  BY <1>7, <1>n DEF ExitRaises, Others, Rest, Goto
<1>8. CASE ExitAnswered
  <2>1. /\ pc = "loop" /\ todo' = todo /\ todo # {} /\ held' = held
        /\ unseen' = IF held[e] > 0 THEN unseen \cup {e} ELSE unseen
    BY <1>8 DEF ExitAnswered, market
  <2>2. e \in Entries /\ held[e] \in -1 .. MaxSlices
    BY <1>c, <2>1
  <2>3. mem'[e].status = "close"
    BY <1>8, <1>c, <2>2 DEF ExitAnswered, Rows
  <2>4. e' = e
    BY <2>1
  <2>. HIDE DEF e
  <2>5. e \in unseen' \/ held'[e] <= 0
    BY <2>1, <2>2, <1>c
  <2>6. Hand'
    BY <2>3, <2>4, <2>5 DEF Asks
  <2>. QED BY <2>4, <2>5, <2>6
<1>21. CASE ExitBlocked
  <2>1. /\ pc = "loop" /\ todo' = todo /\ todo # {} /\ ~Mcx
        /\ UNCHANGED <<held, unseen, phantom>>
    BY <1>21 DEF ExitBlocked, market, history
  <2>2. e \in Entries /\ mem[e] \in Rows
    BY <1>c, <2>1
  <2>3. mem'[e].status = mem[e].status /\ mem'[e].net = mem[e].net
    BY <1>21, <1>c, <2>2 DEF ExitBlocked, Rows
  <2>4. e' = e /\ live' = live
    BY <2>1, <1>c DEF live
  <2>. HIDE DEF e
  <2>5. Hand'
    BY <2>1, <2>3, <2>4, <1>c DEF Asks
  <2>. QED BY <2>1, <2>5
<1>9. CASE \/ FindNothing \/ SetOut \/ SaveConfig \/ ExitLoopEnds \/ NoFutureEntry
           \/ (\E side \in case.sides : EnterFuture(side, case.slices)) \/ MarkAttempted
           \/ SliceRaises
  BY <1>9, <1>n DEF FindNothing, Others, Goto, locals, SetOut, Rest, SaveConfig, NextRow,
     ExitLoopEnds, NoFutureEntry, EnterFuture, MarkAttempted, SliceRaises
<1>10. CASE \/ SendSlice \/ SliceAnswered
  BY <1>10, <1>n DEF SendSlice, Others, Goto, SliceAnswered, EntryAnswered, AfterOrders
<1>11. CASE \/ LookUpPrice \/ InsertFuture \/ SettleFuture \/ FailFuture
  BY <1>11, <1>n DEF LookUpPrice, Others, Goto, locals, InsertFuture, SettleFuture, Rest,
     FailFuture
<1>12. CASE \/ SaveSteps \/ SymbolAdded \/ PassSymbol \/ EnterEquity \/ InsertEquity
            \/ SettleEquity \/ SendEquity \/ SymbolsEnd
  BY <1>12, <1>n DEF SaveSteps, Others, SymbolAdded, Rest, PassSymbol, EnterEquity, Goto,
     InsertEquity, locals, SettleEquity, SendEquity, SymbolsEnd
<1>13. CASE NothingToExit
  BY <1>13, <1>n DEF NothingToExit, Others, Rest, Goto
<1>14. CASE SaveExitSteps
  <2>1. /\ pc = "steps" /\ ~Mcx /\ UNCHANGED <<mem, todo, held, unseen, phantom>>
    BY <1>14 DEF SaveExitSteps, locals, market, history
  <2>2. Hand'
    BY <2>1, <1>0, <1>c DEF Asks, live
  <2>. QED BY <2>1, <2>2
<1>15. CASE \/ NoMcxRow \/ McxManaged \/ KeepMcxRow \/ ExitMcxRaises \/ CloseMcxRow \/ McxOut
            \/ NoMcxEntry \/ (\E side \in case.sides : EnterMcx(side))
  BY <1>15, <1>n DEF NoMcxRow, Others, Goto, locals, McxManaged, KeepMcxRow, NextRow,
     ExitMcxRaises, Rest, CloseMcxRow, McxOut, NoMcxEntry, EnterMcx
<1>16. CASE ExitMcx \/ ExitMcxAnswered
  <2>1. /\ pc = "loop" /\ todo' = todo /\ todo # {} /\ Mcx
        /\ \/ Trade(e, -mem[e].net) /\ unseen' = unseen
           \/ held' = held /\ unseen' = IF held[e] > 0 THEN unseen \cup {e} ELSE unseen
           \/ held' = held /\ unseen' = unseen \cup {e}
    BY <1>16 DEF ExitMcx, ExitMcxAnswered, AtMcxExit, locals, market
  <2>2. /\ e \in Entries /\ mem[e].net \in Nat /\ held[e] \in -1 .. MaxSlices
        /\ mem[e].status = "open" /\ Asks(mem[e], e)
    BY <1>c, <2>1
  <2>3. e' = e
    BY <2>1
  <2>. HIDE DEF e
  <2>4. Trade(e, -mem[e].net) =>
          held'[e] = IF ~live THEN held[e] ELSE IF held[e] - mem[e].net < -1 THEN -1 ELSE held[e] - mem[e].net
    <3>1. -mem[e].net \in Int
      BY <2>2
    <3>. QED BY <3>1, <2>2, <1>c, Traded
  <2>5. held'[e] <= 0 \/ e \in unseen'
    BY <2>1, <2>2, <2>4, <1>c DEF Asks
  <2>. QED BY <2>1, <2>3, <2>5
<1>17. CASE \/ SendMcx \/ InsertMcx \/ SettleMcx
  BY <1>17, <1>n DEF SendMcx, EntryAnswered, Others, Rest, Goto, locals, InsertMcx, SettleMcx
<1>18. CASE \/ WindowPasses \/ Scan \/ ReadStrategy \/ RepairPosition \/ WriteBack \/ Retire
            \/ MarkExit \/ ReadToStart \/ CommitStart \/ ReadToEdit \/ CommitEdit
            \/ ExitPosition
  <2>1. /\ UNCHANGED <<pc, mem, todo, held>>
        /\ phantom \subseteq phantom' /\ unseen \subseteq unseen'
    BY <1>18, OutsideStep DEF Refresher, Request
  <2>2. Hand => Hand'
    BY <2>1, <1>c DEF Asks, live
  <2>. QED BY <2>1, <2>2, <1>0
<1>19. CASE Crash
  BY <1>19, <1>n DEF Crash, Goto
<1>20. CASE Restart
  BY <1>20, <1>n DEF Restart, Others, Goto, locals
<1>. QED BY <1>1, <1>2, <1>3, <1>4, <1>5, <1>6, <1>7, <1>8, <1>9, <1>10, <1>11, <1>12, <1>13,
   <1>14, <1>15, <1>16, <1>17, <1>18, <1>19, <1>20, <1>21 DEF Next, Round, FuturesRound, EquityRound,
   McxRound, Refresher, Request

\* The refresher's copies ask for no less than the account holds.
LEMMA SnapshotBacked ==
  ASSUME IInv, Next
  PROVE  \A e \in rtodo' : /\ rcopy'[e].status = "open"
                           /\ e \notin unseen' => held'[e] <= rcopy'[e].net
<1>. DEFINE Goal == \A e \in rtodo' : /\ rcopy'[e].status = "open"
                                      /\ e \notin unseen' => held'[e] <= rcopy'[e].net
<1>. SUFFICES Goal
  OBVIOUS
<1>0. /\ \A e \in rtodo : /\ rcopy[e].status = "open"
                          /\ e \notin unseen => held[e] <= rcopy[e].net
      /\ rtodo \subseteq Known
  BY DEF IInv, Copies, Places
<1>c. /\ TypeOK /\ cur \in Entries /\ Known \subseteq Entries
      /\ \A e \in Known : rows[e].status # "none"
      /\ held \in [Entries -> -1 .. MaxSlices] /\ MaxSlices \in Nat
      /\ rcopy \in [Entries -> Rows] /\ \A r \in Rows : r.net \in Nat
      /\ \A e \in Entries : held[e] \in Int /\ rcopy[e].net \in Nat
  BY EntryNat DEF IInv, TypeOK, Known, Rows
<1>g. ASSUME UNCHANGED <<rtodo, rcopy>>, unseen \subseteq unseen', \A e \in rtodo : held'[e] <= held[e]
      PROVE  Goal
  <2>1. \A e \in rtodo : held'[e] \in Int /\ held[e] \in Int /\ rcopy[e].net \in Nat
    BY <1>0, <1>c, AccountTyped
  <2>. QED BY <1>0, <1>g, <2>1
<1>u. UNCHANGED <<rtodo, rcopy, held>> /\ unseen \subseteq unseen' => Goal
  <2>1. \A e \in rtodo : held[e] <= held[e]
    BY <1>0, <1>c
  <2>. QED BY <1>g, <2>1
<1>a. ASSUME EntryAnswered, cur \notin rtodo, UNCHANGED <<rtodo, rcopy>>
      PROVE  Goal
  <2>1. CASE held' = held /\ unseen' = unseen
    BY <1>a, <1>u, <2>1
  <2>2. CASE ~(held' = held /\ unseen' = unseen)
    <3>1. PICK f \in Entries \ {cur} :
            /\ rows[f].status = "none"
            /\ unseen' = IF held[f] = 1 THEN unseen \ {f} ELSE unseen
            /\ \A e \in Entries \ {f, cur} : held'[e] = held[e]
      BY <1>a, <1>c, <2>2, Answered
    <3>2. f \notin rtodo
      BY <3>1, <1>0, <1>c
    <3>3. \A e \in rtodo : held'[e] = held[e] /\ (e \notin unseen' => e \notin unseen)
      BY <1>a, <3>1, <3>2, <1>0, <1>c
    <3>. QED BY <1>a, <3>3, <1>0
  <2>. QED BY <2>1, <2>2
<1>1. CASE \/ Load \/ Find("loop") \/ KeepRow \/ SaveRow
  BY <1>1, <1>u DEF Load, Others, Goto, Find, KeepRow, PutRow, NextRow, SaveRow, Rest, locals,
     market, refresher, history
<1>2. ASSUME NEW k \in 0 .. MaxSlices, ExitOrder(k) PROVE Goal
  <2>1. UNCHANGED <<rtodo, rcopy>> /\ unseen \subseteq unseen' /\ todo # {}
    BY <1>2 DEF ExitOrder, AtExit, Others, refresher, history
  <2>2. /\ First(todo) \in Entries
        /\ \/ held' = held
           \/ Trade(First(todo), -k)
    BY <1>2, <2>1, <1>c, TodoIn DEF ExitOrder
  <2>3. \A e \in rtodo : held'[e] <= held[e]
    BY <2>2, <1>0, <1>c, Traded
  <2>. QED BY <2>1, <2>3, <1>g
<1>3. ASSUME NEW k \in 0 .. MaxSlices, ExitAcknowledged(k) PROVE Goal
  <2>1. UNCHANGED <<rtodo, rcopy>> /\ unseen \subseteq unseen' /\ todo # {}
    BY <1>3 DEF ExitAcknowledged, AtExit, Others, refresher, history
  <2>2. /\ First(todo) \in Entries
        /\ \/ held' = held
           \/ Trade(First(todo), -k)
    BY <1>3, <2>1, <1>c, TodoIn DEF ExitAcknowledged
  <2>3. \A e \in rtodo : held'[e] <= held[e]
    BY <2>2, <1>0, <1>c, Traded
  <2>. QED BY <2>1, <2>3, <1>g
<1>4. ASSUME NEW k \in 0 .. MaxSlices, ExitRaises(k) PROVE Goal
  <2>1. UNCHANGED <<rtodo, rcopy>> /\ unseen \subseteq unseen' /\ todo # {}
    BY <1>4 DEF ExitRaises, AtExit, Others, refresher, history
  <2>2. /\ First(todo) \in Entries
        /\ \/ held' = held
           \/ Trade(First(todo), -k)
    BY <1>4, <2>1, <1>c, TodoIn DEF ExitRaises
  <2>3. \A e \in rtodo : held'[e] <= held[e]
    BY <2>2, <1>0, <1>c, Traded
  <2>. QED BY <2>1, <2>3, <1>g
<1>5. CASE \/ InsertFuture \/ ExitAnswered \/ ExitBlocked
  BY <1>5, <1>u DEF InsertFuture, Others, Goto, locals, ExitAnswered, ExitBlocked, market,
     refresher, history
<1>6. CASE \/ FindNothing \/ SetOut \/ SaveConfig \/ ExitLoopEnds \/ NoFutureEntry
           \/ (\E side \in case.sides : EnterFuture(side, case.slices)) \/ MarkAttempted
           \/ SettleFuture
  BY <1>6, <1>u DEF FindNothing, Others, Goto, locals, SetOut, Rest, SaveConfig, NextRow,
     ExitLoopEnds, NoFutureEntry, EnterFuture, MarkAttempted, SettleFuture, market, refresher,
     history
<1>7. CASE SendSlice
  <2>1. UNCHANGED <<rtodo, rcopy>> /\ unseen \subseteq unseen'
    BY <1>7 DEF SendSlice, Others, refresher, history, LosesSight
  <2>2. cur \notin rtodo
    BY <1>7, <1>0 DEF SendSlice, IInv, FreshEntry, Rowless, Futures, Equity, Mcx
  <2>3. held' = held \/ Trade(cur, 1)
    BY <1>7 DEF SendSlice, AcceptEntry, market
  <2>4. \A e \in rtodo : held'[e] <= held[e]
    BY <2>2, <2>3, <1>0, <1>c, Traded
  <2>. QED BY <2>1, <2>4, <1>g
<1>8. CASE SliceAnswered
  <2>1. UNCHANGED <<rtodo, rcopy>> /\ (EntryAnswered \/ UNCHANGED <<held, unseen>>)
    BY <1>8 DEF SliceAnswered, Others, refresher, market, history
  <2>2. cur \notin rtodo
    BY <1>8, <1>0 DEF SliceAnswered, IInv, FreshEntry, Rowless, Futures, Equity
  <2>. QED BY <2>1, <2>2, <1>a, <1>u
<1>9. CASE SliceRaises
  <2>1. UNCHANGED <<rtodo, rcopy>> /\ unseen \subseteq unseen'
    BY <1>9 DEF SliceRaises, Others, refresher, history, LosesSight
  <2>2. cur \notin rtodo
    BY <1>9, <1>0 DEF SliceRaises, IInv, FreshEntry, Rowless, Futures, Equity, Mcx
  <2>3. held' = held \/ Trade(cur, 1)
    BY <1>9 DEF SliceRaises, AcceptEntry, market
  <2>4. \A e \in rtodo : held'[e] <= held[e]
    BY <2>2, <2>3, <1>0, <1>c, Traded
  <2>. QED BY <2>1, <2>4, <1>g
<1>10. CASE LookUpPrice
  BY <1>10, <1>u DEF LookUpPrice, Others, Goto, locals, market, refresher, history, LosesSight
<1>11. CASE FailFuture
  BY <1>11, <1>u DEF FailFuture, Others, Rest, Goto, market, refresher, history
<1>12. CASE \/ SaveSteps \/ SymbolAdded \/ PassSymbol \/ EnterEquity \/ InsertEquity
            \/ SettleEquity \/ SymbolsEnd \/ NothingToExit
  BY <1>12, <1>u DEF SaveSteps, Others, SymbolAdded, Rest, PassSymbol, EnterEquity, Goto,
     InsertEquity, locals, SettleEquity, SymbolsEnd, NothingToExit, market, refresher, history
<1>13. CASE SendEquity
  <2>1. UNCHANGED <<rtodo, rcopy>> /\ unseen' = unseen
    BY <1>13 DEF SendEquity, Others, refresher
  <2>2. held[cur] = 0 /\ (cur \in rtodo => rcopy[cur].net = 1)
    BY <1>13 DEF SendEquity, IInv, Ordering
  <2>3. held' = held \/ Trade(cur, 1)
    BY <1>13 DEF SendEquity
  <2>4. held'[cur] <= 1 /\ \A e \in rtodo : e # cur => held'[e] = held[e]
    BY <2>2, <2>3, <1>0, <1>c, Traded
  <2>. QED BY <2>1, <2>2, <2>4, <1>0, <1>c
<1>14. CASE SaveExitSteps
  BY <1>14, <1>u DEF SaveExitSteps, Others, Goto, locals, market, refresher, history
<1>15. CASE \/ NoMcxRow \/ McxManaged \/ KeepMcxRow \/ CloseMcxRow \/ McxOut \/ NoMcxEntry
            \/ (\E side \in case.sides : EnterMcx(side)) \/ InsertMcx
  BY <1>15, <1>u DEF NoMcxRow, Others, Goto, locals, McxManaged, KeepMcxRow, NextRow,
     CloseMcxRow, McxOut, NoMcxEntry, Rest, EnterMcx, InsertMcx, market, refresher, history
<1>16. CASE ExitMcx \/ ExitMcxRaises \/ ExitMcxAnswered
  <2>1. UNCHANGED <<rtodo, rcopy>> /\ unseen \subseteq unseen' /\ todo # {}
    BY <1>16 DEF ExitMcx, ExitMcxRaises, ExitMcxAnswered, AtMcxExit, Others, refresher, history
  <2>2. /\ First(todo) \in Entries
        /\ \/ held' = held
           \/ Trade(First(todo), -mem[First(todo)].net)
    BY <1>16, <2>1, <1>c, TodoIn DEF ExitMcx, ExitMcxRaises, ExitMcxAnswered, market
  <2>m. mem[First(todo)].net \in Nat
    BY <2>2, <1>c DEF TypeOK, Rows
  <2>3. \A e \in rtodo : held'[e] <= held[e]
    BY <2>2, <2>m, <1>0, <1>c, Traded
  <2>. QED BY <2>1, <2>3, <1>g
<1>18. CASE SendMcx
  <2>1. /\ UNCHANGED <<rtodo, rcopy>>
        /\ EntryAnswered \/ (unseen \subseteq unseen' /\ (held' = held \/ Trade(cur, 1)))
    BY <1>18 DEF SendMcx, AcceptEntry, Others, refresher, history, market
  <2>2. cur \notin rtodo
    BY <1>18, <1>0 DEF SendMcx, IInv, FreshEntry, Rowless, Equity, Mcx
  <2>3. held' = held \/ Trade(cur, 1) => \A e \in rtodo : held'[e] <= held[e]
    BY <2>2, <1>0, <1>c, Traded
  <2>. QED BY <2>1, <2>2, <2>3, <1>g, <1>a
<1>19. CASE SettleMcx
  BY <1>19, <1>u DEF SettleMcx, Others, Rest, Goto, market, refresher, history
<1>20. CASE WindowPasses
  BY <1>20, <1>u DEF WindowPasses, engine, locals, market, refresher, history
<1>21. CASE Scan
  <2>1. /\ UNCHANGED <<held, unseen>> /\ rtodo' = Open(rows)
        /\ rcopy' = [e \in Entries |-> IF e \in Open(rows) THEN rows[e] ELSE NoRow]
    BY <1>21 DEF Scan, Refreshing, market
  <2>2. ASSUME NEW e \in Open(rows)
        PROVE  rcopy'[e].status = "open" /\ (e \notin unseen' => held'[e] <= rcopy'[e].net)
    <3>1. e \in Entries /\ rows[e].status = "open" /\ rcopy'[e] = rows[e] /\ e \in Known
      BY <2>1, <2>2 DEF Open, Known
    <3>2. CASE e = cur /\ Entering /\ pc # "settle"
      <4>1. pc = "send" /\ Equity
        BY <3>1, <3>2 DEF Entering, IInv, FreshEntry, Rowless
      <4>2. held[e] = 0 /\ rows[e].net = 1
        BY <4>1, <3>2 DEF IInv, Ordering
      <4>. QED BY <4>2, <3>1, <2>1
    <3>3. CASE ~(e = cur /\ Entering /\ pc # "settle")
      <4>1. e \notin unseen => held[e] <= rows[e].net
        BY <3>1, <3>3 DEF IInv, Tracked
      <4>. QED BY <4>1, <3>1, <2>1
    <3>. QED BY <3>2, <3>3
  <2>. QED BY <2>1, <2>2
<1>22. CASE ReadStrategy
  <2>1. /\ UNCHANGED <<held, unseen, rtodo>>
        /\ \E d : rcopy' = [rcopy EXCEPT ![First(rtodo)] = [rcopy[First(rtodo)] EXCEPT !.decision = d]]
    BY <1>22 DEF ReadStrategy, Refreshing, market
  <2>2. \A e \in Entries : rcopy'[e].net = rcopy[e].net /\ rcopy'[e].status = rcopy[e].status
    BY <2>1, <1>c DEF Rows
  <2>. QED BY <2>1, <2>2, <1>0, <1>c
<1>23. CASE RepairPosition
  BY <1>23, <1>u DEF RepairPosition, Refreshing, engine, locals, market, refresher, history
<1>24. CASE WriteBack
  <2>1. /\ UNCHANGED <<held, unseen>> /\ rtodo' = rtodo \ {First(rtodo)}
        /\ rcopy' = [rcopy EXCEPT ![First(rtodo)] = NoRow]
    BY <1>24 DEF WriteBack, Refreshing, market
  <2>2. \A e \in rtodo' : e \in rtodo /\ e \in Entries /\ rcopy'[e] = rcopy[e]
    BY <2>1, <1>0, <1>c
  <2>. QED BY <2>1, <2>2, <1>0
<1>25. CASE \/ Retire \/ MarkExit \/ ReadToStart \/ ReadToEdit \/ ExitPosition
  BY <1>25, <1>u DEF Retire, Requesting, engine, locals, MarkExit, ReadToStart, ReadToEdit,
     ExitPosition, market, refresher, history
<1>26. CASE \/ CommitStart \/ CommitEdit
  BY <1>26, <1>u DEF CommitStart, Requesting, engine, locals, CommitEdit, market, refresher,
     history, Displaces
<1>27. CASE Crash
  BY <1>27, <1>0 DEF Crash, Goto, market, refresher, history
<1>28. CASE Restart
  BY <1>28, <1>u DEF Restart, Others, Goto, locals, market, refresher, history
<1>. QED BY <1>1, <1>2, <1>3, <1>4, <1>5, <1>6, <1>7, <1>8, <1>9, <1>10, <1>11, <1>12, <1>13,
   <1>14, <1>15, <1>16, <1>18, <1>19, <1>20, <1>21, <1>22, <1>23, <1>24, <1>25, <1>26,
   <1>27, <1>28 DEF Next, Round, FuturesRound, EquityRound, McxRound, Refresher, Request

\* Copies is kept.
LEMMA CopiesStep ==
  ASSUME IInv, Next
  PROVE  Copies'
<1>1. Mcx' <=> Mcx
  BY PlaceTyped DEF IInv, Mcx, family
<1>. QED BY <1>1, VisitsCopied, RowInHand, SnapshotBacked DEF Copies

Units(e) == IF rows[e].status = "open" THEN rows[e].net ELSE 0

\* A row stands for a number of units.
LEMMA UnitsNat ==
  ASSUME TypeOK, NEW e \in Entries
  PROVE  Units(e) \in Nat
BY DEF TypeOK, Units, Rows

\* Units of an entry that is not lost sight of are in its row, once it has one.
LEMMA UnitsTracked ==
  ASSUME IInv, Next
  PROVE  \A e \in Entries \ unseen' :
             \/ Making' /\ e = cur'
             \/ held'[e] <= Units(e)'
<1>. DEFINE Goal == \A e \in Entries \ unseen' :
                      \/ Making' /\ e = cur'
                      \/ held'[e] <= Units(e)'
<1>. SUFFICES Goal
  OBVIOUS
<1>0. \A e \in Entries \ unseen : (Making /\ e = cur) \/ held[e] <= Units(e)
  BY DEF IInv, Tracked, Making, Entering, Units
<1>c. /\ TypeOK /\ cur \in Entries /\ MaxSlices \in Nat
      /\ held \in [Entries -> -1 .. MaxSlices] /\ rows \in [Entries -> Rows]
      /\ mem \in [Entries -> Rows] /\ \A r \in Rows : r.net \in Nat
      /\ \A e \in Entries : held[e] \in Int
  BY EntryNat DEF IInv, TypeOK, Rows
<1>n. /\ TypeOK' /\ \A e \in Entries : held'[e] \in Int
      /\ \A e \in Entries : Units(e) \in Nat
      /\ \A e \in Entries : Units(e)' \in Nat
  <2>1. TypeOK' /\ Entries' = Entries
    BY TypeStep DEF Entries
  <2>2. \A e \in Entries : Units(e)' \in Nat
    BY <2>1 DEF TypeOK, Units, Rows
  <2>. QED BY <2>1, <2>2, <1>c, UnitsNat, AccountTyped
<1>g. ASSUME rows' = rows, unseen \subseteq unseen', \A e \in Entries : held'[e] <= held[e],
             ~Making \/ (Making' /\ cur' = cur)
      PROVE  Goal
  <2>1. \A e \in Entries : Units(e)' = Units(e)
    BY <1>g DEF Units
  <2>. QED BY <1>0, <1>c, <1>n, <1>g, <2>1
<1>u. UNCHANGED <<rows, held>> /\ unseen \subseteq unseen' /\ ~Making => Goal
  <2>1. \A e \in Entries : held[e] <= held[e]
    BY <1>c
  <2>. QED BY <1>g, <2>1
<1>r. ASSUME NEW f \in Entries, NEW row, rows' = [rows EXCEPT ![f] = row] \/ rows' = rows,
             UNCHANGED <<held, unseen, cur>>, Making => Making',
             f \notin unseen => held[f] <= (IF row.status = "open" THEN row.net ELSE 0)
      PROVE  Goal
  <2>1. \A e \in Entries : e # f => Units(e)' = Units(e)
    BY <1>r, <1>c DEF Units
  <2>2. Units(f)' = Units(f) \/ Units(f)' = IF row.status = "open" THEN row.net ELSE 0
    BY <1>r, <1>c DEF Units
  <2>. QED BY <1>0, <1>r, <2>1, <2>2
<1>a. ASSUME EntryAnswered, rows' = rows, cur' = cur, Making, Making'
      PROVE  Goal
  <2>1. \A e \in Entries : Units(e)' = Units(e)
    BY <1>a DEF Units
  <2>2. CASE held' = held /\ unseen' = unseen
    BY <1>a, <2>1, <2>2, <1>0
  <2>3. CASE ~(held' = held /\ unseen' = unseen)
    <3>1. PICK f \in Entries \ {cur} :
            /\ held'[f] = held[f] - 1
            /\ unseen' = IF held[f] = 1 THEN unseen \ {f} ELSE unseen
            /\ \A e \in Entries \ {f, cur} : held'[e] = held[e]
      BY <1>a, <1>c, <2>3, Answered
    <3>2. ASSUME NEW e \in Entries \ unseen', e # cur
          PROVE  held'[e] <= Units(e)
      <4>1. CASE e = f
        <5>1. held[e] = 1 \/ held[e] <= Units(e)
          BY <3>1, <3>2, <4>1, <1>0
        <5>. QED BY <5>1, <3>1, <3>2, <4>1, <1>c, <1>n
      <4>2. CASE e # f
        BY <4>2, <3>1, <3>2, <1>0, <1>c
      <4>. QED BY <4>1, <4>2
    <3>. QED BY <1>a, <3>2, <2>1
  <2>. QED BY <2>2, <2>3
<1>1. CASE \/ Load \/ Find("loop")
  BY <1>1, <1>u DEF Load, Others, Goto, Find, market, history, Making
<1>2. CASE KeepRow
  <2>1. /\ rows' = [rows EXCEPT ![First(todo)] = mem[First(todo)]] /\ UNCHANGED <<held, unseen, cur>>
        /\ ~Making /\ pc = "loop" /\ todo # {}
    BY <1>2 DEF KeepRow, PutRow, market, Making
  <2>2. First(todo) \in Entries /\ Asks(mem[First(todo)], First(todo))
    BY <2>1, <1>c, TodoIn DEF IInv, Copies, Visits
  <2>. QED BY <2>1, <2>2, <1>r DEF Asks
<1>3. CASE SaveRow
  <2>1. /\ rows' = [rows EXCEPT ![First(todo)] = mem[First(todo)]] /\ UNCHANGED <<held, unseen>>
        /\ pc = "save" /\ ~Mcx
    BY <1>3 DEF SaveRow, PutRow, market, Mcx
  <2>2. First(todo) \in Entries /\ Asks(mem[First(todo)], First(todo))
    BY <2>1, <1>c, TodoIn DEF IInv, Copies, Places, AtRow
  <2>3. \A e \in Entries \ unseen : held[e] <= Units(e)
    BY <1>0, <2>1 DEF Making
  <2>4. ASSUME NEW e \in Entries \ unseen'
        PROVE  held'[e] <= Units(e)'
    <3>1. CASE e = First(todo)
      BY <3>1, <2>1, <2>2, <1>c DEF Asks, Units
    <3>2. CASE e # First(todo)
      BY <3>2, <2>1, <2>2, <2>3, <1>c DEF Units
    <3>. QED BY <3>1, <3>2
  <2>. QED BY <2>4
<1>4. ASSUME NEW k \in 0 .. MaxSlices, ExitOrder(k) PROVE Goal
  <2>1. /\ rows' = rows /\ unseen \subseteq unseen' /\ todo # {} /\ ~Making
        /\ Trade(First(todo), -k) \/ held' = held
    BY <1>4 DEF ExitOrder, AtExit, Making, history
  <2>2. First(todo) \in Entries /\ -k \in Int
    BY <1>4, <2>1, <1>c, TodoIn
  <2>3. \A e \in Entries : held'[e] <= held[e]
    BY <2>1, <2>2, <1>c, Traded
  <2>. QED BY <2>1, <2>3, <1>g
<1>5. ASSUME NEW k \in 0 .. MaxSlices, ExitAcknowledged(k) PROVE Goal
  <2>1. /\ rows' = rows /\ unseen \subseteq unseen' /\ todo # {} /\ ~Making
        /\ Trade(First(todo), -k) \/ held' = held
    BY <1>5 DEF ExitAcknowledged, AtExit, Making, history
  <2>2. First(todo) \in Entries /\ -k \in Int
    BY <1>5, <2>1, <1>c, TodoIn
  <2>3. \A e \in Entries : held'[e] <= held[e]
    BY <2>1, <2>2, <1>c, Traded
  <2>. QED BY <2>1, <2>3, <1>g
<1>6. ASSUME NEW k \in 0 .. MaxSlices, ExitRaises(k) PROVE Goal
  <2>1. /\ rows' = rows /\ unseen \subseteq unseen' /\ todo # {} /\ ~Making
        /\ Trade(First(todo), -k) \/ held' = held
    BY <1>6 DEF ExitRaises, AtExit, Making, history
  <2>2. First(todo) \in Entries /\ -k \in Int
    BY <1>6, <2>1, <1>c, TodoIn
  <2>3. \A e \in Entries : held'[e] <= held[e]
    BY <2>1, <2>2, <1>c, Traded
  <2>. QED BY <2>1, <2>3, <1>g
<1>7. CASE ExitAnswered \/ ExitBlocked
  BY <1>7, <1>u DEF ExitAnswered, ExitBlocked, Others, Goto, market, history, Making
<1>8. CASE \/ FindNothing \/ SetOut \/ SaveConfig \/ ExitLoopEnds \/ NoFutureEntry
           \/ SettleFuture
  BY <1>8, <1>u DEF FindNothing, Others, Goto, locals, SetOut, Rest, SaveConfig, NextRow,
     ExitLoopEnds, NoFutureEntry, SettleFuture, market, history, Making
<1>9. CASE \/ (\E side \in case.sides : EnterFuture(side, case.slices)) \/ EnterEquity
           \/ (\E side \in case.sides : EnterMcx(side))
  BY <1>9, <1>u DEF EnterFuture, Others, Goto, EnterEquity, EnterMcx, market, history, Making
<1>10. CASE MarkAttempted
  <2>1. UNCHANGED <<rows, held, unseen, cur>> /\ Making'
    BY <1>10 DEF MarkAttempted, Making, Goto, locals, market, history
  <2>2. \A e \in Entries : held'[e] <= held[e]
    BY <2>1, <1>c
  <2>. QED BY <2>1, <2>2, <1>g
<1>11. CASE SendSlice
  <2>1. /\ rows' = rows /\ unseen \subseteq unseen' /\ cur' = cur /\ Making'
        /\ held' = held \/ Trade(cur, 1)
    BY <1>11 DEF SendSlice, Making, Goto, AfterOrders, AcceptEntry, LosesSight, locals, market,
       history
  <2>2. \A e \in Entries : e # cur => held'[e] = held[e] /\ Units(e)' = Units(e)
    BY <2>1, <1>c, Traded DEF Units
  <2>3. Making
    BY <1>11 DEF SendSlice, Making
  <2>. QED BY <2>1, <2>2, <2>3, <1>0
<1>12. CASE SliceAnswered
  <2>1. /\ rows' = rows /\ cur' = cur /\ Making /\ Making'
        /\ EntryAnswered \/ UNCHANGED <<held, unseen>>
    BY <1>12 DEF SliceAnswered, Making, Goto, AfterOrders, market, history
  <2>2. \A e \in Entries : Units(e)' = Units(e)
    BY <2>1 DEF Units
  <2>. QED BY <2>1, <2>2, <1>0, <1>a
<1>13. CASE SliceRaises
  <2>1. /\ rows' = rows /\ unseen \subseteq unseen' /\ cur' = cur /\ Making'
        /\ held' = held \/ Trade(cur, 1)
    BY <1>13 DEF SliceRaises, Making, Goto, AfterOrders, AcceptEntry, LosesSight, locals,
       market, history
  <2>2. \A e \in Entries : e # cur => held'[e] = held[e] /\ Units(e)' = Units(e)
    BY <2>1, <1>c, Traded DEF Units
  <2>3. Making
    BY <1>13 DEF SliceRaises, Making
  <2>. QED BY <2>1, <2>2, <2>3, <1>0
<1>14. CASE LookUpPrice
  <2>1. /\ rows' = rows /\ unseen \subseteq unseen' /\ cur' = cur /\ Making'
        /\ held' = held \/ Trade(cur, 1)
    BY <1>14 DEF LookUpPrice, Making, Goto, AfterOrders, AcceptEntry, LosesSight, locals,
       market, history
  <2>2. \A e \in Entries : e # cur => held'[e] = held[e] /\ Units(e)' = Units(e)
    BY <2>1, <1>c, Traded DEF Units
  <2>3. Making
    BY <1>14 DEF LookUpPrice, Making
  <2>. QED BY <2>1, <2>2, <2>3, <1>0
<1>15. CASE InsertFuture
  <2>1. UNCHANGED <<held, cur>> /\ Futures /\ pc = "insert"
    BY <1>15 DEF InsertFuture, locals, market
  <2>2. /\ \/ rows' = rows /\ bad
           \/ rows' = [rows EXCEPT ![cur] = [mem[cur] EXCEPT !.status = "broker_failed"]] /\ bad
           \/ rows' = [rows EXCEPT ![cur] = [mem[cur] EXCEPT !.status = "open"]] /\ ~bad
        /\ unseen' = IF bad /\ held[cur] > 0 THEN unseen \cup {cur} ELSE unseen
    BY <1>15 DEF InsertFuture
  <2>3. \A e \in Entries : e # cur => Units(e)' = Units(e)
    BY <2>2, <1>c DEF Units
  <2>4. CASE bad
    <3>1. cur \in unseen' \/ held[cur] <= 0
      BY <2>2, <2>4, <1>c
    <3>. QED BY <3>1, <2>1, <2>2, <2>3, <1>0, <1>c, <1>n
  <2>5. CASE ~bad
    <3>1. mem[cur].net = case.slices /\ held[cur] <= sent /\ (live => sent = case.slices)
      BY <2>1 DEF IInv, Ordering
    <3>2. (~live => held[cur] = 0) /\ case.slices \in Nat
      BY <1>c, CaseFacts, EntryNat DEF IInv, PaperInv
    <3>3. [mem[cur] EXCEPT !.status = "open"].status = "open" 
          /\ [mem[cur] EXCEPT !.status = "open"].net = mem[cur].net
      BY <1>c DEF Rows
    <3>4. Units(cur)' = mem[cur].net
      BY <2>1, <2>2, <2>5, <3>3, <1>c DEF Units
    <3>. QED BY <3>1, <3>2, <3>4, <2>1, <2>2, <2>3, <2>5, <1>0, <1>c
  <2>. QED BY <2>4, <2>5
<1>16. CASE FailFuture
  <2>1. UNCHANGED <<rows, held, unseen>> /\ (held[cur] <= 0 \/ cur \in unseen)
    BY <1>16 DEF FailFuture, market, history, IInv, Ordering
  <2>2. \A e \in Entries : Units(e)' = Units(e)
    BY <2>1 DEF Units
  <2>. QED BY <2>1, <2>2, <1>0, <1>c, <1>n
<1>17. CASE \/ SaveSteps \/ SymbolAdded \/ PassSymbol \/ SettleEquity \/ SymbolsEnd
            \/ NothingToExit \/ SaveExitSteps
  BY <1>17, <1>u DEF SaveSteps, Others, SymbolAdded, Rest, PassSymbol, SettleEquity, Goto,
     SymbolsEnd, locals, NothingToExit, SaveExitSteps, market, history, Making
<1>18. CASE InsertEquity
  <2>1. /\ rows' = [rows EXCEPT ![cur] = mem[cur]] /\ UNCHANGED <<held, cur, unseen>>
        /\ Equity /\ pc = "insert"
    BY <1>18 DEF InsertEquity, locals, market, history
  <2>2. mem[cur].status = "open" /\ mem[cur].net = 1 /\ held[cur] <= 1
    BY <2>1 DEF IInv, Ordering
  <2>3. \A e \in Entries : e # cur => Units(e)' = Units(e)
    BY <2>1, <1>c DEF Units
  <2>4. Units(cur)' = 1
    BY <2>1, <2>2, <1>c DEF Units
  <2>. QED BY <2>1, <2>2, <2>3, <2>4, <1>0
<1>19. CASE SendEquity
  <2>1. /\ UNCHANGED <<rows, unseen>> /\ (held' = held \/ Trade(cur, 1))
        /\ held[cur] = 0 /\ Units(cur) = 1
    BY <1>19 DEF SendEquity, IInv, Ordering, Units
  <2>2. /\ \A e \in Entries : Units(e)' = Units(e)
        /\ \A e \in Entries : e # cur => held'[e] = held[e]
        /\ held'[cur] <= 1
    BY <2>1, <1>c, Traded DEF Units
  <2>. QED BY <2>1, <2>2, <1>0
<1>20. CASE \/ NoMcxRow \/ McxManaged \/ KeepMcxRow \/ McxOut \/ NoMcxEntry \/ SettleMcx
  BY <1>20, <1>u DEF NoMcxRow, Others, Goto, locals, McxManaged, KeepMcxRow, NextRow, McxOut,
     NoMcxEntry, Rest, SettleMcx, market, history, Making
<1>21. CASE ExitMcx \/ ExitMcxRaises \/ ExitMcxAnswered
  <2>1. /\ rows' = rows /\ unseen \subseteq unseen' /\ todo # {} /\ ~Making
        /\ Trade(First(todo), -mem[First(todo)].net) \/ held' = held
    BY <1>21 DEF ExitMcx, ExitMcxRaises, ExitMcxAnswered, AtMcxExit, Making, history, market
  <2>2. First(todo) \in Entries /\ mem[First(todo)].net \in Nat
    BY <1>21, <2>1, <1>c, TodoIn
  <2>3. \A e \in Entries : held'[e] <= held[e]
    BY <2>1, <2>2, <1>c, Traded
  <2>. QED BY <2>1, <2>3, <1>g
<1>23. CASE CloseMcxRow
  <2>. DEFINE row == [rows[First(todo)] EXCEPT !.status = "close"]
  <2>1. /\ rows' = [rows EXCEPT ![First(todo)] = row] /\ UNCHANGED <<held, unseen, cur>>
        /\ ~Making /\ Mcx /\ pc = "save"
    BY <1>23 DEF CloseMcxRow, Making, market, history, locals
  <2>2. /\ First(todo) \in Entries
        /\ held[First(todo)] <= 0 \/ First(todo) \in unseen
    BY <2>1, <1>c, TodoIn DEF IInv, Copies, Places, AtRow
  <2>3. row.status = "close"
    BY <2>2, <1>c DEF Rows
  <2>. HIDE DEF row
  <2>. QED BY <2>1, <2>2, <2>3, <1>r
<1>24. CASE SendMcx
  <2>1. /\ rows' = rows /\ held[cur] = 0 /\ Making
        /\ \/ Trade(cur, 1) /\ Making' /\ UNCHANGED <<unseen, cur>>
           \/ EntryAnswered /\ Making' /\ cur' = cur
           \/ UNCHANGED <<held, unseen>>
           \/ Trade(cur, 1) /\ unseen' = unseen \cup {cur}
    BY <1>24 DEF SendMcx, AcceptEntry, IInv, Ordering, Making, Goto, locals, market, history
  <2>2. CASE EntryAnswered /\ Making' /\ cur' = cur
    BY <2>1, <2>2, <1>a
  <2>3. CASE ~(EntryAnswered /\ Making' /\ cur' = cur)
    <3>1. /\ \A e \in Entries : Units(e)' = Units(e)
          /\ \A e \in Entries : e # cur => held'[e] = held[e]
      BY <2>1, <2>3, <1>c, Traded DEF Units
    <3>. QED BY <2>1, <2>3, <3>1, <1>0, <1>c, <1>n
  <2>. QED BY <2>2, <2>3
<1>25. CASE InsertMcx
  <2>1. /\ rows' = [rows EXCEPT ![cur] = mem[cur]] /\ UNCHANGED <<held, cur, unseen>>
        /\ Mcx /\ pc = "insert"
    BY <1>25 DEF InsertMcx, locals, market, history
  <2>2. mem[cur].status = "open" /\ mem[cur].net = 1 /\ held[cur] <= 1
    BY <2>1 DEF IInv, Ordering
  <2>3. \A e \in Entries : e # cur => Units(e)' = Units(e)
    BY <2>1, <1>c DEF Units
  <2>4. Units(cur)' = 1
    BY <2>1, <2>2, <1>c DEF Units
  <2>. QED BY <2>1, <2>2, <2>3, <2>4, <1>0
<1>26. CASE \/ WindowPasses \/ Scan \/ ReadStrategy \/ RepairPosition \/ Retire \/ ReadToStart
            \/ CommitStart \/ ReadToEdit \/ CommitEdit
  <2>1. UNCHANGED <<held, cur, pc>> /\ unseen \subseteq unseen'
    BY <1>26, OutsideStep DEF Refresher, Request
  <2>2. \A e \in Entries : Units(e)' = Units(e)
    BY <1>26, <1>c DEF Units, WindowPasses, Scan, ReadStrategy, RepairPosition, Retire,
       ReadToStart, CommitStart, ReadToEdit, CommitEdit
  <2>. QED BY <2>1, <2>2, <1>0 DEF Making
<1>27. CASE WriteBack
  <2>1. /\ UNCHANGED <<held, unseen, cur, pc>> /\ rpc # "idle"
        /\ rows' = rows \/ rows' = [rows EXCEPT ![First(rtodo)] = rcopy[First(rtodo)]]
    BY <1>27 DEF WriteBack, PutRow, Refreshing, engine, locals, market
  <2>2. First(rtodo) \in rtodo /\ First(rtodo) \in Entries
    BY <2>1, <1>c, TodoIn DEF IInv, Places
  <2>3. /\ rcopy[First(rtodo)].status = "open"
        /\ First(rtodo) \notin unseen => held[First(rtodo)] <= rcopy[First(rtodo)].net
    BY <2>2 DEF IInv, Copies
  <2>4. Making => Making'
    BY <2>1 DEF Making
  <2>. QED BY <2>1, <2>2, <2>3, <2>4, <1>r
<1>28. CASE \/ MarkExit \/ ExitPosition
  <2>1. UNCHANGED <<held, cur, pc>> /\ unseen \subseteq unseen'
    BY <1>28, OutsideStep DEF Refresher, Request
  <2>2. \A e \in Entries : Units(e)' = Units(e)
    BY <1>28, MarksKeep, <1>c DEF Units
  <2>. QED BY <2>1, <2>2, <1>0 DEF Making
<1>29. CASE Crash
  <2>1. rows' = rows
    BY <1>29 DEF Crash
  <2>2. held' = held \/ (Making /\ Trade(cur, 1))
    BY <1>29 DEF Crash, AcceptEntry, Making
  <2>3. unseen' = IF Entering /\ (held'[cur] > 0 \/ pc = "settle") THEN unseen \cup {cur} ELSE unseen
    BY <1>29 DEF Crash, CutOff
  <2>4. /\ \A e \in Entries : Units(e)' = Units(e)
        /\ \A e \in Entries : e # cur => held'[e] = held[e]
        /\ ~Making => held' = held
    BY <2>1, <2>2, <1>c, Traded DEF Units
  <2>5. Making => Entering
    BY DEF Making, Entering
  <2>. QED BY <2>3, <2>4, <2>5, <1>0, <1>c, <1>n
<1>30. CASE Restart
  BY <1>30, <1>u DEF Restart, Others, Goto, locals, market, history, Making
<1>. QED BY <1>1, <1>2, <1>3, <1>4, <1>5, <1>6, <1>7, <1>8, <1>9, <1>10, <1>11, <1>12, <1>13,
   <1>14, <1>15, <1>16, <1>17, <1>18, <1>19, <1>20, <1>21, <1>23, <1>24, <1>25, <1>26,
   <1>27, <1>28, <1>29, <1>30 DEF Next, Round, FuturesRound, EquityRound, McxRound, Refresher,
   Request

\* Tracked is kept.
LEMMA TrackedStep ==
  ASSUME IInv, Next
  PROVE  Tracked'
BY UnitsTracked DEF Tracked, Making, Entering, Units, Entries

\* No row is in the hands of the engine.
HandsFree == pc \notin {"steps", "save"} /\ ~(Equity /\ pc \in {"settle", "send"})

\* RowBacked is kept: what opens a row or raises it, and what sells of it.
LEMMA RowsBacked ==
  ASSUME IInv, Next
  PROVE  RowBacked'
<1>. DEFINE Backed(e) == InHand(e) \/ rows[e].net <= held[e]
            Goal == live => \A e \in Entries : rows'[e].status = "open" /\ e \notin phantom' => Backed(e)'
<1>. SUFFICES Goal
  BY PlaceTyped DEF IInv, RowBacked, Open, live, Entries
<1>0. live => \A e \in Entries : rows[e].status = "open" /\ e \notin phantom => Backed(e)
  BY DEF IInv, RowBacked, Open
<1>c. /\ TypeOK /\ cur \in Entries /\ MaxSlices \in Nat /\ case' = case
      /\ held \in [Entries -> -1 .. MaxSlices] /\ rows \in [Entries -> Rows]
      /\ mem \in [Entries -> Rows] /\ \A r \in Rows : r.net \in Nat
      /\ \A e \in Entries : held[e] \in Int /\ held'[e] \in Int
      /\ \A e \in Entries : rows[e].net \in Nat
      /\ todo # {} => First(todo) \in todo /\ First(todo) \in Entries
      /\ pc \in {"steps", "save"} => todo # {}
  BY EntryNat, AccountTyped, PlaceTyped, TodoIn DEF IInv, TypeOK, Rows, Places, AtRow
<1>f. HandsFree => \A e : ~InHand(e)
  BY DEF HandsFree, InHand, Exiting, Equity
<1>g. ASSUME phantom \subseteq phantom', HandsFree,
             \A e \in Entries : rows[e].status = "open" => held[e] <= held'[e], rows' = rows
      PROVE  Goal
  BY <1>0, <1>c, <1>f, <1>g
<1>u. UNCHANGED <<rows, held>> /\ phantom \subseteq phantom' /\ HandsFree => Goal
  BY <1>0, <1>f, <1>c
<1>s. UNCHANGED <<held, pc, todo, cur, case>> /\ phantom \subseteq phantom'
        /\ (\A e \in Entries : rows'[e].status = "open" => rows[e].status = "open" /\ rows'[e].net = rows[e].net)
      => Goal
  <2>1. UNCHANGED <<pc, todo, cur, case>> => \A e : InHand(e)' <=> InHand(e)
    BY DEF InHand, Exiting, family
  <2>. QED BY <2>1, <1>0, <1>c
<1>. USE DEF Futures, Equity, Mcx
<1>a. ASSUME EntryAnswered, rows' = rows, HandsFree
      PROVE  Goal
  <2>1. CASE held' = held
    <3>1. phantom \subseteq phantom'
      BY <1>a, <1>c, Answered
    <3>. QED BY <1>a, <2>1, <3>1, <1>u
  <2>2. CASE held' # held
    <3>1. PICK f \in Entries \ {cur} :
            /\ rows[f].status = "none" /\ phantom' = phantom /\ held'[cur] = held[cur] + 1
            /\ \A e \in Entries \ {f, cur} : held'[e] = held[e]
      BY <1>a, <1>c, <2>2, Answered
    <3>2. \A e \in Entries : rows[e].status = "open" => held[e] <= held'[e]
      BY <3>1, <1>c
    <3>. QED BY <1>a, <3>1, <3>2, <1>g
  <2>. QED BY <2>1, <2>2
<1>1. CASE Load
  BY <1>1, <1>u DEF Load, Others, Goto, market, history, HandsFree
<1>2. CASE Find("loop")
  BY <1>2, <1>u DEF Find, Others, Goto, market, history, HandsFree
<1>3. CASE KeepRow
  <2>1. /\ rows' = [rows EXCEPT ![First(todo)] = mem[First(todo)]] /\ UNCHANGED held
        /\ phantom \subseteq phantom' /\ HandsFree /\ pc = "loop" /\ todo # {}
    BY <1>3 DEF KeepRow, PutRow, market, HandsFree
  <2>2. First(todo) \in Entries /\ Asks(mem[First(todo)], First(todo))
    BY <2>1, <1>c DEF IInv, Copies, Visits
  <2>. QED BY <2>1, <2>2, <1>0, <1>c, <1>f DEF Asks
<1>4. CASE SaveRow
  <2>. DEFINE f == First(todo)
  <2>1. /\ rows' = [rows EXCEPT ![f] = mem[f]] /\ UNCHANGED held
        /\ phantom \subseteq phantom' /\ pc = "save" /\ ~Mcx
    BY <1>4 DEF SaveRow, PutRow, market
  <2>2. f \in Entries /\ Asks(mem[f], f)
    BY <2>1, <1>c DEF IInv, Copies
  <2>3. \A e \in Entries : e # f => ~InHand(e)
    BY <2>1 DEF InHand, Exiting
  <2>. QED BY <2>1, <2>2, <2>3, <1>0, <1>c DEF Asks
<1>5. ASSUME NEW k \in 0 .. MaxSlices, ExitOrder(k) PROVE Goal
  <2>. DEFINE f == First(todo)
  <2>1. /\ rows' = rows /\ phantom' = phantom /\ pc = "loop" /\ HandsFree /\ todo' = todo /\ todo # {}
        /\ pc' \in {"steps", "save"}
        /\ Trade(f, -k) \/ held' = held
    BY <1>5 DEF ExitOrder, AtExit, HandsFree, Goto, market, history, locals
  <2>2. f \in Entries /\ -k \in Int
    BY <1>5, <2>1, <1>c
  <2>3. \A e \in Entries : e # f => held'[e] = held[e]
    BY <2>1, <2>2, <1>c, Traded
  <2>4. InHand(f)'
    BY <2>1 DEF InHand, Exiting
  <2>. QED BY <2>1, <2>3, <2>4, <1>0, <1>f, <1>c
<1>6. ASSUME NEW k \in 0 .. MaxSlices, ExitAcknowledged(k) PROVE Goal
  <2>. DEFINE f == First(todo)
  <2>1. /\ rows' = rows /\ phantom' = phantom /\ pc = "loop" /\ HandsFree /\ todo' = todo /\ todo # {}
        /\ pc' \in {"steps", "save"}
        /\ Trade(f, -k) \/ held' = held
    BY <1>6 DEF ExitAcknowledged, AtExit, HandsFree, Goto, market, history, locals
  <2>2. f \in Entries /\ -k \in Int
    BY <1>6, <2>1, <1>c
  <2>3. \A e \in Entries : e # f => held'[e] = held[e]
    BY <2>1, <2>2, <1>c, Traded
  <2>4. InHand(f)'
    BY <2>1 DEF InHand, Exiting
  <2>. QED BY <2>1, <2>3, <2>4, <1>0, <1>f, <1>c
<1>7. ASSUME NEW k \in 0 .. MaxSlices, ExitRaises(k) PROVE Goal
  <2>. DEFINE f == First(todo)
  <2>1. /\ rows' = rows /\ phantom' = IF k = 0 THEN phantom ELSE phantom \cup {f}
        /\ HandsFree /\ Trade(f, -k) /\ f \in Entries
    BY <1>7, <1>c DEF ExitRaises, AtExit, HandsFree
  <2>2. /\ \A e \in Entries : e # f => held'[e] = held[e]
        /\ k = 0 => held'[f] = held[f]
    BY <2>1, <1>c, Traded
  <2>. QED BY <2>1, <2>2, <1>0, <1>f, <1>c
<1>8. CASE ExitAnswered \/ ExitBlocked
  <2>1. /\ UNCHANGED <<rows, phantom, held>> /\ HandsFree
    BY <1>8 DEF ExitAnswered, ExitBlocked, HandsFree, market, history
  <2>. QED BY <2>1, <1>u
<1>9. CASE \/ FindNothing \/ SetOut \/ SaveConfig \/ ExitLoopEnds \/ NoFutureEntry
           \/ (\E side \in case.sides : EnterFuture(side, case.slices)) \/ MarkAttempted
           \/ SettleFuture
  BY <1>9, <1>u DEF FindNothing, Others, Goto, locals, SetOut, Rest, SaveConfig, NextRow,
     ExitLoopEnds, NoFutureEntry, EnterFuture, MarkAttempted, SettleFuture, market, history,
     HandsFree
<1>10. CASE SendSlice
  <2>1. /\ rows' = rows /\ phantom \subseteq phantom' /\ HandsFree
        /\ held' = held \/ Trade(cur, 1)
    BY <1>10 DEF SendSlice, AcceptEntry, HandsFree, market, history, locals
  <2>2. \A e \in Entries : held[e] <= held'[e]
    BY <2>1, <1>c, Traded
  <2>. QED BY <2>1, <2>2, <1>g
<1>11. CASE SliceAnswered
  <2>1. /\ rows' = rows /\ HandsFree
        /\ EntryAnswered \/ UNCHANGED <<held, phantom>>
    BY <1>11 DEF SliceAnswered, HandsFree, market, history
  <2>. QED BY <2>1, <1>a, <1>u
<1>12. CASE SliceRaises
  <2>1. /\ rows' = rows /\ phantom \subseteq phantom' /\ HandsFree
        /\ held' = held \/ Trade(cur, 1)
    BY <1>12 DEF SliceRaises, AcceptEntry, HandsFree, market, history, locals
  <2>2. \A e \in Entries : held[e] <= held'[e]
    BY <2>1, <1>c, Traded
  <2>. QED BY <2>1, <2>2, <1>g
<1>13. CASE LookUpPrice
  BY <1>13, <1>u DEF LookUpPrice, Others, Goto, locals, market, history, HandsFree
<1>14. CASE InsertFuture
  <2>1. UNCHANGED <<held, phantom>> /\ Futures /\ pc = "insert" /\ HandsFree
    BY <1>14 DEF InsertFuture, HandsFree, market
  <2>2. \/ rows' = rows
        \/ rows' = [rows EXCEPT ![cur] = [mem[cur] EXCEPT !.status = "broker_failed"]]
        \/ rows' = [rows EXCEPT ![cur] = [mem[cur] EXCEPT !.status = "open"]] /\ ~bad
    BY <1>14 DEF InsertFuture
  <2>3. 
          /\ [mem[cur] EXCEPT !.status = "open"].net = mem[cur].net
        /\ [mem[cur] EXCEPT !.status = "broker_failed"].status = "broker_failed"
    BY <1>c DEF Rows
  <2>4. live /\ ~bad /\ cur \notin phantom => mem[cur].net <= held[cur]
    <3>1. /\ mem[cur].net = case.slices /\ (live => sent = case.slices)
          /\ live /\ ~bad /\ cur \notin phantom => sent <= held[cur]
      BY <2>1 DEF IInv, Ordering
    <3>. QED BY <3>1
  <2>. QED BY <2>1, <2>2, <2>3, <2>4, <1>0, <1>f, <1>c
<1>15. CASE FailFuture
  BY <1>15, <1>u DEF FailFuture, Others, Rest, Goto, market, history, HandsFree
<1>16. CASE \/ SaveSteps \/ PassSymbol
  BY <1>16, <1>u DEF SaveSteps, Others, PassSymbol, market, history, HandsFree
<1>17. CASE \/ SymbolAdded \/ EnterEquity \/ SymbolsEnd \/ NothingToExit
  BY <1>17, <1>u DEF SymbolAdded, Others, Rest, EnterEquity, Goto, SymbolsEnd, locals,
     NothingToExit, market, history, HandsFree
<1>18. CASE InsertEquity
  <2>1. /\ UNCHANGED <<held, phantom, cur>> /\ HandsFree /\ pc' = "settle" /\ case' = case /\ Equity
        /\ rows' = [rows EXCEPT ![cur] = mem[cur]]
    BY <1>18 DEF InsertEquity, HandsFree, Goto, market, history, locals, Others
  <2>2. InHand(cur)'
    BY <2>1 DEF InHand, family
  <2>. QED BY <2>1, <2>2, <1>0, <1>f, <1>c
<1>19. CASE SettleEquity
  <2>1. /\ UNCHANGED <<rows, held, phantom, cur>> /\ pc = "settle" /\ (live => pc' = "send")
        /\ case' = case /\ Equity
    BY <1>19 DEF SettleEquity, Goto, market, history, Others
  <2>2. \A e \in Entries : live /\ InHand(e) => InHand(e)'
    BY <2>1 DEF InHand, Exiting, family
  <2>. QED BY <2>1, <2>2, <1>0
<1>20. CASE SendEquity
  <2>1. /\ rows' = rows /\ pc = "send" /\ Equity
        /\ (Trade(cur, 1) /\ phantom' = phantom) \/ (held' = held /\ phantom' = phantom \cup {cur})
    BY <1>20 DEF SendEquity
  <2>2. rows[cur].net = 1 /\ held[cur] = 0
    BY <2>1 DEF IInv, Ordering
  <2>3. /\ \A e \in Entries : e # cur => ~InHand(e)
        /\ \A e \in Entries : e # cur => held'[e] = held[e]
        /\ live /\ Trade(cur, 1) => held'[cur] = 1
    BY <2>1, <2>2, <1>c, Traded DEF InHand, Exiting
  <2>. QED BY <2>1, <2>2, <2>3, <1>0, <1>c
<1>21. CASE SaveExitSteps
  <2>1. /\ UNCHANGED <<rows, held, phantom, todo, cur>> /\ pc = "steps" /\ pc' = "save"
    BY <1>21 DEF SaveExitSteps, Goto, market, history, locals
  <2>2. \A e \in Entries : InHand(e) => InHand(e)'
    BY <2>1 DEF InHand, Exiting
  <2>. QED BY <2>1, <2>2, <1>0
<1>22. CASE \/ NoMcxRow \/ McxManaged \/ KeepMcxRow \/ McxOut \/ NoMcxEntry
            \/ (\E side \in case.sides : EnterMcx(side))
            \/ SettleMcx
  BY <1>22, <1>u DEF NoMcxRow, Others, Goto, locals, McxManaged, KeepMcxRow, NextRow, McxOut,
     NoMcxEntry, Rest, EnterMcx, SettleMcx, market, history, HandsFree
<1>23. CASE ExitMcx \/ ExitMcxAnswered
  <2>. DEFINE f == First(todo)
  <2>1. /\ rows' = rows /\ phantom' = phantom /\ pc = "loop" /\ HandsFree /\ todo' = todo /\ todo # {}
        /\ pc' \in {"steps", "save"}
        /\ Trade(f, -mem[First(todo)].net) \/ held' = held
    BY <1>23 DEF ExitMcx, ExitMcxAnswered, AtMcxExit, HandsFree, Goto, market, history, locals
  <2>2. f \in Entries /\ -mem[First(todo)].net \in Int
    BY <1>23, <2>1, <1>c
  <2>3. \A e \in Entries : e # f => held'[e] = held[e]
    BY <2>1, <2>2, <1>c, Traded
  <2>4. InHand(f)'
    BY <2>1 DEF InHand, Exiting
  <2>. QED BY <2>1, <2>3, <2>4, <1>0, <1>f, <1>c
<1>24. CASE ExitMcxRaises
  <2>. DEFINE f == First(todo)
  <2>1. /\ rows' = rows /\ HandsFree /\ f \in Entries /\ mem[f].net \in Nat
        /\ \/ UNCHANGED <<held, phantom>>
           \/ Trade(f, -mem[f].net) /\ phantom' = phantom \cup {f}
    BY <1>24, <1>c DEF ExitMcxRaises, AtMcxExit, HandsFree, market
  <2>2. Trade(f, -mem[f].net) => \A e \in Entries : e # f => held'[e] = held[e]
    BY <2>1, <1>c, Traded
  <2>. QED BY <2>1, <2>2, <1>0, <1>f, <1>c
<1>25. CASE CloseMcxRow
  <2>. DEFINE f == First(todo)
              row == [rows[f] EXCEPT !.status = "close"]
  <2>1. /\ rows' = [rows EXCEPT ![f] = row] /\ UNCHANGED <<held, phantom>> /\ pc = "save"
    BY <1>25 DEF CloseMcxRow, market, history
  <2>2. f \in Entries
    BY <2>1, <1>c
  <2>3. row.status = "close"
    BY <2>2, <1>c DEF Rows
  <2>4. \A e \in Entries : e # f => ~InHand(e)
    BY <1>25, <2>1 DEF CloseMcxRow, InHand, Exiting
  <2>. HIDE DEF row, f
  <2>. QED BY <2>1, <2>2, <2>3, <2>4, <1>0, <1>c
<1>26. CASE SendMcx
  <2>1. /\ rows' = rows /\ HandsFree
        /\ EntryAnswered \/ (phantom \subseteq phantom' /\ (held' = held \/ Trade(cur, 1)))
    BY <1>26 DEF SendMcx, AcceptEntry, HandsFree, market, history, locals
  <2>2. held' = held \/ Trade(cur, 1) => \A e \in Entries : held[e] <= held'[e]
    BY <2>1, <1>c, Traded
  <2>. QED BY <2>1, <2>2, <1>a, <1>g
<1>27. CASE InsertMcx
  <2>1. /\ UNCHANGED <<held, phantom>> /\ HandsFree /\ Mcx /\ pc = "insert"
        /\ rows' = [rows EXCEPT ![cur] = mem[cur]]
    BY <1>27 DEF InsertMcx, HandsFree, market, history
  <2>2. mem[cur].net = 1 /\ (live /\ cur \notin phantom => held[cur] = 1)
    BY <2>1 DEF IInv, Ordering
  <2>. QED BY <2>1, <2>2, <1>0, <1>f, <1>c
<1>28. CASE \/ WindowPasses \/ Scan \/ ReadStrategy \/ RepairPosition \/ Retire \/ ReadToStart
            \/ CommitStart \/ ReadToEdit \/ CommitEdit
  <2>1. /\ UNCHANGED <<held, pc, todo, cur, case>> /\ phantom \subseteq phantom'
    BY <1>28, OutsideStep DEF Refresher, Request
  <2>2. rows' = rows
    BY <1>28 DEF WindowPasses, Scan, ReadStrategy, RepairPosition, Retire, ReadToStart,
       CommitStart, ReadToEdit, CommitEdit
  <2>. QED BY <2>1, <2>2, <1>s
<1>29. CASE WriteBack
  <2>. DEFINE f == First(rtodo)
  <2>1. /\ UNCHANGED <<held, pc, todo, cur, case>> /\ rpc # "idle"
        /\ \/ rows' = rows /\ phantom' = phantom
           \/ PutRow(f, rcopy[f])
    BY <1>29 DEF WriteBack, Refreshing, engine, locals, market
  <2>2. rcopy[f].status = "open" /\ f \in Entries /\ rcopy[f].net \in Nat
    BY <2>1, <1>c, TodoIn DEF IInv, Places, Copies, TypeOK
  <2>3. CASE rows' = rows /\ phantom' = phantom
    BY <2>1, <2>3, <1>s
  <2>4. CASE PutRow(f, rcopy[f])
    <3>1. /\ rows' = [rows EXCEPT ![f] = rcopy[f]]
          /\ phantom' = IF Undoes(f, rcopy[f]) THEN phantom \cup {f} ELSE phantom
      BY <2>4 DEF PutRow
    <3>2. ~Undoes(f, rcopy[f]) => rows[f].status = "open" /\ rcopy[f].net <= rows[f].net
      BY <2>2, <1>c DEF Undoes
    <3>3. \A e : InHand(e)' <=> InHand(e)
      BY <2>1 DEF InHand, Exiting, family
    <3>. QED BY <3>1, <3>2, <3>3, <2>1, <2>2, <1>0, <1>c
  <2>. QED BY <2>1, <2>3, <2>4
<1>30. CASE \/ MarkExit \/ ExitPosition
  <2>1. /\ UNCHANGED <<held, pc, todo, cur, case>> /\ phantom \subseteq phantom'
    BY <1>30, OutsideStep DEF Request
  <2>. QED BY <1>30, <2>1, <1>s, <1>c, MarksKeep
<1>31. CASE Crash
  <2>. DEFINE f == IF Entering THEN cur ELSE First(todo)
  <2>1. /\ rows' = rows /\ (held' = held \/ (pc = "send" /\ Trade(cur, 1)))
        /\ phantom' = IF \/ Exiting /\ held[f] < rows[f].net
                         \/ Entering /\ rows[f].status = "open" /\ held'[f] < rows[f].net
                      THEN phantom \cup {f} ELSE phantom
    BY <1>31 DEF Crash, CutOff, AcceptEntry
  <2>2. \A e \in Entries : held[e] <= held'[e]
    BY <2>1, <1>c, Traded
  <2>3. ASSUME NEW e \in Entries, InHand(e), live, rows[e].status = "open", e \notin phantom'
        PROVE  rows[e].net <= held'[e]
    <3>1. CASE Entering
      <4>1. e = cur
        BY <3>1, <2>3 DEF InHand, Exiting, Entering
      <4>. QED BY <4>1, <3>1, <2>1, <2>2, <2>3, <1>c
    <3>2. CASE ~Entering
      <4>1. e = First(todo) /\ Exiting
        BY <3>2, <2>3, <1>c DEF InHand, Exiting, Entering
      <4>. QED BY <4>1, <3>2, <2>1, <2>2, <2>3, <1>c
    <3>. QED BY <3>1, <3>2
  <2>. QED BY <2>1, <2>2, <2>3, <1>0, <1>c
<1>32. CASE Restart
  BY <1>32, <1>u DEF Restart, Others, Goto, locals, market, history, HandsFree
<1>. QED BY <1>1, <1>2, <1>3, <1>4, <1>5, <1>6, <1>7, <1>8, <1>9, <1>10, <1>11, <1>12, <1>13,
   <1>14, <1>15, <1>16, <1>17, <1>18, <1>19, <1>20, <1>21, <1>22, <1>23, <1>24, <1>25, <1>26,
   <1>27, <1>28, <1>29, <1>30, <1>31, <1>32 DEF Next, Round, FuturesRound, EquityRound,
   McxRound, Refresher, Request

-----------------------------------------------------------------------------
(* One position.                                                           *)

\* How a step may change a row: what closes it, and what opens it.
LEMMA RowsChange ==
  ASSUME IInv, Next
  PROVE  \A e \in Entries :
             /\ rows[e].status \in {"open", "close"} =>
                  rows'[e].status \in {"open", "close"} /\ rows'[e].kind = rows[e].kind
             /\ rows[e].status = "open" /\ rows'[e].status # "open" =>
                  /\ pc = "save" /\ e = First(todo) /\ UNCHANGED <<held, unseen, phantom>>
                  /\ IF Equity THEN pc' = "idle" ELSE pc' = "config" /\ UNCHANGED todo
             /\ rows[e].status # "open" /\ rows'[e].status = "open" =>
                  \/ e \in phantom'
                  \/ /\ pc = "insert" /\ pc' = "settle" /\ e = cur /\ cur' = cur
                     /\ rows'[e].kind = mem[e].kind /\ (Futures => ~bad) /\ phantom' = phantom
<1>. DEFINE Kept(e) ==
              rows[e].status \in {"open", "close"} =>
                rows'[e].status \in {"open", "close"} /\ rows'[e].kind = rows[e].kind
            Closed(e) ==
              rows[e].status = "open" /\ rows'[e].status # "open" =>
                /\ pc = "save" /\ e = First(todo) /\ UNCHANGED <<held, unseen, phantom>>
                /\ IF Equity THEN pc' = "idle" ELSE pc' = "config" /\ UNCHANGED todo
            Opened(e) ==
              rows[e].status # "open" /\ rows'[e].status = "open" =>
                \/ e \in phantom'
                \/ /\ pc = "insert" /\ pc' = "settle" /\ e = cur /\ cur' = cur
                   /\ rows'[e].kind = mem[e].kind /\ (Futures => ~bad) /\ phantom' = phantom
            Goal == \A e \in Entries : Kept(e) /\ Closed(e) /\ Opened(e)
<1>. SUFFICES Goal
  OBVIOUS
<1>c. /\ TypeOK /\ cur \in Entries
      /\ rows \in [Entries -> Rows] /\ mem \in [Entries -> Rows] /\ rcopy \in [Entries -> Rows]
      /\ todo # {} => First(todo) \in todo /\ First(todo) \in Entries
      /\ rpc # "idle" => First(rtodo) \in rtodo /\ First(rtodo) \in Entries
      /\ pc \in {"steps", "save"} => todo # {}
  BY TodoIn DEF IInv, TypeOK, Places, AtRow
<1>u. rows' = rows => Goal
  OBVIOUS
<1>s. (\A e \in Entries : rows'[e].status = rows[e].status /\ rows'[e].kind = rows[e].kind) => Goal
  OBVIOUS
<1>. USE DEF Futures, Equity, Mcx
<1>1. CASE \/ Load \/ Find("loop") \/ (\E k \in 0 .. MaxSlices : ExitOrder(k))
           \/ (\E k \in 0 .. MaxSlices : ExitAcknowledged(k))
           \/ (\E k \in 0 .. MaxSlices : ExitRaises(k)) \/ ExitAnswered \/ ExitBlocked
  BY <1>1, <1>u DEF Load, Others, Goto, Find, ExitOrder, ExitAcknowledged, ExitRaises, Rest,
     ExitAnswered, ExitBlocked
<1>2. CASE KeepRow
  <2>. DEFINE f == First(todo)
  <2>1. rows' = [rows EXCEPT ![f] = mem[f]] /\ pc = "loop" /\ todo # {} /\ ~Mcx
    BY <1>2 DEF KeepRow, PutRow
  <2>2. f \in Entries /\ mem[f].status = "open" /\ rows[f].status = "open" /\ mem[f].kind = rows[f].kind
    BY <2>1, <1>c DEF IInv, Copies, Visits, Listed
  <2>. HIDE DEF f
  <2>. QED BY <2>1, <2>2, <1>c, <1>s
<1>3. CASE SaveRow
  <2>. DEFINE f == First(todo)
  <2>1. /\ rows' = [rows EXCEPT ![f] = mem[f]] /\ pc = "save" /\ ~Mcx /\ UNCHANGED <<held, unseen>>
        /\ phantom' = IF Undoes(f, mem[f]) THEN phantom \cup {f} ELSE phantom
        /\ IF Equity THEN pc' = "idle" ELSE (mem[f].status = "close" => pc' = "config" /\ UNCHANGED todo)
    BY <1>3 DEF SaveRow, PutRow, Rest, Goto, locals, market
  <2>2. f \in Entries /\ mem[f].status \in {"open", "close"}
        /\ rows[f].status = "open" /\ mem[f].kind = rows[f].kind
    BY <2>1, <1>c DEF IInv, Copies, Listed
  <2>3. mem[f].status = "close" => phantom' = phantom
    BY <2>1 DEF Undoes
  <2>4. rows'[f] = mem[f] /\ \A e \in Entries : e # f => rows'[e] = rows[e]
    BY <2>1, <2>2, <1>c
  <2>5. Kept(f) /\ Closed(f) /\ Opened(f)
    BY <2>1, <2>2, <2>3, <2>4
  <2>. QED BY <2>4, <2>5
<1>4. CASE \/ FindNothing \/ SetOut \/ SaveConfig \/ ExitLoopEnds \/ NoFutureEntry
           \/ (\E side \in case.sides : EnterFuture(side, case.slices)) \/ MarkAttempted
           \/ SendSlice
  BY <1>4, <1>u DEF FindNothing, Others, Goto, locals, SetOut, Rest, SaveConfig, NextRow,
     ExitLoopEnds, NoFutureEntry, EnterFuture, MarkAttempted, SendSlice
<1>5. CASE \/ SliceAnswered \/ SliceRaises \/ LookUpPrice \/ SettleFuture \/ FailFuture
  BY <1>5, <1>u DEF SliceAnswered, EntryAnswered, Others, Goto, SliceRaises, locals,
     LookUpPrice, SettleFuture, Rest, FailFuture
<1>6. CASE InsertFuture
  <2>1. pc = "insert" /\ pc' = "settle" /\ UNCHANGED <<cur, phantom>>
    BY <1>6 DEF InsertFuture, Goto, locals
  <2>2. \/ rows' = rows
        \/ rows' = [rows EXCEPT ![cur] = [mem[cur] EXCEPT !.status = "open"]] /\ ~bad
        \/ rows' = [rows EXCEPT ![cur] = [mem[cur] EXCEPT !.status = "broker_failed"]]
    BY <1>6 DEF InsertFuture
  <2>3. /\ [mem[cur] EXCEPT !.status = "open"].kind = mem[cur].kind
        /\ [mem[cur] EXCEPT !.status = "broker_failed"].status = "broker_failed"
    BY <1>c DEF Rows
  <2>4. rows[cur].status = "none"
    BY <2>1, <1>c DEF IInv, FreshEntry, Rowless, Known
  <2>. QED BY <2>1, <2>2, <2>3, <2>4, <1>c
<1>7. CASE \/ SaveSteps \/ SymbolAdded \/ PassSymbol \/ EnterEquity \/ SettleEquity
           \/ SendEquity \/ SymbolsEnd \/ NothingToExit
  BY <1>7, <1>u DEF SaveSteps, Others, SymbolAdded, Rest, PassSymbol, EnterEquity, Goto,
     SettleEquity, SendEquity, SymbolsEnd, locals, NothingToExit
<1>8. CASE \/ InsertEquity \/ InsertMcx
  <2>1. /\ rows' = [rows EXCEPT ![cur] = mem[cur]] /\ ~Futures
        /\ pc = "insert" /\ pc' = "settle" /\ UNCHANGED <<cur, phantom>>
    BY <1>8 DEF InsertEquity, InsertMcx, Goto, locals, history
  <2>2. rows[cur].status = "none"
    BY <2>1, <1>c DEF IInv, FreshEntry, Rowless, Known
  <2>. QED BY <2>1, <2>2, <1>c
<1>9. CASE SaveExitSteps
  BY <1>9, <1>u DEF SaveExitSteps, Others, Goto, locals
<1>10. CASE \/ NoMcxRow \/ McxManaged \/ KeepMcxRow \/ ExitMcx \/ ExitMcxAnswered
            \/ ExitMcxRaises \/ McxOut
            \/ NoMcxEntry \/ (\E side \in case.sides : EnterMcx(side))
  BY <1>10, <1>u DEF NoMcxRow, Others, Goto, locals, McxManaged, KeepMcxRow, NextRow, ExitMcx,
     ExitMcxAnswered, ExitMcxRaises, Rest, McxOut, NoMcxEntry, EnterMcx
<1>11. CASE CloseMcxRow
  <2>. DEFINE f == First(todo)
              row == [rows[f] EXCEPT !.status = "close"]
  <2>1. /\ rows' = [rows EXCEPT ![f] = row] /\ pc = "save" /\ Mcx /\ UNCHANGED <<held, unseen, phantom>>
        /\ pc' = "config" /\ UNCHANGED todo
    BY <1>11 DEF CloseMcxRow, Goto, locals, market, history
  <2>2. f \in Entries
    BY <2>1, <1>c
  <2>3. row.status = "close" /\ row.kind = rows[f].kind
    BY <2>2, <1>c DEF Rows
  <2>. HIDE DEF row
  <2>4. rows'[f] = row /\ \A e \in Entries : e # f => rows'[e] = rows[e]
    BY <2>1, <2>2, <1>c
  <2>5. Kept(f) /\ Closed(f) /\ Opened(f)
    BY <2>1, <2>3, <2>4
  <2>. QED BY <2>4, <2>5
<1>12. CASE \/ SendMcx \/ SettleMcx
  BY <1>12, <1>u DEF SendMcx, EntryAnswered, Others, Rest, Goto, locals, SettleMcx
<1>13. CASE \/ WindowPasses \/ Scan \/ ReadStrategy \/ RepairPosition
  BY <1>13, <1>u DEF WindowPasses, engine, locals, Scan, Refreshing, ReadStrategy,
     RepairPosition
<1>14. CASE WriteBack
  <2>. DEFINE f == First(rtodo)
  <2>1. rows' = rows \/ PutRow(f, rcopy[f])
    BY <1>14 DEF WriteBack
  <2>2. f \in Entries /\ rcopy[f].status = "open" /\ rcopy[f].kind = rows[f].kind
    BY <1>14, <1>c DEF WriteBack, IInv, Copies, Listed
  <2>3. CASE PutRow(f, rcopy[f])
    <3>1. /\ rows'[f] = rcopy[f] /\ \A e \in Entries : e # f => rows'[e] = rows[e]
          /\ rows[f].status # "open" => f \in phantom'
      BY <2>2, <2>3, <1>c DEF PutRow, Undoes
    <3>2. Kept(f) /\ Closed(f) /\ Opened(f)
      BY <2>2, <3>1
    <3>. QED BY <3>1, <3>2
  <2>. QED BY <2>1, <2>3, <1>u
<1>15. CASE \/ Retire \/ ReadToStart \/ CommitStart \/ ReadToEdit \/ CommitEdit
  BY <1>15, <1>u DEF Retire, Requesting, engine, locals, ReadToStart, CommitStart, ReadToEdit,
     CommitEdit
<1>16. CASE \/ MarkExit \/ ExitPosition
  <2>1. \A e \in Entries : rows'[e] = rows[e] \/ rows'[e] = [rows[e] EXCEPT !.decision = "exitit"]
    BY <1>16, <1>c DEF MarkExit, ExitPosition
  <2>2. \A r \in Rows : /\ [r EXCEPT !.decision = "exitit"].status = r.status
                     /\ [r EXCEPT !.decision = "exitit"].kind = r.kind
    BY DEF Rows
  <2>3. \A e \in Entries : rows'[e].status = rows[e].status /\ rows'[e].kind = rows[e].kind
    BY <2>1, <2>2, <1>c
  <2>. QED BY <2>3, <1>s
<1>17. CASE \/ Crash \/ Restart
  BY <1>17, <1>u DEF Crash, Goto, Restart, Others, locals
<1>. QED BY <1>1, <1>2, <1>3, <1>4, <1>5, <1>6, <1>7, <1>8, <1>9, <1>10, <1>11, <1>12, <1>13,
   <1>14, <1>15, <1>16, <1>17 DEF Next, Round, FuturesRound, EquityRound, McxRound, Refresher,
   Request

\* What stands for more than was bought does so from then on, and what has a
\* row is not found again.
LEMMA HistoryGrows ==
  ASSUME Next
  PROVE  phantom \subseteq phantom' /\ \A e \in unseen : rows[e].status # "none" => e \in unseen'
<1>1. CASE \/ Load \/ Find("loop") \/ (\E k \in 0 .. MaxSlices : ExitOrder(k))
           \/ (\E k \in 0 .. MaxSlices : ExitAcknowledged(k))
           \/ (\E k \in 0 .. MaxSlices : ExitRaises(k)) \/ ExitAnswered \/ ExitBlocked
  BY <1>1 DEF Load, Others, Goto, Find, ExitOrder, ExitAcknowledged, ExitRaises, Rest,
     ExitAnswered, ExitBlocked, market, history
<1>2. CASE \/ KeepRow \/ SaveRow
  BY <1>2 DEF KeepRow, Others, PutRow, NextRow, SaveRow, Rest, Goto, locals, market, history
<1>3. CASE \/ FindNothing \/ SetOut \/ SaveConfig \/ ExitLoopEnds \/ NoFutureEntry
           \/ (\E side \in case.sides : EnterFuture(side, case.slices)) \/ MarkAttempted
           \/ SendSlice
  BY <1>3 DEF FindNothing, Others, Goto, locals, SetOut, Rest, SaveConfig, NextRow,
     ExitLoopEnds, NoFutureEntry, EnterFuture, MarkAttempted, SendSlice, market, history
<1>4. CASE SliceAnswered
  BY <1>4 DEF SliceAnswered, EntryAnswered, Others, Goto, market, history, Adopts
<1>5. CASE \/ SliceRaises \/ LookUpPrice
  BY <1>5 DEF SliceRaises, Others, Goto, locals, LookUpPrice, market, history, LosesSight
<1>6. CASE \/ InsertFuture \/ SettleFuture \/ FailFuture
  BY <1>6 DEF InsertFuture, Others, Goto, locals, SettleFuture, Rest, FailFuture, market,
     history
<1>7. CASE \/ SaveSteps \/ SymbolAdded \/ PassSymbol \/ EnterEquity \/ InsertEquity
           \/ SettleEquity \/ SendEquity \/ SymbolsEnd
  BY <1>7 DEF SaveSteps, Others, SymbolAdded, Rest, PassSymbol, EnterEquity, Goto,
     InsertEquity, locals, SettleEquity, SendEquity, SymbolsEnd, market, history
<1>8. CASE \/ NothingToExit \/ SaveExitSteps
  BY <1>8 DEF NothingToExit, Others, Rest, SaveExitSteps, Goto, locals, market, history
<1>9. CASE \/ NoMcxRow \/ McxManaged \/ KeepMcxRow \/ ExitMcx \/ ExitMcxAnswered
           \/ ExitMcxRaises \/ CloseMcxRow
           \/ McxOut \/ NoMcxEntry
  BY <1>9 DEF NoMcxRow, Others, Goto, locals, McxManaged, KeepMcxRow, NextRow, ExitMcx,
     ExitMcxAnswered, ExitMcxRaises, Rest, CloseMcxRow, McxOut, NoMcxEntry, market, history,
     AtMcxExit
<1>10. CASE \/ (\E side \in case.sides : EnterMcx(side)) \/ SendMcx \/ InsertMcx \/ SettleMcx
  BY <1>10 DEF EnterMcx, Others, Goto, SendMcx, EntryAnswered, Rest, locals, InsertMcx,
     SettleMcx, market, history, Adopts
<1>11. CASE WindowPasses
  BY <1>11 DEF WindowPasses, engine, locals, market, history
<1>12. CASE \/ Scan \/ ReadStrategy \/ RepairPosition \/ WriteBack
  BY <1>12 DEF Scan, Refreshing, engine, locals, ReadStrategy, RepairPosition, WriteBack,
     market, history, PutRow
<1>13. CASE \/ Retire \/ MarkExit \/ ReadToStart \/ ReadToEdit \/ ExitPosition
  BY <1>13 DEF Retire, Requesting, engine, locals, MarkExit, ReadToStart, ReadToEdit,
     ExitPosition, market, history
<1>14. CASE \/ CommitStart \/ CommitEdit
  BY <1>14 DEF CommitStart, Requesting, engine, locals, CommitEdit, market, history, Displaces
<1>15. CASE Crash
  BY <1>15 DEF Crash, Goto, market, history, CutOff
<1>16. CASE Restart
  BY <1>16 DEF Restart, Others, Goto, locals, market, history
<1>. QED BY <1>1, <1>2, <1>3, <1>4, <1>5, <1>6, <1>7, <1>8, <1>9, <1>10, <1>11, <1>12, <1>13,
   <1>14, <1>15, <1>16 DEF Next, Round, FuturesRound, EquityRound, McxRound, Refresher,
   Request

\* What has gone astray stays astray.
LEMMA AstrayStays ==
  ASSUME IInv, Next
  PROVE  Astray \subseteq Astray'
<1>1. /\ unseen \subseteq Entries
      /\ \A e \in Entries : rows[e].status \in {"open", "close"} => rows'[e].status \in {"open", "close"}
  BY RowsChange DEF IInv, TypeOK
<1>2. /\ phantom \subseteq phantom'
      /\ \A e \in unseen : rows[e].status # "none" => e \in unseen'
  BY HistoryGrows
<1>. QED BY <1>1, <1>2 DEF Astray

\* Rows still to visit were so before, or were just found open.
LEMMA TodoShrinks ==
  ASSUME IInv, Next
  PROVE  \A e \in todo' : (pc' = "config" => e # First(todo')) =>
             \/ e \in todo /\ (pc = "config" => e # First(todo))
             \/ rows[e].status = "open" /\ pc # "save"
<1>. DEFINE Goal == \A e \in todo' : (pc' = "config" => e # First(todo')) =>
                      \/ e \in todo /\ (pc = "config" => e # First(todo))
                      \/ rows[e].status = "open" /\ pc # "save"
<1>. SUFFICES Goal
  OBVIOUS
<1>1. CASE \/ Load \/ ExitAnswered \/ ExitBlocked
  BY <1>1 DEF Load, Others, Goto, ExitAnswered, ExitBlocked
<1>2. CASE Find("loop")
  BY <1>2 DEF Find, Others, Goto, Open
<1>3. CASE KeepRow
  BY <1>3 DEF KeepRow, Others, PutRow, NextRow
<1>4. CASE SaveRow
  BY <1>4 DEF SaveRow, Others, PutRow, NextRow, Rest, Goto, locals
<1>5. CASE \/ (\E k \in 0 .. MaxSlices : ExitOrder(k))
           \/ (\E k \in 0 .. MaxSlices : ExitAcknowledged(k))
           \/ (\E k \in 0 .. MaxSlices : ExitRaises(k))
  BY <1>5 DEF ExitOrder, Others, Goto, ExitAcknowledged, ExitRaises, Rest, AtExit
<1>6. CASE \/ FindNothing \/ SetOut \/ ExitLoopEnds \/ NoFutureEntry
           \/ (\E side \in case.sides : EnterFuture(side, case.slices)) \/ MarkAttempted
           \/ SendSlice \/ SliceAnswered
  BY <1>6 DEF FindNothing, Others, Goto, locals, SetOut, Rest, ExitLoopEnds, NoFutureEntry,
     EnterFuture, MarkAttempted, SendSlice, SliceAnswered, EntryAnswered
<1>7. CASE SaveConfig
  BY <1>7 DEF SaveConfig, Others, NextRow, Goto
<1>8. CASE \/ SliceRaises \/ LookUpPrice \/ InsertFuture \/ SettleFuture \/ FailFuture
  BY <1>8 DEF SliceRaises, Others, Goto, locals, LookUpPrice, InsertFuture, SettleFuture, Rest,
     FailFuture
<1>9. CASE \/ SaveSteps \/ SymbolAdded \/ PassSymbol \/ EnterEquity \/ InsertEquity
           \/ SettleEquity \/ SendEquity \/ SymbolsEnd
  BY <1>9 DEF SaveSteps, Others, SymbolAdded, Rest, PassSymbol, EnterEquity, Goto,
     InsertEquity, locals, SettleEquity, SendEquity, SymbolsEnd
<1>10. CASE \/ NothingToExit \/ SaveExitSteps
  BY <1>10 DEF NothingToExit, Others, Rest, SaveExitSteps, Goto, locals
<1>11. CASE \/ NoMcxRow \/ McxManaged \/ ExitMcx \/ ExitMcxAnswered \/ ExitMcxRaises
            \/ NoMcxEntry \/ (\E side \in case.sides : EnterMcx(side))
            \/ SendMcx \/ InsertMcx
  BY <1>11 DEF NoMcxRow, Others, Goto, locals, McxManaged, ExitMcx, ExitMcxAnswered,
     ExitMcxRaises, Rest, NoMcxEntry, EnterMcx, SendMcx, EntryAnswered, InsertMcx,
     AtMcxExit
<1>12. CASE KeepMcxRow
  BY <1>12 DEF KeepMcxRow, Others, NextRow
<1>13. CASE CloseMcxRow
  BY <1>13 DEF CloseMcxRow, Others, Goto, locals
<1>14. CASE McxOut
  BY <1>14 DEF McxOut, Others, Goto, NextRow
<1>15. CASE SettleMcx
  BY <1>15 DEF SettleMcx, Others, Rest, Goto
<1>16. CASE \/ WindowPasses \/ Scan \/ ReadStrategy \/ RepairPosition \/ WriteBack \/ Retire
            \/ MarkExit \/ ReadToStart \/ CommitStart \/ ReadToEdit \/ CommitEdit
            \/ ExitPosition
  <2>1. UNCHANGED <<pc, todo>>
    BY <1>16, OutsideStep DEF Refresher, Request
  <2>. QED BY <2>1
<1>17. CASE \/ Crash \/ Restart
  BY <1>17 DEF Crash, Goto, Restart, Others, locals
<1>. QED BY <1>1, <1>2, <1>3, <1>4, <1>5, <1>6, <1>7, <1>8, <1>9, <1>10, <1>11, <1>12, <1>13,
   <1>14, <1>15, <1>16, <1>17 DEF Next, Round, FuturesRound, EquityRound, McxRound, Refresher,
   Request

\* The engine's copies keep the kind of their row.
LEMMA TodoKinds ==
  ASSUME IInv, Next
  PROVE  \A e \in todo' : \/ e \in todo /\ mem'[e].kind = mem[e].kind
                          \/ rows' = rows /\ mem'[e] = rows[e] /\ rows[e].status = "open"
<1>. DEFINE Goal == \A e \in todo' : \/ e \in todo /\ mem'[e].kind = mem[e].kind
                                     \/ rows' = rows /\ mem'[e] = rows[e] /\ rows[e].status = "open"
<1>. SUFFICES Goal
  OBVIOUS
<1>c. /\ todo \subseteq Entries /\ mem \in [Entries -> Rows]
      /\ Equity /\ pc \notin {"loop", "steps", "save"} => todo = {}
      /\ todo # {} => First(todo) \in Entries
  BY TodoIn DEF IInv, TypeOK, Places
<1>u. mem' = mem /\ todo' \subseteq todo => Goal
  OBVIOUS
<1>n. todo' = todo \ {First(todo)} /\ mem' = [mem EXCEPT ![First(todo)] = NoRow] => Goal
  BY <1>c
<1>1. CASE \/ Load \/ (\E k \in 0 .. MaxSlices : ExitRaises(k))
  BY <1>1, <1>u DEF Load, Others, Goto, ExitRaises, Rest
<1>2. CASE Find("loop")
  BY <1>2, <1>c DEF Find, Others, Goto, Open
<1>3. CASE \/ KeepRow \/ SaveConfig \/ McxOut \/ KeepMcxRow
  BY <1>3, <1>n DEF KeepRow, Others, PutRow, NextRow, SaveConfig, Goto, McxOut, KeepMcxRow
<1>4. CASE SaveRow
  BY <1>4, <1>n, <1>u DEF SaveRow, Others, PutRow, NextRow, Rest, Goto, locals
<1>5. ASSUME NEW k \in 0 .. MaxSlices, ExitOrder(k) PROVE Goal
  <2>. DEFINE f == First(todo)
              closed == k = mem[f].net
              s == IF closed THEN "close" ELSE mem[f].status
              d == IF closed THEN mem[f].decision ELSE "exitit"
  <2>1. todo' = todo /\ f \in Entries /\ mem[f] \in Rows
    BY <1>5, <1>c DEF ExitOrder, AtExit
  <2>2. mem' = [mem EXCEPT ![f] = [mem[f] EXCEPT !.net = mem[f].net - k, !.status = s, !.decision = d]]
    BY <1>5, <1>c, <2>1 DEF ExitOrder, Rows
  <2>. HIDE DEF s, d, f
  <2>3. mem'[f].kind = mem[f].kind /\ \A e \in Entries : e # f => mem'[e] = mem[e]
    BY <2>1, <2>2, <1>c DEF Rows
  <2>. QED BY <2>1, <2>3, <1>c
<1>6. ASSUME NEW k \in 0 .. MaxSlices, ExitAcknowledged(k) PROVE Goal
  <2>. DEFINE f == First(todo)
  <2>1. todo' = todo /\ f \in Entries
        /\ mem' = [mem EXCEPT ![f] = [mem[f] EXCEPT !.net = 0, !.status = "close",
                                                    !.decision = "intrade"]]
    BY <1>6, <1>c DEF ExitAcknowledged, AtExit
  <2>2. mem'[f].kind = mem[f].kind /\ \A e \in Entries : e # f => mem'[e] = mem[e]
    BY <2>1, <1>c DEF Rows
  <2>. QED BY <2>1, <2>2, <1>c
<1>7. CASE ExitAnswered \/ ExitBlocked
  <2>. DEFINE f == First(todo)
  <2>1. /\ todo' = todo /\ f \in Entries
        /\ \/ mem' = [mem EXCEPT ![f] = [mem[f] EXCEPT !.net = 0, !.status = "close"]]
           \/ mem' = [mem EXCEPT ![f] = [mem[f] EXCEPT !.decision = "exitit"]]
    BY <1>7, <1>c DEF ExitAnswered, ExitBlocked
  <2>2. mem'[f].kind = mem[f].kind /\ \A e \in Entries : e # f => mem'[e] = mem[e]
    BY <2>1, <1>c DEF Rows
  <2>. QED BY <2>1, <2>2, <1>c
<1>8. CASE \/ FindNothing \/ SetOut \/ ExitLoopEnds \/ NoFutureEntry
           \/ (\E side \in case.sides : EnterFuture(side, case.slices)) \/ MarkAttempted
           \/ SendSlice \/ SliceAnswered
  BY <1>8, <1>u DEF FindNothing, Others, Goto, locals, SetOut, Rest, ExitLoopEnds,
     NoFutureEntry, EnterFuture, MarkAttempted, SendSlice, SliceAnswered, EntryAnswered
<1>9. CASE \/ SliceRaises \/ LookUpPrice \/ InsertFuture \/ SettleFuture \/ FailFuture
  BY <1>9, <1>u DEF SliceRaises, Others, Goto, locals, LookUpPrice, InsertFuture, SettleFuture,
     Rest, FailFuture
<1>10. CASE \/ SaveSteps \/ SymbolAdded \/ PassSymbol \/ InsertEquity \/ SettleEquity
            \/ SendEquity \/ SymbolsEnd \/ NothingToExit
  BY <1>10, <1>u DEF SaveSteps, Others, SymbolAdded, Rest, PassSymbol, InsertEquity, Goto,
     locals, SettleEquity, SendEquity, SymbolsEnd, NothingToExit
<1>11. CASE EnterEquity
  BY <1>11, <1>c DEF EnterEquity, Others, Goto, Equity
<1>12. CASE SaveExitSteps
  BY <1>12, <1>u DEF SaveExitSteps, Others, Goto, locals
<1>13. CASE \/ NoMcxRow \/ McxManaged \/ ExitMcx \/ ExitMcxAnswered \/ ExitMcxRaises
            \/ CloseMcxRow \/ NoMcxEntry
            \/ (\E side \in case.sides : EnterMcx(side)) \/ SendMcx
  BY <1>13, <1>u DEF NoMcxRow, Others, Goto, locals, McxManaged, ExitMcx, ExitMcxAnswered,
     ExitMcxRaises, Rest, CloseMcxRow, NoMcxEntry, EnterMcx, SendMcx, EntryAnswered
<1>14. CASE \/ InsertMcx \/ SettleMcx
  BY <1>14, <1>u DEF InsertMcx, Others, Goto, locals, SettleMcx, Rest
<1>15. CASE \/ WindowPasses \/ Scan \/ ReadStrategy \/ RepairPosition \/ WriteBack \/ Retire
            \/ MarkExit \/ ReadToStart \/ CommitStart \/ ReadToEdit \/ CommitEdit
            \/ ExitPosition
  <2>1. UNCHANGED <<mem, todo>>
    BY <1>15, OutsideStep DEF Refresher, Request
  <2>. QED BY <2>1
<1>16. CASE \/ Crash \/ Restart
  BY <1>16, <1>u DEF Crash, Goto, Restart, Others, locals
<1>. QED BY <1>1, <1>2, <1>3, <1>4, <1>5, <1>6, <1>7, <1>8, <1>9, <1>10, <1>11, <1>12, <1>13,
   <1>14, <1>15, <1>16 DEF Next, Round, FuturesRound, EquityRound, McxRound, Refresher,
   Request

\* The refresher's copies keep the kind of their row.
LEMMA SnapshotKinds ==
  ASSUME IInv, Next
  PROVE  \A e \in rtodo' : \/ e \in rtodo /\ rcopy'[e].kind = rcopy[e].kind
                           \/ rows' = rows /\ rcopy'[e] = rows[e] /\ rows[e].status = "open"
<1>. DEFINE Goal == \A e \in rtodo' : \/ e \in rtodo /\ rcopy'[e].kind = rcopy[e].kind
                                      \/ rows' = rows /\ rcopy'[e] = rows[e] /\ rows[e].status = "open"
<1>. SUFFICES Goal
  OBVIOUS
<1>c. /\ rtodo \subseteq Entries /\ rcopy \in [Entries -> Rows]
      /\ rtodo # {} => First(rtodo) \in Entries
  BY TodoIn DEF IInv, TypeOK, Places
<1>u. rtodo' = rtodo /\ rcopy' = rcopy => Goal
  OBVIOUS
<1>1. CASE \/ Load \/ Find("loop") \/ KeepRow \/ SaveRow
           \/ (\E k \in 0 .. MaxSlices : ExitOrder(k))
           \/ (\E k \in 0 .. MaxSlices : ExitAcknowledged(k))
           \/ (\E k \in 0 .. MaxSlices : ExitRaises(k)) \/ ExitAnswered \/ ExitBlocked
  BY <1>1, <1>u DEF Load, Others, Goto, Find, KeepRow, PutRow, NextRow, SaveRow, Rest, locals,
     ExitOrder, ExitAcknowledged, ExitRaises, ExitAnswered, ExitBlocked, refresher
<1>2. CASE \/ FindNothing \/ SetOut \/ SaveConfig \/ ExitLoopEnds \/ NoFutureEntry
           \/ (\E side \in case.sides : EnterFuture(side, case.slices)) \/ MarkAttempted
           \/ SendSlice
  BY <1>2, <1>u DEF FindNothing, Others, Goto, locals, SetOut, Rest, SaveConfig, NextRow,
     ExitLoopEnds, NoFutureEntry, EnterFuture, MarkAttempted, SendSlice, refresher
<1>3. CASE \/ SliceAnswered \/ SliceRaises \/ LookUpPrice \/ InsertFuture \/ SettleFuture
           \/ FailFuture
  BY <1>3, <1>u DEF SliceAnswered, EntryAnswered, Others, Goto, SliceRaises, locals,
     LookUpPrice, InsertFuture, SettleFuture, Rest, FailFuture, refresher
<1>4. CASE \/ SaveSteps \/ SymbolAdded \/ PassSymbol \/ EnterEquity \/ InsertEquity
           \/ SettleEquity \/ SendEquity \/ SymbolsEnd
  BY <1>4, <1>u DEF SaveSteps, Others, SymbolAdded, Rest, PassSymbol, EnterEquity, Goto,
     InsertEquity, locals, SettleEquity, SendEquity, SymbolsEnd, refresher
<1>5. CASE \/ NothingToExit \/ SaveExitSteps
  BY <1>5, <1>u DEF NothingToExit, Others, Rest, SaveExitSteps, Goto, locals, refresher
<1>6. CASE \/ NoMcxRow \/ McxManaged \/ KeepMcxRow \/ ExitMcx \/ ExitMcxAnswered
           \/ ExitMcxRaises \/ CloseMcxRow
           \/ McxOut \/ NoMcxEntry
  BY <1>6, <1>u DEF NoMcxRow, Others, Goto, locals, McxManaged, KeepMcxRow, NextRow, ExitMcx,
     ExitMcxAnswered, ExitMcxRaises, Rest, CloseMcxRow, McxOut, NoMcxEntry, refresher
<1>7. CASE \/ (\E side \in case.sides : EnterMcx(side)) \/ SendMcx \/ InsertMcx \/ SettleMcx
  BY <1>7, <1>u DEF EnterMcx, Others, Goto, SendMcx, EntryAnswered, Rest, locals, InsertMcx,
     SettleMcx, refresher
<1>8. CASE \/ WindowPasses \/ RepairPosition
  BY <1>8, <1>u DEF WindowPasses, engine, locals, RepairPosition, Refreshing, refresher
<1>9. CASE Scan
  BY <1>9, <1>c DEF Scan, Refreshing, engine, locals, refresher, Open
<1>10. CASE ReadStrategy
  <2>1. /\ rtodo' = rtodo
        /\ \E d : rcopy' = [rcopy EXCEPT ![First(rtodo)] = [rcopy[First(rtodo)] EXCEPT !.decision = d]]
    BY <1>10 DEF ReadStrategy
  <2>2. \A e \in Entries : rcopy'[e].kind = rcopy[e].kind
    BY <2>1, <1>c DEF Rows
  <2>. QED BY <2>1, <2>2, <1>c
<1>11. CASE WriteBack
  BY <1>11, <1>c DEF WriteBack, Refreshing, engine, locals, refresher
<1>12. CASE \/ Retire \/ MarkExit \/ ReadToStart \/ CommitStart \/ ReadToEdit \/ CommitEdit
            \/ ExitPosition
  BY <1>12, <1>u DEF Retire, Requesting, engine, locals, MarkExit, ReadToStart, CommitStart,
     ReadToEdit, CommitEdit, ExitPosition, refresher
<1>13. CASE Crash
  BY <1>13 DEF Crash, Goto, refresher
<1>14. CASE Restart
  BY <1>14, <1>u DEF Restart, Others, Goto, locals, refresher
<1>. QED BY <1>1, <1>2, <1>3, <1>4, <1>5, <1>6, <1>7, <1>8, <1>9, <1>10, <1>11, <1>12, <1>13,
   <1>14 DEF Next, Round, FuturesRound, EquityRound, McxRound, Refresher, Request

\* Listed is kept.
LEMMA ListedStep ==
  ASSUME IInv, Next
  PROVE  Listed'
<1>1. /\ todo \subseteq Entries /\ rtodo \subseteq Entries
      /\ \A e \in todo : (pc = "config" => e # First(todo)) => rows[e].status = "open"
      /\ \A e \in todo \cup rtodo : rows[e].status \in {"open", "close"}
      /\ \A e \in todo : mem[e].kind = rows[e].kind
      /\ \A e \in rtodo : rcopy[e].kind = rows[e].kind
  BY DEF IInv, TypeOK, Listed
<1>2. todo' \subseteq Entries
  BY VisitsTyped DEF IInv
<1>3. ASSUME NEW e \in todo', pc' = "config" => e # First(todo')
      PROVE  rows'[e].status = "open"
  <2>1. /\ rows[e].status = "open"
        /\ e \in todo \/ pc # "save"
    BY <1>1, <1>3, TodoShrinks
  <2>2. SUFFICES ASSUME rows'[e].status # "open" PROVE FALSE
    OBVIOUS
  <2>3. /\ pc = "save" /\ e = First(todo)
        /\ IF Equity THEN pc' = "idle" ELSE pc' = "config" /\ UNCHANGED todo
    BY <1>2, <2>1, <2>2, RowsChange
  <2>4. Equity /\ pc' = "idle" => todo' = {}
    BY PlacesStep, PlaceTyped DEF Places, Equity, family, IInv
  <2>. QED BY <1>3, <2>3, <2>4
<1>4. \A e \in todo' : rows'[e].status \in {"open", "close"} /\ mem'[e].kind = rows'[e].kind
  BY <1>1, TodoKinds, RowsChange
<1>5. \A e \in rtodo' : rows'[e].status \in {"open", "close"} /\ rcopy'[e].kind = rows'[e].kind
  BY <1>1, SnapshotKinds, RowsChange
<1>. QED BY <1>3, <1>4, <1>5 DEF Listed

\* An equity entry is for a symbol without an open row.
LEMMA EntryOfSymbol ==
  ASSUME IInv, Next
  PROVE  Equity /\ pc' = "insert" =>
           \/ pc = "insert" /\ cur' = cur /\ mem' = mem
           \/ rows' = rows /\ phantom' = phantom /\ \A e \in Open(rows) : rows[e].kind # mem'[cur'].kind
<1>. DEFINE Goal == Equity /\ pc' = "insert" =>
                      \/ pc = "insert" /\ cur' = cur /\ mem' = mem
                      \/ /\ rows' = rows /\ phantom' = phantom
                         /\ \A e \in Open(rows) : rows[e].kind # mem'[cur'].kind
<1>. SUFFICES Goal
  OBVIOUS
<1>c. New # {} => First(New) \in Entries
  BY NewIn DEF IInv
<1>. USE DEF Equity, Futures, Mcx
<1>1. CASE \/ Load \/ Find("loop") \/ KeepRow \/ (\E k \in 0 .. MaxSlices : ExitOrder(k))
           \/ (\E k \in 0 .. MaxSlices : ExitAcknowledged(k))
           \/ (\E k \in 0 .. MaxSlices : ExitRaises(k)) \/ ExitAnswered \/ ExitBlocked
  BY <1>1, <1>c DEF Load, Others, Goto, Find, KeepRow, PutRow, NextRow, ExitOrder,
     ExitAcknowledged, ExitRaises, Rest, ExitAnswered, ExitBlocked, locals
<1>2. CASE SaveRow
  BY <1>2, <1>c DEF SaveRow, Others, PutRow, NextRow, Rest, Goto, locals
<1>3. CASE \/ FindNothing \/ SetOut \/ SaveConfig \/ ExitLoopEnds \/ NoFutureEntry
           \/ (\E side \in case.sides : EnterFuture(side, case.slices)) \/ MarkAttempted
           \/ SendSlice \/ SliceAnswered \/ SliceRaises \/ LookUpPrice \/ InsertFuture
           \/ SettleFuture \/ FailFuture
  BY <1>3 DEF FindNothing, Others, Goto, locals, SetOut, Rest, SaveConfig, NextRow,
     ExitLoopEnds, NoFutureEntry, EnterFuture, MarkAttempted, SendSlice, SliceAnswered,
     EntryAnswered, SliceRaises, LookUpPrice, InsertFuture, SettleFuture, FailFuture,
     AfterOrders
<1>4. CASE \/ SaveSteps \/ SymbolAdded \/ PassSymbol \/ InsertEquity \/ SettleEquity
           \/ SendEquity \/ SymbolsEnd \/ NothingToExit \/ SaveExitSteps
  BY <1>4, <1>c DEF SaveSteps, Others, SymbolAdded, Rest, PassSymbol, InsertEquity, Goto,
     locals, SettleEquity, SendEquity, SymbolsEnd, NothingToExit, SaveExitSteps
<1>5. CASE EnterEquity
  <2>1. /\ cur' = First(New) /\ cur' \in Entries /\ rows' = rows /\ phantom' = phantom
        /\ mem' = [NoRows EXCEPT ![cur'] = [NoRow EXCEPT !.status = "open", !.net = 1, !.kind = First(left)]]
        /\ \A e \in Open(rows) : rows[e].kind # First(left)
    BY <1>5, <1>c DEF EnterEquity, Free, history
  <2>2. mem'[cur'].kind = First(left)
    BY <2>1, NoRowTyped DEF NoRows, NoRow
  <2>. QED BY <2>1, <2>2
<1>6. CASE \/ NoMcxRow \/ McxManaged \/ KeepMcxRow \/ ExitMcx \/ ExitMcxAnswered
           \/ ExitMcxRaises \/ CloseMcxRow
           \/ McxOut \/ NoMcxEntry \/ (\E side \in case.sides : EnterMcx(side)) \/ SendMcx \/ InsertMcx \/ SettleMcx
  BY <1>6 DEF NoMcxRow, Others, Goto, locals, McxManaged, KeepMcxRow, NextRow, ExitMcx,
     ExitMcxAnswered, ExitMcxRaises, Rest, CloseMcxRow, McxOut, NoMcxEntry, EnterMcx, SendMcx,
     EntryAnswered, InsertMcx, SettleMcx
<1>7. CASE \/ WindowPasses \/ Scan \/ ReadStrategy \/ RepairPosition \/ WriteBack \/ Retire
           \/ MarkExit \/ ReadToStart \/ CommitStart \/ ReadToEdit \/ CommitEdit
           \/ ExitPosition
  <2>1. UNCHANGED <<pc, cur, mem>>
    BY <1>7, OutsideStep DEF Refresher, Request
  <2>. QED BY <2>1
<1>8. CASE \/ Crash \/ Restart
  BY <1>8, <1>c DEF Crash, Goto, Restart, Others, locals
<1>. QED BY <1>1, <1>2, <1>3, <1>4, <1>5, <1>6, <1>7, <1>8 DEF Next, Round, FuturesRound,
   EquityRound, McxRound, Refresher, Request

\* PerSymbol is kept.
LEMMA PerSymbolStep ==
  ASSUME IInv, Next
  PROVE  PerSymbol'
<1>1. (Equity' <=> Equity) /\ (Futures => ~Equity)
  BY PlaceTyped DEF IInv, Equity, Futures, family
<1>. SUFFICES ASSUME Equity
              PROVE  /\ \A e, f \in Entries : rows'[e].status = "open" /\ e \notin phantom'
                          /\ rows'[f].status = "open" /\ f \notin phantom'
                          /\ rows'[e].kind = rows'[f].kind => e = f
                     /\ pc' = "insert" => \A e \in Entries :
                          rows'[e].status = "open" /\ e \notin phantom' => rows'[e].kind # mem'[cur'].kind
  BY <1>1 DEF PerSymbol, Open
<1>2. /\ \A e, f \in Entries : rows[e].status = "open" /\ e \notin phantom
              /\ rows[f].status = "open" /\ f \notin phantom
              /\ rows[e].kind = rows[f].kind => e = f
      /\ pc = "insert" => \A e \in Entries :
              rows[e].status = "open" /\ e \notin phantom => rows[e].kind # mem[cur].kind
  BY DEF IInv, PerSymbol, Open
<1>3. phantom \subseteq phantom'
  BY HistoryGrows
<1>4. \A e \in Entries : rows'[e].status = "open" /\ e \notin phantom' =>
        \/ rows[e].status = "open" /\ e \notin phantom /\ rows'[e].kind = rows[e].kind
        \/ pc = "insert" /\ pc' = "settle" /\ e = cur /\ rows'[e].kind = mem[cur].kind
  BY <1>3, RowsChange
<1>5. ASSUME NEW e \in Entries, NEW f \in Entries,
             rows'[e].status = "open", e \notin phantom', rows'[f].status = "open", f \notin phantom',
             rows'[e].kind = rows'[f].kind
      PROVE  e = f
  BY <1>2, <1>4, <1>5
<1>6. ASSUME pc' = "insert", NEW e \in Entries, rows'[e].status = "open", e \notin phantom'
      PROVE  rows'[e].kind # mem'[cur'].kind
  <2>1. rows[e].status = "open" /\ e \notin phantom /\ rows'[e].kind = rows[e].kind
    BY <1>4, <1>6
  <2>2. \/ pc = "insert" /\ cur' = cur /\ mem' = mem
        \/ rows' = rows /\ phantom' = phantom /\ \A g \in Open(rows) : rows[g].kind # mem'[cur'].kind
    BY <1>6, EntryOfSymbol
  <2>. QED BY <1>2, <2>1, <2>2 DEF Open
<1>. QED BY <1>5, <1>6

\* Steps of the engine, as far as they move the entry under way and the copy.
LEMMA EngineMoves ==
  ASSUME IInv, Next, ~Equity
  PROVE  /\ Making' \/ pc' = "settle" =>
              \/ (Making \/ pc = "settle") /\ cur' = cur
              \/ pc = "gate" /\ copy.position = "out"
         /\ copy'.position = "out" /\ (pc' \in {"find", "gate", "loop"} \/ (Mcx /\ pc' = "save")) =>
              \/ copy.position = "out" /\ (pc \in {"find", "gate", "loop"} \/ (Mcx /\ pc = "save"))
              \/ pc = "config"
              \/ pc = "idle" /\ strat.position = "out"
              \/ Futures /\ pc = "save" /\ mem[First(todo)].status # "close" /\ copy.position = "out"
         /\ pc = "settle" /\ pc' # "settle" =>
              strat'.position = "in" \/ (Futures /\ bad) \/ cur \in unseen'
<1>. DEFINE Goal ==
       /\ Making' \/ pc' = "settle" =>
            \/ (Making \/ pc = "settle") /\ cur' = cur
            \/ pc = "gate" /\ copy.position = "out"
       /\ copy'.position = "out" /\ (pc' \in {"find", "gate", "loop"} \/ (Mcx /\ pc' = "save")) =>
            \/ copy.position = "out" /\ (pc \in {"find", "gate", "loop"} \/ (Mcx /\ pc = "save"))
            \/ pc = "config"
            \/ pc = "idle" /\ strat.position = "out"
            \/ Futures /\ pc = "save" /\ mem[First(todo)].status # "close" /\ copy.position = "out"
       /\ pc = "settle" /\ pc' # "settle" =>
            strat'.position = "in" \/ (Futures /\ bad) \/ cur \in unseen'
<1>. SUFFICES Goal
  OBVIOUS
<1>c. /\ strat \in Strategies /\ copy \in Strategies
      /\ family \in {"futures", "equity", "mcx"} /\ (alice => ~Equity)
  BY CaseFacts DEF IInv, TypeOK
<1>. USE DEF Futures, Equity, Mcx
<1>1. CASE Load
  BY <1>1, <1>c DEF Load, Others, Goto, Making
<1>2. CASE \/ Find("loop") \/ KeepRow
  BY <1>2, <1>c DEF Find, Others, Goto, KeepRow, PutRow, NextRow, locals, Making
<1>3. CASE SaveRow
  BY <1>3, <1>c DEF SaveRow, Others, PutRow, NextRow, Rest, Goto, locals, Making
<1>4. ASSUME NEW k \in 0 .. MaxSlices, ExitOrder(k) PROVE Goal
  BY <1>4, <1>c DEF ExitOrder, Others, Goto, AtExit, Making
<1>5. ASSUME NEW k \in 0 .. MaxSlices, ExitAcknowledged(k) PROVE Goal
  BY <1>5, <1>c DEF ExitAcknowledged, Others, Goto, AtExit, Making
<1>6. ASSUME NEW k \in 0 .. MaxSlices, ExitRaises(k) PROVE Goal
  BY <1>6, <1>c DEF ExitRaises, Others, Rest, Goto, AtExit, Making
<1>7. CASE ExitAnswered \/ ExitBlocked
  BY <1>7, <1>c DEF ExitAnswered, ExitBlocked, Others, Goto, Making
<1>8. CASE \/ FindNothing \/ SetOut \/ SaveConfig \/ ExitLoopEnds \/ NoFutureEntry
           \/ MarkAttempted \/ SliceRaises \/ LookUpPrice
  BY <1>8, <1>c DEF FindNothing, Others, Goto, locals, SetOut, Rest, SaveConfig, NextRow,
     ExitLoopEnds, NoFutureEntry, MarkAttempted, SliceRaises, LookUpPrice, Making
<1>9. ASSUME NEW side \in case.sides, EnterFuture(side, case.slices) PROVE Goal
  BY <1>9, <1>c DEF EnterFuture, Others, Goto, MayEnter, Making
<1>10. CASE SendSlice
  BY <1>10, <1>c DEF SendSlice, Others, Goto, AfterOrders, Making
<1>11. CASE SliceAnswered
  BY <1>11, <1>c DEF SliceAnswered, EntryAnswered, Others, Goto, AfterOrders, Making
<1>12. CASE \/ InsertFuture \/ FailFuture
  BY <1>12, <1>c DEF InsertFuture, Others, Goto, locals, FailFuture, Rest, Making
<1>13. CASE SettleFuture
  BY <1>13, <1>c DEF SettleFuture, Others, Rest, Goto, Making
<1>14. CASE \/ SaveSteps \/ SymbolAdded \/ PassSymbol \/ EnterEquity \/ InsertEquity
            \/ SettleEquity \/ SendEquity \/ SymbolsEnd \/ NothingToExit \/ SaveExitSteps
  BY <1>14 DEF SaveSteps, Others, SymbolAdded, Rest, PassSymbol, EnterEquity, Goto,
     InsertEquity, locals, SettleEquity, SendEquity, SymbolsEnd, NothingToExit, SaveExitSteps
<1>15. CASE \/ NoMcxRow \/ McxManaged \/ KeepMcxRow \/ ExitMcx \/ ExitMcxAnswered
            \/ ExitMcxRaises \/ CloseMcxRow
            \/ McxOut \/ NoMcxEntry
  BY <1>15, <1>c DEF NoMcxRow, Others, Goto, locals, McxManaged, KeepMcxRow, NextRow, ExitMcx,
     ExitMcxAnswered, ExitMcxRaises, Rest, CloseMcxRow, McxOut, NoMcxEntry, Making,
     AtMcxExit
<1>16. CASE \E side \in case.sides : EnterMcx(side)
  BY <1>16, <1>c DEF EnterMcx, Others, Goto, Making
<1>17. CASE SendMcx
  BY <1>17, <1>c DEF SendMcx, EntryAnswered, Others, Rest, Goto, locals, Making
<1>18. CASE InsertMcx
  BY <1>18, <1>c DEF InsertMcx, Others, Goto, locals, Making
<1>19. CASE SettleMcx
  BY <1>19, <1>c DEF SettleMcx, Others, Rest, Goto, Making
<1>20. CASE \/ WindowPasses \/ Scan \/ ReadStrategy \/ RepairPosition \/ WriteBack \/ Retire
            \/ MarkExit \/ ReadToStart \/ CommitStart \/ ReadToEdit \/ CommitEdit
            \/ ExitPosition
  <2>1. UNCHANGED <<pc, cur, copy>>
    BY <1>20, OutsideStep DEF Refresher, Request
  <2>. QED BY <2>1 DEF Making
<1>21. CASE Crash
  BY <1>21 DEF Crash, Goto, Making, CutOff, Entering
<1>22. CASE Restart
  BY <1>22, <1>c DEF Restart, Others, Goto, locals, Making
<1>. QED BY <1>1, <1>2, <1>3, <1>4, <1>5, <1>6, <1>7, <1>8, <1>9, <1>10, <1>11, <1>12, <1>13,
   <1>14, <1>15, <1>16, <1>17, <1>18, <1>19, <1>20, <1>21, <1>22 DEF Next, Round,
   FuturesRound, EquityRound, McxRound, Refresher, Request

\* Steps that take the strategy out, and what the engine knows by then.
LEMMA StrategyMoves ==
  ASSUME IInv, Next, ~Equity
  PROVE  /\ strat'.position = "out" /\ strat.position # "out" =>
              \/ pc \in {"set_out", "config", "settle", "fail"}
              \/ rows' = rows /\ (Open(rows) = {} \/ Open(rows) \subseteq unseen')
         /\ pc' \in {"set_out", "config"} =>
              \/ pc' = pc
              \/ rows' = rows /\ Open(rows) = {}
              \/ pc = "save" /\ rows'[First(todo)].status # "open"
         /\ Futures /\ pc' = "save" /\ mem'[First(todo')].status # "close" =>
              \/ copy'.position = "in"
              \/ pc = "save" /\ mem' = mem /\ todo' = todo /\ copy' = copy
         /\ Futures /\ pc' = "settle" /\ bad' =>
              \/ cur' \in unseen' \/ (rows'[cur'].status # "open" /\ held'[cur'] <= 0)
              \/ pc = "settle" /\ UNCHANGED <<cur, held, bad>> /\ unseen \subseteq unseen'
<1>. DEFINE Goal ==
       /\ strat'.position = "out" /\ strat.position # "out" =>
            \/ pc \in {"set_out", "config", "settle", "fail"}
            \/ rows' = rows /\ (Open(rows) = {} \/ Open(rows) \subseteq unseen')
       /\ pc' \in {"set_out", "config"} =>
            \/ pc' = pc
            \/ rows' = rows /\ Open(rows) = {}
            \/ pc = "save" /\ rows'[First(todo)].status # "open"
       /\ Futures /\ pc' = "save" /\ mem'[First(todo')].status # "close" =>
            \/ copy'.position = "in"
            \/ pc = "save" /\ mem' = mem /\ todo' = todo /\ copy' = copy
       /\ Futures /\ pc' = "settle" /\ bad' =>
            \/ cur' \in unseen' \/ (rows'[cur'].status # "open" /\ held'[cur'] <= 0)
            \/ pc = "settle" /\ UNCHANGED <<cur, held, bad>> /\ unseen \subseteq unseen'
<1>. SUFFICES Goal
  OBVIOUS
<1>c. /\ strat \in Strategies /\ copy \in Strategies /\ rows \in [Entries -> Rows] /\ mem \in [Entries -> Rows]
      /\ family \in {"futures", "equity", "mcx"} /\ (alice => ~Equity) /\ cur \in Entries
      /\ todo # {} => First(todo) \in Entries
      /\ pc \in {"steps", "save", "config"} => todo # {}
      /\ pc = "insert" => rows[cur].status = "none"
      /\ held[cur] \in Int
  BY CaseFacts, TodoIn DEF IInv, TypeOK, Places, AtRow, FreshEntry, Rowless, Known
<1>. USE DEF Futures, Equity, Mcx
<1>1. CASE \/ Load \/ Find("loop") \/ KeepRow
  BY <1>1, <1>c DEF Load, Others, Goto, Find, KeepRow, PutRow, NextRow, locals
<1>2. CASE SaveRow
  <2>1. /\ pc = "save" /\ First(todo) \in Entries /\ UNCHANGED <<strat, copy>> /\ pc' \in {"config", "loop"}
        /\ pc' = "config" => mem[First(todo)].status = "close"
        /\ rows' = [rows EXCEPT ![First(todo)] = mem[First(todo)]]
    BY <1>2, <1>c DEF SaveRow, PutRow, Goto, locals
  <2>2. rows'[First(todo)] = mem[First(todo)]
    BY <2>1, <1>c
  <2>. QED BY <2>1, <2>2
<1>3. ASSUME NEW k \in 0 .. MaxSlices, ExitOrder(k) PROVE Goal
  <2>. DEFINE f == First(todo)
              closed == k = mem[f].net
              s == IF closed THEN "close" ELSE mem[f].status
              d == IF closed THEN mem[f].decision ELSE "exitit"
  <2>1. todo' = todo /\ strat' = strat /\ f \in Entries /\ mem[f] \in Rows /\ pc' \in {"save", "steps"}
    BY <1>3, <1>c DEF ExitOrder, AtExit, Goto
  <2>2. mem' = [mem EXCEPT ![f] = [mem[f] EXCEPT !.net = mem[f].net - k, !.status = s, !.decision = d]]
    BY <1>3, <1>c, <2>1 DEF ExitOrder, Rows
  <2>3. copy'.position = IF closed THEN "out" ELSE "in"
    BY <1>3, <1>c DEF ExitOrder, Strategies
  <2>. HIDE DEF closed, d, f
  <2>4. mem'[f].status = s
    BY <2>1, <2>2, <1>c DEF Rows
  <2>5. mem'[First(todo')].status = s
    BY <2>1, <2>4 DEF f
  <2>. QED BY <2>1, <2>3, <2>5
<1>4. ASSUME NEW k \in 0 .. MaxSlices, ExitAcknowledged(k) PROVE Goal
  <2>. DEFINE f == First(todo)
  <2>1. /\ todo' = todo /\ strat' = strat /\ f \in Entries /\ pc' \in {"save", "steps"}
        /\ mem' = [mem EXCEPT ![f] = [mem[f] EXCEPT !.net = 0, !.status = "close", !.decision = "intrade"]]
    BY <1>4, <1>c DEF ExitAcknowledged, AtExit, Goto
  <2>2. mem'[f].status = "close"
    BY <2>1, <1>c DEF Rows
  <2>. QED BY <2>1, <2>2
<1>5. ASSUME NEW k \in 0 .. MaxSlices, ExitRaises(k) PROVE Goal
  BY <1>5, <1>c DEF ExitRaises, Others, Rest, Goto, AtExit
<1>6. CASE ExitAnswered
  <2>. DEFINE f == First(todo)
  <2>1. /\ todo' = todo /\ strat' = strat /\ f \in Entries /\ pc' \in {"save", "steps"}
        /\ mem' = [mem EXCEPT ![f] = [mem[f] EXCEPT !.net = 0, !.status = "close"]]
    BY <1>6, <1>c DEF ExitAnswered, Goto
  <2>2. mem'[f].status = "close"
    BY <2>1, <1>c DEF Rows
  <2>. QED BY <2>1, <2>2
<1>28. CASE ExitBlocked
  BY <1>28, <1>c DEF ExitBlocked, Goto, Strategies
<1>7. CASE FindNothing
  BY <1>7, <1>c DEF FindNothing, Others, Goto, locals
<1>8. CASE SetOut
  BY <1>8, <1>c DEF SetOut, Others, Rest, Goto
<1>9. CASE SaveConfig
  BY <1>9, <1>c DEF SaveConfig, Others, NextRow, Goto
<1>10. CASE \/ ExitLoopEnds \/ NoFutureEntry
  BY <1>10, <1>c DEF ExitLoopEnds, Others, Goto, locals, NoFutureEntry, Rest
<1>11. ASSUME NEW side \in case.sides, EnterFuture(side, case.slices) PROVE Goal
  BY <1>11, <1>c DEF EnterFuture, Others, Goto, locals
<1>12. CASE MarkAttempted
  BY <1>12, <1>c DEF MarkAttempted, Others, Goto, locals, Strategies
<1>13. CASE \/ SendSlice \/ SliceAnswered
  BY <1>13, <1>c DEF SendSlice, Others, Goto, SliceAnswered, EntryAnswered, AfterOrders
<1>14. CASE \/ SliceRaises \/ LookUpPrice
  BY <1>14, <1>c DEF SliceRaises, Others, Goto, locals, LookUpPrice
<1>15. CASE InsertFuture
  <2>1. /\ pc = "insert" /\ pc' = "settle" /\ UNCHANGED <<strat, cur, bad, held>>
        /\ unseen' = IF bad /\ held[cur] > 0 THEN unseen \cup {cur} ELSE unseen
        /\ bad /\ ~(held[cur] > 0) => rows' = rows
    BY <1>15 DEF InsertFuture, Goto, locals, market
  <2>. QED BY <2>1, <1>c
<1>16. CASE SettleFuture
  BY <1>16, <1>c DEF SettleFuture, Others, Rest, Goto
<1>17. CASE FailFuture
  BY <1>17, <1>c DEF FailFuture, Others, Rest, Goto
<1>18. CASE \/ SaveSteps \/ SymbolAdded \/ PassSymbol \/ EnterEquity \/ InsertEquity
            \/ SettleEquity \/ SendEquity \/ SymbolsEnd \/ NothingToExit \/ SaveExitSteps
  BY <1>18 DEF SaveSteps, Others, SymbolAdded, Rest, PassSymbol, EnterEquity, Goto,
     InsertEquity, locals, SettleEquity, SendEquity, SymbolsEnd, NothingToExit, SaveExitSteps
<1>19. CASE \/ NoMcxRow \/ McxManaged \/ KeepMcxRow \/ ExitMcx \/ ExitMcxAnswered
            \/ ExitMcxRaises \/ NoMcxEntry
            \/ (\E side \in case.sides : EnterMcx(side)) \/ SendMcx
  BY <1>19, <1>c DEF NoMcxRow, Others, Goto, locals, McxManaged, KeepMcxRow, NextRow, ExitMcx,
     ExitMcxAnswered, ExitMcxRaises, Rest, NoMcxEntry, EnterMcx, SendMcx, EntryAnswered,
     AtMcxExit
<1>20. CASE CloseMcxRow
  <2>1. /\ pc = "save" /\ First(todo) \in Entries /\ UNCHANGED strat /\ pc' = "config" /\ ~Futures
        /\ rows' = [rows EXCEPT ![First(todo)] = [rows[First(todo)] EXCEPT !.status = "close"]]
    BY <1>20, <1>c DEF CloseMcxRow, Goto
  <2>2. rows'[First(todo)].status = "close"
    BY <2>1, <1>c DEF Rows
  <2>. QED BY <2>1, <2>2
<1>21. CASE McxOut
  BY <1>21, <1>c DEF McxOut, Others, Goto, NextRow
<1>22. CASE \/ InsertMcx \/ SettleMcx
  BY <1>22, <1>c DEF InsertMcx, Others, Goto, locals, SettleMcx, Rest
<1>23. CASE \/ WindowPasses \/ Scan \/ ReadStrategy \/ RepairPosition \/ WriteBack
  <2>1. UNCHANGED <<pc, cur, copy, mem, todo, held, bad>> /\ unseen \subseteq unseen'
    BY <1>23, OutsideStep DEF Refresher
  <2>2. strat' = strat \/ strat'.position = "in"
    BY <1>23, <1>c DEF WindowPasses, Scan, ReadStrategy, RepairPosition, WriteBack, Strategies
  <2>. QED BY <2>1, <2>2
<1>24. CASE \/ Retire \/ MarkExit \/ ReadToStart \/ ReadToEdit \/ ExitPosition
  <2>1. UNCHANGED <<pc, cur, copy, mem, todo, held, bad>> /\ unseen \subseteq unseen'
    BY <1>24, OutsideStep DEF Request
  <2>2. strat'.position = strat.position
    BY <1>24, <1>c DEF Retire, MarkExit, ReadToStart, ReadToEdit, ExitPosition, Strategies
  <2>. QED BY <2>1, <2>2
<1>25. CASE \/ CommitStart \/ CommitEdit
  <2>1. UNCHANGED <<pc, cur, copy, mem, todo, held, bad>> /\ unseen \subseteq unseen' /\ rows' = rows
    BY <1>25, OutsideStep DEF Request, CommitStart, CommitEdit
  <2>2. strat.position = "in" /\ strat'.position = "out" => unseen' = unseen \cup Open(rows)
    BY <1>25 DEF CommitStart, CommitEdit, Displaces
  <2>. QED BY <2>1, <2>2, <1>c DEF Strategies
<1>26. CASE Crash
  BY <1>26, <1>c DEF Crash, Goto, locals
<1>27. CASE Restart
  BY <1>27, <1>c DEF Restart, Others, Goto, locals
<1>. QED BY <1>1, <1>2, <1>3, <1>4, <1>5, <1>6, <1>7, <1>8, <1>9, <1>10, <1>11, <1>12, <1>13,
   <1>14, <1>15, <1>16, <1>17, <1>18, <1>19, <1>20, <1>21, <1>22, <1>23, <1>24, <1>25, <1>26,
   <1>27, <1>28 DEF Next, Round, FuturesRound, EquityRound, McxRound, Refresher, Request

\* Outside an entry, what is taken has an open row.
LEMMA TakenOpen ==
  ASSUME IInv, ~Making, NEW e \in Entries \ unseen, Taken(e)
  PROVE  rows[e].status = "open"
<1>1. held[e] \in Int
  BY DEF IInv, TypeOK
<1>2. \/ Entering /\ e = cur /\ pc # "settle"
      \/ held[e] <= (IF rows[e].status = "open" THEN rows[e].net ELSE 0)
  BY DEF IInv, Tracked
<1>. QED BY <1>1, <1>2 DEF Taken, Entering, Making

\* What is taken after a step was taken before, but for the entry under way.
LEMMA TakenStep ==
  ASSUME IInv, Next, Astray' = {}
  PROVE  /\ \A e \in Entries : Taken(e)' /\ e \notin unseen' =>
              \/ e \notin unseen /\ Taken(e)
              \/ e = cur' /\ (Making' \/ pc' = "settle")
         /\ ~Making' => \A e \in Entries : Taken(e)' /\ e \notin unseen' =>
              /\ rows'[e].status = "open"
              /\ rows[e].status = "open" \/ (pc = "insert" /\ pc' = "settle")
<1>1. /\ Astray = {} /\ phantom' = {}
      /\ \A e \in Entries : rows[e].status = "open" => e \notin unseen
  BY AstrayStays DEF Astray
<1>2. \A e \in Entries : rows'[e].status = "open" =>
        \/ rows[e].status = "open"
        \/ pc = "insert" /\ pc' = "settle" /\ e = cur /\ cur' = cur
  BY <1>1, RowsChange
<1>3. \A e \in Entries \ unseen' : \/ Making' /\ e = cur'
                                   \/ held'[e] <= Units(e)'
  BY UnitsTracked
<1>4. \A e \in Entries : held'[e] \in Int /\ (rows'[e].status # "open" => Units(e)' = 0)
  BY TypeStep DEF TypeOK, Units
<1>5. \A e \in Entries : Taken(e)' /\ e \notin unseen' =>
        rows'[e].status = "open" \/ (Making' /\ e = cur')
  BY <1>3, <1>4 DEF Taken
<1>. QED BY <1>1, <1>2, <1>5 DEF Taken

\* Solo is kept.
LEMMA SoloStep ==
  ASSUME IInv, Next
  PROVE  Solo'
<1>1. /\ Equity' = Equity /\ Mcx' = Mcx /\ Futures' = Futures
      /\ family \in {"futures", "equity", "mcx"}
  BY PlaceTyped, CaseFacts DEF IInv, Equity, Mcx, Futures, family
<1>. SUFFICES ASSUME ~Equity, Astray' = {} PROVE Solo'
  BY <1>1 DEF Solo
<1>2. /\ Astray = {}
      /\ \A e \in Entries : rows[e].status = "open" => e \notin unseen
      /\ \A e \in Entries : rows'[e].status = "open" => e \notin unseen'
  BY AstrayStays DEF Astray
<1>3. /\ \A e, f \in Entries \ unseen : Taken(e) /\ Taken(f) => e = f
      /\ Making \/ pc = "settle" => \A e \in Entries \ unseen : Taken(e) => e = cur
      /\ ~Making /\ pc # "settle" /\ strat.position = "out" => Flat
      /\ pc \in {"set_out", "config"} => Flat
      /\ copy.position = "out" /\ (pc \in {"find", "gate", "loop"} \/ (Mcx /\ pc = "save")) => Flat
      /\ Futures /\ pc = "save" /\ mem[First(todo)].status # "close" => copy.position = "in"
      /\ Futures /\ pc = "settle" /\ bad => cur \in unseen \/ ~Taken(cur)
  BY <1>2 DEF IInv, Solo
<1>4. /\ \A e \in Entries : Taken(e)' /\ e \notin unseen' =>
           \/ e \notin unseen /\ Taken(e)
           \/ e = cur' /\ (Making' \/ pc' = "settle")
      /\ ~Making' => \A e \in Entries : Taken(e)' /\ e \notin unseen' =>
           /\ rows'[e].status = "open"
           /\ rows[e].status = "open" \/ (pc = "insert" /\ pc' = "settle")
  BY TakenStep
<1>5. cur \in Entries /\ strat \in Strategies /\ strat' \in Strategies /\ copy' \in Strategies
  BY TypeStep DEF IInv, TypeOK
<1>6. Making' \/ pc' = "settle" => \A e \in Entries \ unseen' : Taken(e)' => e = cur'
  <2>1. \/ (Making \/ pc = "settle") /\ cur' = cur
        \/ pc = "gate" /\ copy.position = "out"
        \/ ~(Making' \/ pc' = "settle")
    BY EngineMoves
  <2>. QED BY <1>3, <1>4, <2>1 DEF Flat
<1>7. ~Making' /\ pc' # "settle" /\ Flat => Flat'
  BY <1>4 DEF Flat
<1>8. ~Making' /\ pc' # "settle" /\ Making => Flat'
  <2>. SUFFICES ASSUME ~Making', pc' # "settle", Making PROVE Flat'
    OBVIOUS
  <2>1. rows[cur].status # "open"
    BY <1>1, <1>5 DEF Making, IInv, FreshEntry, Rowless, Known
  <2>2. \A e \in Entries : Taken(e)' /\ e \notin unseen' => rows[e].status = "open"
    BY <1>4
  <2>3. \A e \in Entries : rows[e].status = "open" => e = cur
    BY <1>2, <1>3 DEF Taken
  <2>. QED BY <2>1, <2>2, <2>3 DEF Flat
<1>9. ~Making' /\ pc' # "settle" /\ pc = "settle" => Flat' \/ strat'.position = "in"
  <2>. SUFFICES ASSUME ~Making', pc' # "settle", pc = "settle", strat'.position # "in" PROVE Flat'
    OBVIOUS
  <2>1. (Futures /\ bad) \/ cur \in unseen'
    BY EngineMoves
  <2>2. \A e \in Entries : Taken(e)' /\ e \notin unseen' => e = cur /\ rows[cur].status = "open"
    BY <1>2, <1>3, <1>4 DEF Taken
  <2>. QED BY <1>2, <1>3, <1>5, <2>1, <2>2 DEF Flat, Taken
<1>10. pc' \in {"set_out", "config"} => Flat'
  <2>. SUFFICES ASSUME pc' \in {"set_out", "config"} PROVE Flat'
    OBVIOUS
  <2>1. /\ ~Making' /\ pc' # "settle"
        /\ \/ pc' = pc
           \/ rows' = rows /\ Open(rows) = {}
           \/ pc = "save" /\ rows'[First(todo)].status # "open"
    BY StrategyMoves DEF Making
  <2>2. \A e \in Entries : Taken(e)' /\ e \notin unseen' =>
          rows'[e].status = "open" /\ rows[e].status = "open" /\ e \notin unseen /\ Taken(e)
    BY <1>2, <1>4, <2>1 DEF Taken
  <2>3. CASE pc' = pc
    BY <1>3, <1>7, <2>1, <2>3
  <2>4. CASE rows' = rows /\ Open(rows) = {}
    BY <2>2, <2>4 DEF Flat, Open
  <2>5. CASE pc = "save" /\ rows'[First(todo)].status # "open"
    <3>1. First(todo) \in Entries /\ rows[First(todo)].status = "open"
      BY <2>5, TodoIn DEF IInv, Places, AtRow, Listed
    <3>2. \A e \in Entries : Taken(e)' /\ e \notin unseen' => e = First(todo)
      BY <1>2, <1>3, <2>2, <3>1 DEF Taken
    <3>. QED BY <2>2, <2>5, <3>2 DEF Flat
  <2>. QED BY <2>1, <2>3, <2>4, <2>5
<1>11. ~Making' /\ pc' # "settle" /\ strat'.position = "out" => Flat'
  <2>. SUFFICES ASSUME ~Making', pc' # "settle", strat'.position = "out", ~Making, pc # "settle"
                PROVE  Flat'
    BY <1>8, <1>9
  <2>1. CASE strat.position = "out"
    BY <1>3, <1>7, <2>1
  <2>2. CASE strat.position # "out"
    <3>1. \/ pc \in {"set_out", "config"}
          \/ rows' = rows /\ (Open(rows) = {} \/ Open(rows) \subseteq unseen')
      BY <2>2, StrategyMoves DEF Making
    <3>2. CASE pc \in {"set_out", "config"}
      BY <1>3, <1>7, <3>2
    <3>3. CASE rows' = rows /\ (Open(rows) = {} \/ Open(rows) \subseteq unseen')
      BY <1>4, <3>3 DEF Flat, Open
    <3>. QED BY <3>1, <3>2, <3>3
  <2>. QED BY <2>1, <2>2
<1>12. copy'.position = "out" /\ (pc' \in {"find", "gate", "loop"} \/ (Mcx /\ pc' = "save")) => Flat'
  <2>. SUFFICES ASSUME copy'.position = "out", pc' \in {"find", "gate", "loop"} \/ (Mcx /\ pc' = "save")
                PROVE  Flat'
    OBVIOUS
  <2>1. \/ copy.position = "out" /\ (pc \in {"find", "gate", "loop"} \/ (Mcx /\ pc = "save"))
        \/ pc = "config"
        \/ pc = "idle" /\ strat.position = "out"
        \/ Futures /\ pc = "save" /\ mem[First(todo)].status # "close" /\ copy.position = "out"
    BY EngineMoves
  <2>2. ~Making' /\ pc' # "settle" /\ (pc = "idle" => ~Making /\ pc # "settle")
    BY DEF Making
  <2>3. Flat
    BY <1>3, <2>1, <2>2
  <2>. QED BY <1>7, <2>2, <2>3
<1>13. Futures /\ pc' = "save" /\ mem'[First(todo')].status # "close" => copy'.position = "in"
  <2>1. Futures /\ pc' = "save" /\ mem'[First(todo')].status # "close" =>
          \/ copy'.position = "in"
          \/ pc = "save" /\ mem' = mem /\ todo' = todo /\ copy' = copy
    BY StrategyMoves
  <2>. QED BY <1>3, <2>1
<1>14. Futures /\ pc' = "settle" /\ bad' => cur' \in unseen' \/ ~Taken(cur)'
  <2>. SUFFICES ASSUME Futures, pc' = "settle", bad', cur' \notin unseen', Taken(cur)' PROVE FALSE
    BY DEF Taken
  <2>1. \/ rows'[cur'].status # "open" /\ held'[cur'] <= 0
        \/ pc = "settle" /\ UNCHANGED <<cur, held, bad>> /\ unseen \subseteq unseen'
    BY StrategyMoves
  <2>2. cur' \in Entries /\ held'[cur'] \in Int
    BY TypeStep DEF TypeOK
  <2>3. CASE rows'[cur'].status # "open" /\ held'[cur'] <= 0
    BY <2>2, <2>3 DEF Taken
  <2>4. CASE pc = "settle" /\ UNCHANGED <<cur, held, bad>> /\ unseen \subseteq unseen'
    <3>1. rows'[cur].status = "open" => rows[cur].status = "open"
      BY <1>5, <1>2, <2>4, RowsChange DEF Astray
    <3>. QED BY <1>3, <2>4, <3>1 DEF Taken
  <2>. QED BY <2>1, <2>3, <2>4
<1>15. \A e, f \in Entries \ unseen' : Taken(e)' /\ Taken(f)' => e = f
  BY <1>3, <1>4, <1>6
<1>. QED BY <1>1, <1>6, <1>10, <1>11, <1>12, <1>13, <1>14, <1>15 DEF Solo

-----------------------------------------------------------------------------
(* The theorems.                                                           *)

\* The initial states satisfy the invariant.
LEMMA InitInv ==
  ASSUME Init
  PROVE  IInv
<1>0. /\ 0 \in 0 .. MaxSlices /\ 0 \in -1 .. MaxSlices /\ 0 \in 0 .. MaxEntries /\ 1 \in Entries
  BY EntryNat
<1>1. case \in Cases /\ case.upsets \in Nat /\ case.limit \in Nat
  BY DirectAssumption DEF Init
<1>2. strat \in Strategies /\ copy \in Strategies
  BY NoStrategyTyped DEF Init, Strategies
<1>3. rows \in [Entries -> Rows] /\ mem \in [Entries -> Rows] /\ rcopy \in [Entries -> Rows]
  BY NoRowTyped DEF Init
<1>4. /\ held \in [Entries -> -1 .. MaxSlices] /\ book \in [Keys -> 0 .. MaxEntries]
      /\ accepted \in [Keys -> Nat]
  BY <1>0 DEF Init
<1>5. req \in [op : {"none", "mark", "start", "edit"}, status : Statuses,
               position : {"in", "out"}, contract : Kinds, clear : BOOLEAN]
  BY DEF Init, NoRequest
<1>51. /\ unseen \subseteq Entries /\ phantom \subseteq Entries /\ recent \subseteq Keys
      /\ pc \in PCs /\ todo \subseteq Entries /\ cur \in Entries /\ bad \in BOOLEAN
      /\ left \subseteq Kinds /\ rpc \in {"idle", "read", "repair", "write"} /\ rtodo \subseteq Entries
  BY <1>0 DEF Init, PCs
<1>52. sent \in 0 .. MaxSlices /\ upsets \in 0 .. case.upsets
  BY <1>0, <1>1 DEF Init
<1>6. TypeOK
  BY <1>1, <1>2, <1>3, <1>4, <1>5, <1>51, <1>52 DEF TypeOK
<1>7. /\ pc = "idle" /\ rpc = "idle" /\ todo = {} /\ rtodo = {} /\ sent = 0
      /\ \A e \in Entries : held[e] = 0 /\ rows[e].status = "none"
  BY DEF Init, NoRows, NoRow
<1>8. Known = {}
  BY <1>7 DEF Known
<1>9. PaperInv /\ Places /\ FreshEntry /\ Ordering /\ Copies
  BY <1>7, <1>8 DEF PaperInv, Places, FreshEntry, Ordering, Copies, AtRow, Rowless, Visits
<1>10. Tracked /\ RowBacked
  BY <1>7 DEF Tracked, RowBacked, Open
<1>11. Days
  <2>1. Today = {}
    BY <1>8 DEF Today, Known
  <2>. QED BY <2>1, <1>1, <1>7, FS_EmptySet DEF Days
<1>12. Windows /\ WindowsElse
  BY DEF Init, Windows, WindowsElse
<1>13. Listed /\ PerSymbol
  BY <1>7 DEF Listed, PerSymbol, Open
<1>14. Solo
  <2>1. Flat
    BY <1>7 DEF Flat, Taken
  <2>. QED BY <1>7, <2>1 DEF Solo, Flat
<1>. QED BY <1>6, <1>9, <1>10, <1>11, <1>12, <1>13, <1>14 DEF IInv

\* A step that changes nothing keeps the invariant.
LEMMA StutterInv ==
  ASSUME IInv, UNCHANGED vars
  PROVE  IInv'
<1>1. /\ UNCHANGED <<case, strat, rows, held, book, recent, accepted, unseen, phantom>>
      /\ UNCHANGED <<pc, copy, mem, todo, cur, sent, bad, left, rpc, rcopy, rtodo, req, upsets>>
  BY DEF vars, market, window, history, engine, locals, refresher
<1>2. TypeOK' /\ Entries' = Entries
  BY <1>1 DEF IInv, TypeOK, Entries
<1>3. PaperInv' /\ FreshEntry' /\ Known' = Known
  BY <1>1, <1>2 DEF IInv, PaperInv, FreshEntry, Rowless, Known, Equity, family, live
<1>4. Places' /\ Days' /\ Windows' /\ WindowsElse'
  BY <1>1, <1>2, <1>3 DEF IInv, Places, AtRow, Days, Today, Windows, WindowsElse, Futures,
     Equity, Mcx, family
<1>5. Ordering'
  BY <1>1 DEF IInv, Ordering, Futures, Equity, Mcx, family, live
<1>6. Copies'
  BY <1>1 DEF IInv, Copies, Asks, Visits, AtRow, Mcx, family, live
<1>7. Tracked' /\ RowBacked'
  BY <1>1, <1>2 DEF IInv, Tracked, RowBacked, Entering, Open, InHand, Exiting, family, live
<1>8. Listed'
  BY <1>1 DEF IInv, Listed
<1>9. PerSymbol'
  BY <1>1, <1>2 DEF IInv, PerSymbol, Open, Equity, family
<1>10. Solo'
  <2>1. Solo
    BY DEF IInv
  <2>2. Flat' <=> Flat
    BY <1>1, <1>2 DEF Flat, Taken
  <2>3. \A e \in Entries : Taken(e)' <=> Taken(e)
    BY <1>1 DEF Taken
  <2>4. Astray' = Astray /\ (Making' <=> Making)
    BY <1>1, <1>2 DEF Astray, Making
  <2>5. Equity' = Equity /\ Mcx' = Mcx /\ Futures' = Futures
    BY <1>1 DEF Equity, Mcx, Futures, family
  <2>6. UNCHANGED <<pc, unseen, strat, copy, mem, todo, bad, cur>>
    BY <1>1
  <2>7. Taken(cur)' <=> Taken(cur)
    BY <1>1 DEF Taken
  <2>8. (\A e, f \in Entries \ unseen' : Taken(e)' /\ Taken(f)' => e = f)
          <=> \A e, f \in Entries \ unseen : Taken(e) /\ Taken(f) => e = f
    BY <2>3, <2>6
  <2>9. (\A e \in Entries \ unseen' : Taken(e)' => e = cur')
          <=> \A e \in Entries \ unseen : Taken(e) => e = cur
    BY <2>3, <2>6
  <2>. QED BY <2>1, <2>2, <2>4, <2>5, <2>6, <2>7, <2>8, <2>9, <1>2 DEF Solo
<1>. QED BY <1>2, <1>3, <1>4, <1>5, <1>6, <1>7, <1>8, <1>9, <1>10 DEF IInv

\* Every step keeps the invariant.
LEMMA NextInv ==
  ASSUME IInv, [Next]_vars
  PROVE  IInv'
<1>1. CASE Next
  BY <1>1, TypeStep, PaperStep, PlacesStep, FreshStep, OrderingStep, CopiesStep, TrackedStep,
     RowsBacked, DaysStep, WindowStep, ListedStep, PerSymbolStep, SoloStep DEF IInv
<1>2. CASE UNCHANGED vars
  BY <1>2, StutterInv
<1>. QED BY <1>1, <1>2

\* The inductive invariant holds in every reachable state, for any cases,
\* number of entries and number of slices.
THEOREM Invariant == Spec => []IInv
<1>1. Init => IInv
  BY InitInv
<1>2. IInv /\ [Next]_vars => IInv'
  BY NextInv
<1>. QED BY <1>1, <1>2, PTL DEF Spec

\* All documents, copies and histories are well typed, however the engine, the
\* refresher, requests and deaths of the worker interleave.
THEOREM TypeCorrect == Spec => []TypeOK
<1>1. IInv => TypeOK
  BY DEF IInv
<1>. QED BY <1>1, Invariant, PTL

\* No row left open by FEXIT, EBUYEXIT, _manage_mcx_exit or a write-back of the
\* refresher asks for the sale of more than the account holds of the entry, but
\* for rows known to stand for more (written back stale, cut off by a death, or
\* entered by a duplicate AliceBlue answered "Ok", as every live MCX entry may
\* be) and the row whose result is in hand.
THEOREM RowBackedAlways == Spec => []RowBacked
<1>1. IInv => RowBacked
  BY DEF IInv
<1>. QED BY <1>1, Invariant, PTL

\* Whatever FBUY, FSELL, EBUY and the MCX entry bought is in an open row or in
\* the entry under way, but for entries the code lost sight of: an order whose
\* reply was lost, an exit that named no quantity or was taken for done because
\* AliceBlue answered for an order before it, a lot or contract that changed.
THEOREM ExposureTrackedAlways == Spec => []ExposureTracked
<1>1. IInv => ExposureTracked
  BY DEF IInv, Tracked, ExposureTracked
<1>. QED BY <1>1, Invariant, PTL

\* The MCX round never makes more rows a day than max_trades_per_day.
THEOREM DayLimitAlways == Spec => []DayLimit
<1>1. IInv => DayLimit
  BY DEF IInv, Days, DayLimit, Mcx
<1>. QED BY <1>1, Invariant, PTL

\* _has_recent_broker_order and _aliceblue_orderbook_duplicate let one entry
\* order of a side through in a window, if the order book can be read.
THEOREM WindowHoldsAlways == Spec => []WindowHolds
<1>1. IInv => WindowHolds
  <2>. SUFFICES ASSUME IInv, "blind" \notin case.faults, NEW key \in Keys
                PROVE  accepted[key] <= 1
    BY DEF WindowHolds
  <2>1. CASE case.window = "one"
    BY <2>1 DEF IInv, Windows
  <2>2. CASE case.window # "one"
    BY <2>2 DEF IInv, WindowsElse
  <2>. QED BY <2>1, <2>2
<1>. QED BY <1>1, Invariant, PTL

\* The position of the strategy document keeps FBUY, FSELL and the MCX entry to
\* one position, until a row goes astray; EBUY has one in each symbol.
THEOREM OnePositionAlways == Spec => []OnePosition
<1>1. ASSUME IInv PROVE OnePosition
  <2>. SUFFICES ASSUME ~Equity => Astray = {},
                       NEW e \in Entries \ (unseen \cup phantom), NEW f \in Entries \ (unseen \cup phantom),
                       Taken(e), Taken(f), Equity => rows[e].kind = rows[f].kind
                PROVE  e = f
    BY DEF OnePosition, Equity
  <2>1. CASE Equity
    <3>1. \A g \in Entries \ unseen : Taken(g) => rows[g].status = "open"
      <4>1. ~Making => \A g \in Entries \ unseen : Taken(g) => rows[g].status = "open"
        BY <1>1, TakenOpen
      <4>2. Making => pc \in {"insert", "send"} /\ held[cur] = 0
        BY <1>1, <2>1 DEF Making, IInv, Places, Ordering, Equity, Futures
      <4>3. Making => \A g \in Entries \ unseen : g # cur =>
              held[g] <= (IF rows[g].status = "open" THEN rows[g].net ELSE 0)
        BY <1>1 DEF IInv, Tracked
      <4>4. \A g \in Entries : held[g] \in Int
        BY <1>1 DEF IInv, TypeOK
      <4>. QED BY <4>1, <4>2, <4>3, <4>4 DEF Taken
    <3>. QED BY <1>1, <2>1, <3>1 DEF IInv, PerSymbol, Open
  <2>2. CASE ~Equity
    BY <1>1, <2>2 DEF IInv, Solo
  <2>. QED BY <2>1, <2>2
<1>. QED BY <1>1, Invariant, PTL

=============================================================================
