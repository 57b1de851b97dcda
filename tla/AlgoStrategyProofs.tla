------------------------- MODULE AlgoStrategyProofs -------------------------
(***************************************************************************)
(* What is proved of AlgoStrategy for every number of entry orders, order  *)
(* quantity, set of concurrent requests, operations, faults and bounds.    *)
(*                                                                         *)
(* ExposureTracked is not inductive: a whole-row write copies the engine's *)
(* or the refresher's copy over the document, so what is known of rows has *)
(* to be known of the copies as well (Covered, Closed, Visiting), and an   *)
(* order the broker has not accepted yet must have left no trace (Fresh).  *)
(* NoSupersededOrder rests on the revisions being ordered (Revisions).     *)
(*                                                                         *)
(* A second invariant, EntryInv, adds what the entry state and the rows    *)
(* together guard: one entry order at a time.  It holds as far as no stale *)
(* write has undone a newer one, which the history variable undone records.*)
(***************************************************************************)
EXTENDS AlgoStrategy, TLAPS

\* A row, in the database or copied, asks for at least what is still held.
Covered(t) ==
    \A e \in Entries \ lost : t[e].status # "none" => held[e] <= t[e].net

\* A closed row has nothing left to exit.
Closed(t) == \A e \in Entries : t[e].status = "close" => t[e].net = 0

\* A loop visits rows it has read.
Visiting(t, S) == \A e \in S : t[e].status # "none"

\* Entry orders not accepted yet have no row.
Fresh(t) == \A e \in Entries : e > issued => t[e].status = "none"

\* The entry order in flight.
InFlight ==
    /\ pc \in {"mark", "check", "send"} => issued < MaxEntries
    /\ pc \in {"price", "insert"} => issued \in Entries /\ held[issued] <= fill

\* Units with no row are in flight or lost.
RowlessUnits ==
    \A e \in Entries : held[e] > 0 /\ rows[e].status = "none" =>
        \/ e = issued /\ pc \in {"price", "insert"}
        \/ e \in lost

\* What is known of the rows and of the two copies of them.
RowsInv ==
    /\ Covered(rows) /\ Covered(mem) /\ Covered(rcopy)
    /\ Closed(rows) /\ Closed(mem) /\ Closed(rcopy)
    /\ Fresh(rows) /\ Fresh(mem) /\ Fresh(rcopy)
    /\ Visiting(mem, todo) /\ Visiting(rcopy, rtodo)

\* What was read is not newer than the document.
Revisions ==
    /\ snap.rev <= strat.rev
    /\ superseded => snap.rev < strat.rev

\* The first invariant.
IInv == TypeOK /\ RowsInv /\ InFlight /\ RowlessUnits /\ Revisions

-----------------------------------------------------------------------------
USE DEF broker, engine, refresher

(* The type invariant, by the part of the state an action may change.      *)

BrokerTyped    == /\ held \in [Entries -> Int] /\ issued \in 0 .. MaxEntries
                  /\ lost \subseteq Entries /\ crashed \subseteq lost
EngineTyped    == /\ pc \in EnginePCs /\ snap \in Strategy
                  /\ mem \in [Entries -> Row] /\ todo \subseteq Entries
                  /\ fill \in 0 .. Qty /\ flag \in Decisions /\ superseded \in BOOLEAN
RefresherTyped == /\ rpc \in {"idle", "read", "repair", "write"}
                  /\ rcopy \in [Entries -> Row] /\ rtodo \subseteq Entries
OthersTyped    == /\ live \in BOOLEAN /\ sweep \in {"idle", "pause"}
                  /\ req \in [Requests -> Pending] /\ crashes \in 0 .. MaxCrash
                  /\ undone \subseteq {"start", "edit", "row"}

\* A lifecycle change keeps the document a strategy document.
LEMMA LifecycleTyped ==
    ASSUME NEW doc \in Strategy, Lifecycle(doc) PROVE strat' \in Strategy
  BY DEF Lifecycle, Strategy

\* The empty copies are copies.
LEMMA BlanksTyped ==
    /\ NoSnap \in Strategy /\ NoRows \in [Entries -> Row] /\ NoRow \in Row
    /\ 0 \in 0 .. Qty
<1>1. NoSnap \in Strategy BY DEF NoSnap, Strategy, Statuses, Positions, EntryStates
<1>2. NoRow \in Row BY DEF NoRow, Row, Decisions
<1>3. NoRows \in [Entries -> Row] BY <1>2 DEF NoRows
<1>4. 0 \in 0 .. Qty BY BoundsAssumption
<1> QED BY <1>1, <1>2, <1>3, <1>4

\* A finished round and a dead process leave typed locals.
LEMMA RoundOver == ASSUME EndRound \/ ProcessGone PROVE EngineTyped'
  BY BlanksTyped DEF EndRound, ProcessGone, EngineTyped, EnginePCs, Decisions

\* The strategy document.
LEMMA StrategyStep == ASSUME IInv, Next PROVE strat' \in Strategy
<1> USE DEF IInv
<1>1. CASE SetOut
  BY <1>1 DEF SetOut, TypeOK, Strategy, Statuses, Positions, EntryStates
<1>2. CASE KeepPositionIn
  BY <1>2 DEF KeepPositionIn, TypeOK, Strategy, Statuses, Positions,
     EntryStates
<1>3. CASE SaveConfig
  BY <1>3 DEF SaveConfig, TypeOK, Strategy, Statuses, Positions, EntryStates
<1>4. CASE Claim
  BY <1>4 DEF Claim, TypeOK, Strategy, Statuses, Positions, EntryStates
<1>5. CASE MarkAttempted
  BY <1>5 DEF MarkAttempted, TypeOK, Strategy, Statuses, Positions,
     EntryStates
<1>6. CASE Release
  BY <1>6 DEF Release, TypeOK, Strategy, Statuses, Positions, EntryStates
<1>7. CASE SettleRefused
  BY <1>7 DEF SettleRefused, TypeOK, Strategy, Statuses, Positions,
     EntryStates, SetEntry
<1>8. CASE Settle
  BY <1>8 DEF Settle, TypeOK, Strategy, Statuses, Positions, EntryStates,
     SetEntry
<1>9. CASE EntryFailed
  BY <1>9 DEF EntryFailed, TypeOK, Strategy, Statuses, Positions, EntryStates,
     SetEntry
<1>10. CASE RepairPosition
  BY <1>10 DEF RepairPosition, TypeOK, Strategy, Statuses, Positions,
     EntryStates
<1>11. CASE Restart
  BY <1>11 DEF Restart, TypeOK, Strategy, Statuses, Positions, EntryStates
<1>12. CASE SweepPause
  <2>1. [strat EXCEPT !.status = "paused"] \in Strategy
    BY DEF TypeOK, Strategy, Statuses
  <2> QED BY <1>12, <2>1, LifecycleTyped DEF SweepPause
<1>13. ASSUME NEW r \in Requests,
             Retire(r, "stop", "paused") \/ Retire(r, "delete", "closed")
      PROVE  strat' \in Strategy
  <2>1. /\ [strat EXCEPT !.status = "paused"] \in Strategy
        /\ [strat EXCEPT !.status = "closed"] \in Strategy
    BY DEF TypeOK, Strategy, Statuses
  <2>2. strat \in Strategy BY DEF TypeOK
  <2> QED BY <1>13, <2>1, <2>2, LifecycleTyped DEF Retire
<1>14. ASSUME NEW r \in Requests, CommitStart(r) PROVE strat' \in Strategy
  <2>1. /\ [strat EXCEPT !.status = "opened"] \in Strategy
        /\ [strat EXCEPT !.status = "opened", !.position = "out", !.entry = "none"]
             \in Strategy
    BY DEF TypeOK, Strategy, Statuses, Positions, EntryStates
  <2>2. strat \in Strategy BY DEF TypeOK
  <2> QED BY <1>14, <2>1, <2>2, LifecycleTyped DEF CommitStart
<1>15. ASSUME NEW r \in Requests, CommitEdit(r) PROVE strat' \in Strategy
  <2>1. req[r] \in Pending BY DEF TypeOK
  <2>2. req[r].status \in Statuses /\ req[r].position \in Positions
    BY <1>15, <2>1 DEF CommitEdit, Pending
  <2>3. [strat EXCEPT !.status = req[r].status, !.position = req[r].position]
          \in Strategy
    BY <2>2 DEF TypeOK, Strategy
  <2> QED BY <1>15, <2>3, LifecycleTyped DEF CommitEdit
\* The others do not write it.
<1>16. CASE
        \/ Load \/ FindOpen \/ NoEntry \/ EntryRaises \/ CheckCurrent
        \/ BrokerRejects \/ OrderRaises \/ PriceRaises \/ BuildRow
        \/ InsertRow \/ Scan \/ SweepFind \/ Crash
        \/ \E e \in Entries :
              \/ KeepOpen(e) \/ SaveExitRow(e) \/ ReadStrategy(e)
              \/ WriteBack(e) \/ SkipRow(e) \/ ExitPosition(e)
        \/ \E e \in Entries : \E k \in 0 .. mem[e].net :
              \/ ExitOrder(e, k) \/ ExitAcknowledged(e, k) \/ ExitRaises(e, k)
        \/ \E k \in 0 .. Qty :
              \/ BrokerAccepts(k) \/ ReplyLost(k) \/ CrashInCall(k)
        \/ \E r \in Requests :
              \/ MarkExit(r) \/ ReadToStart(r) \/ ReadToEdit(r)
              \/ RequestDies(r)
  BY <1>16 DEF Load, FindOpen, NoEntry, EntryRaises, CheckCurrent,
     BrokerRejects, OrderRaises, PriceRaises, BuildRow, InsertRow, Scan,
     SweepFind, Crash, KeepOpen, SaveExitRow, ReadStrategy, WriteBack,
     SkipRow, ExitPosition, ExitOrder, ExitAcknowledged, ExitRaises,
     BrokerAccepts, ReplyLost, CrashInCall, MarkExit, ReadToStart, ReadToEdit,
     RequestDies, TypeOK, EngineOnly, RefresherOnly, RequestOnly, ProcessGone
<1> QED
  BY <1>1, <1>2, <1>3, <1>4, <1>5, <1>6, <1>7, <1>8, <1>9, <1>10, <1>11,
     <1>12, <1>13, <1>14, <1>15, <1>16 DEF Next, Engine, ExitRound,
     EntryRound, Refresher, Request, Process

\* The rows.
LEMMA RowsStep == ASSUME IInv, Next PROVE rows' \in [Entries -> Row]
<1> USE DEF IInv
<1>1. ASSUME NEW e \in Entries, KeepOpen(e) PROVE rows' \in [Entries -> Row]
  BY <1>1 DEF KeepOpen, TypeOK
<1>2. ASSUME NEW e \in Entries, SaveExitRow(e) PROVE rows' \in [Entries -> Row]
  BY <1>2 DEF SaveExitRow, TypeOK
<1>3. ASSUME NEW e \in Entries, WriteBack(e) PROVE rows' \in [Entries -> Row]
  BY <1>3 DEF WriteBack, TypeOK
<1>4. ASSUME NEW e \in Entries, ExitPosition(e) PROVE rows' \in [Entries -> Row]
  BY <1>4 DEF ExitPosition, TypeOK, Row, Decisions
<1>5. CASE InsertRow
  <2>1. [status |-> "open", decision |-> flag, net |-> fill] \in Row
    BY BoundsAssumption DEF TypeOK, Row
  <2> QED BY <1>5, <2>1 DEF InsertRow, TypeOK
<1>6. ASSUME NEW r \in Requests, MarkExit(r) PROVE rows' \in [Entries -> Row]
  <2>1. ASSUME NEW e \in Entries
        PROVE  rows[e] \in Row /\ [rows[e] EXCEPT !.decision = "exitit"] \in Row
    BY DEF TypeOK, Row, Decisions
  <2> QED BY <1>6, <2>1 DEF MarkExit
\* The others do not write them.
<1>7. CASE
        \/ Load \/ FindOpen \/ SetOut \/ KeepPositionIn \/ SaveConfig
        \/ NoEntry \/ EntryRaises \/ Claim \/ MarkAttempted \/ CheckCurrent
        \/ Release \/ BrokerRejects \/ SettleRefused \/ OrderRaises
        \/ PriceRaises \/ BuildRow \/ Settle \/ EntryFailed \/ Scan
        \/ RepairPosition \/ SweepFind \/ SweepPause \/ Crash \/ Restart
        \/ \E e \in Entries : ReadStrategy(e) \/ SkipRow(e)
        \/ \E e \in Entries : \E k \in 0 .. mem[e].net :
              \/ ExitOrder(e, k) \/ ExitAcknowledged(e, k) \/ ExitRaises(e, k)
        \/ \E k \in 0 .. Qty :
              \/ BrokerAccepts(k) \/ ReplyLost(k) \/ CrashInCall(k)
        \/ \E r \in Requests :
              \/ Retire(r, "stop", "paused") \/ Retire(r, "delete", "closed")
              \/ ReadToStart(r) \/ CommitStart(r) \/ ReadToEdit(r)
              \/ CommitEdit(r) \/ RequestDies(r)
  BY <1>7 DEF Load, FindOpen, SetOut, KeepPositionIn, SaveConfig, NoEntry,
     EntryRaises, Claim, MarkAttempted, CheckCurrent, Release, BrokerRejects,
     SettleRefused, OrderRaises, PriceRaises, BuildRow, Settle, EntryFailed,
     Scan, RepairPosition, SweepFind, SweepPause, Crash, Restart,
     ReadStrategy, SkipRow, ExitOrder, ExitAcknowledged, ExitRaises,
     BrokerAccepts, ReplyLost, CrashInCall, Retire, ReadToStart, CommitStart,
     ReadToEdit, CommitEdit, RequestDies, TypeOK, EngineOnly, RefresherOnly,
     RequestOnly, ProcessGone
<1> QED
  BY <1>1, <1>2, <1>3, <1>4, <1>5, <1>6, <1>7 DEF Next, Engine, ExitRound,
     EntryRound, Refresher, Request, Process

\* The account.
LEMMA BrokerStep == ASSUME IInv, Next PROVE BrokerTyped'
<1> USE DEF IInv
<1>1. ASSUME NEW e \in Entries, NEW k \in 0 .. mem[e].net, ExitOrder(e, k)
      PROVE  BrokerTyped'
  <2>1. k \in Int /\ held[e] \in Int BY DEF TypeOK, Row
  <2> QED BY <1>1, <2>1 DEF ExitOrder, Sell, BrokerTyped, TypeOK
<1>2. ASSUME NEW e \in Entries, NEW k \in 0 .. mem[e].net, ExitAcknowledged(e, k)
      PROVE  BrokerTyped'
  <2>1. k \in Int /\ held[e] \in Int BY DEF TypeOK, Row
  <2> QED BY <1>2, <2>1 DEF ExitAcknowledged, Sell, BrokerTyped, TypeOK
<1>3. ASSUME NEW e \in Entries, NEW k \in 0 .. mem[e].net, ExitRaises(e, k)
      PROVE  BrokerTyped'
  <2>1. k \in Int /\ held[e] \in Int BY DEF TypeOK, Row
  <2> QED BY <1>3, <2>1 DEF ExitRaises, Sell, BrokerTyped, TypeOK
<1>4. CASE PriceRaises
  BY <1>4 DEF PriceRaises, TypeOK, InFlight, BrokerTyped
<1>5. CASE Crash
  BY <1>5 DEF Crash, TypeOK, InFlight, BrokerTyped
<1>6. CASE
        \/ \E k \in 0 .. Qty :
              \/ BrokerAccepts(k) \/ ReplyLost(k) \/ CrashInCall(k)
  <2>1. issued + 1 \in Entries
    BY <1>6, BoundsAssumption
       DEF BrokerAccepts, ReplyLost, CrashInCall, TypeOK, InFlight, Entries
  <2>2. issued + 1 \in 0 .. MaxEntries BY <2>1 DEF Entries, TypeOK
  <2>3. 0 .. Qty \subseteq Int OBVIOUS
  <2> QED
    BY <1>6, <2>1, <2>2, <2>3
       DEF BrokerAccepts, ReplyLost, CrashInCall, Buy, TypeOK, BrokerTyped
\* The others leave it alone.
<1>7. CASE
        \/ Load \/ FindOpen \/ SetOut \/ KeepPositionIn \/ SaveConfig
        \/ NoEntry \/ EntryRaises \/ Claim \/ MarkAttempted \/ CheckCurrent
        \/ Release \/ BrokerRejects \/ SettleRefused \/ OrderRaises
        \/ BuildRow \/ InsertRow \/ Settle \/ EntryFailed \/ Scan
        \/ RepairPosition \/ SweepFind \/ SweepPause \/ Restart
        \/ \E e \in Entries :
              \/ KeepOpen(e) \/ SaveExitRow(e) \/ ReadStrategy(e)
              \/ WriteBack(e) \/ SkipRow(e) \/ ExitPosition(e)
        \/ \E r \in Requests :
              \/ Retire(r, "stop", "paused") \/ Retire(r, "delete", "closed")
              \/ MarkExit(r) \/ ReadToStart(r) \/ CommitStart(r)
              \/ ReadToEdit(r) \/ CommitEdit(r) \/ RequestDies(r)
  BY <1>7 DEF Load, FindOpen, SetOut, KeepPositionIn, SaveConfig, NoEntry,
     EntryRaises, Claim, MarkAttempted, CheckCurrent, Release, BrokerRejects,
     SettleRefused, OrderRaises, BuildRow, InsertRow, Settle, EntryFailed,
     Scan, RepairPosition, SweepFind, SweepPause, Restart, KeepOpen,
     SaveExitRow, ReadStrategy, WriteBack, SkipRow, ExitPosition, Retire,
     MarkExit, ReadToStart, CommitStart, ReadToEdit, CommitEdit, RequestDies,
     BrokerTyped, TypeOK, EngineOnly, RefresherOnly, RequestOnly
<1> QED
  BY <1>1, <1>2, <1>3, <1>4, <1>5, <1>6, <1>7 DEF Next, Engine, ExitRound,
     EntryRound, Refresher, Request, Process

\* The engine's locals.
LEMMA EngineStep == ASSUME IInv, Next PROVE EngineTyped'
<1> USE DEF IInv
<1>1. CASE
        \/ SetOut \/ KeepPositionIn \/ NoEntry \/ Release \/ SettleRefused
        \/ Settle \/ EntryFailed \/ Crash
        \/ \E e \in Entries : \E k \in 0 .. mem[e].net : ExitRaises(e, k)
        \/ \E k \in 0 .. Qty : CrashInCall(k)
  BY <1>1, RoundOver DEF SetOut, KeepPositionIn, NoEntry, Release,
     SettleRefused, Settle, EntryFailed, ExitRaises, Crash, CrashInCall
<1>2. CASE Load
  BY <1>2 DEF Load, EngineTyped, TypeOK, EnginePCs
<1>3. CASE FindOpen
  <2>1. CASE Open(rows) = {}
    BY <1>3, <2>1 DEF FindOpen, Goto, EngineTyped, TypeOK, EnginePCs
  <2>2. CASE Open(rows) # {}
    <3>1. mem' \in [Entries -> Row] BY <1>3, <2>2, BlanksTyped DEF FindOpen, TypeOK
    <3>2. todo' \subseteq Entries BY <1>3, <2>2 DEF FindOpen, Open
    <3> QED BY <1>3, <2>2, <3>1, <3>2 DEF FindOpen, EngineTyped, TypeOK, EnginePCs
  <2> QED BY <2>1, <2>2
<1>4. ASSUME NEW e \in Entries, KeepOpen(e) PROVE EngineTyped'
  <2>1. CASE todo = {e} BY <1>4, <2>1, RoundOver DEF KeepOpen
  <2>2. CASE todo # {e}
    <3>1. mem' \in [Entries -> Row] BY <1>4, <2>2, BlanksTyped DEF KeepOpen, TypeOK
    <3> QED BY <1>4, <2>2, <3>1 DEF KeepOpen, EngineTyped, TypeOK
  <2> QED BY <2>1, <2>2
<1>5. ASSUME NEW e \in Entries, NEW k \in 0 .. mem[e].net, ExitOrder(e, k)
      PROVE  EngineTyped'
  <2>1. mem[e] \in Row /\ mem[e].net \in Nat BY DEF TypeOK, Row
  <2>2. mem' \in [Entries -> Row] BY <1>5, <2>1 DEF ExitOrder, TypeOK, Row, Decisions
  <2>3. pc' \in EnginePCs BY <1>5 DEF ExitOrder, EnginePCs
  <2> QED BY <1>5, <2>2, <2>3 DEF ExitOrder, EngineTyped, TypeOK
<1>6. ASSUME NEW e \in Entries, NEW k \in 0 .. mem[e].net, ExitAcknowledged(e, k)
      PROVE  EngineTyped'
  <2>0. mem[e] \in Row /\ mem \in [Entries -> Row] BY DEF TypeOK
  <2>2. [mem[e] EXCEPT !.net = 0, !.status = "close"] \in Row BY <2>0 DEF Row
  <2>1. mem' \in [Entries -> Row]
    BY <1>6, <2>0, <2>2 DEF ExitAcknowledged
  <2> QED BY <1>6, <2>1 DEF ExitAcknowledged, EngineTyped, TypeOK, EnginePCs
<1>7. CASE SaveConfig
  <2>1. CASE snap.status = "opened"
    <3>1. snap' \in Strategy BY <1>7, <2>1 DEF SaveConfig, TypeOK, Strategy, Positions
    <3> QED
      BY <1>7, <2>1, <3>1, BlanksTyped
         DEF SaveConfig, EngineTyped, TypeOK, EnginePCs
  <2>2. CASE snap.status # "opened" BY <1>7, <2>2, RoundOver DEF SaveConfig
  <2> QED BY <2>1, <2>2
<1>8. CASE
        \/ SweepPause
        \/ \E r \in Requests :
              \/ Retire(r, "stop", "paused") \/ Retire(r, "delete", "closed")
              \/ CommitStart(r) \/ CommitEdit(r)
  BY <1>8 DEF SweepPause, Retire, CommitStart, CommitEdit, Lifecycle,
     RequestOnly, EngineTyped, TypeOK
<1>9. CASE
        \/ EntryRaises \/ Claim \/ MarkAttempted \/ CheckCurrent
        \/ BrokerRejects \/ OrderRaises \/ PriceRaises \/ InsertRow
        \/ \E e \in Entries : SaveExitRow(e)
        \/ \E k \in 0 .. Qty : ReplyLost(k)
  BY <1>9 DEF SaveExitRow, EntryRaises, Claim, MarkAttempted, CheckCurrent,
     BrokerRejects, OrderRaises, ReplyLost, PriceRaises, InsertRow, Goto,
     EngineTyped, TypeOK, EnginePCs
<1>10. ASSUME NEW k \in 0 .. Qty, BrokerAccepts(k) PROVE EngineTyped'
  BY <1>10, BoundsAssumption DEF BrokerAccepts, EngineTyped, TypeOK, EnginePCs
<1>11. CASE BuildRow
  BY <1>11 DEF BuildRow, EngineTyped, TypeOK, EnginePCs, Decisions
<1>12. CASE Restart
  BY <1>12 DEF Restart, EngineTyped, TypeOK, EnginePCs
\* The refresher and the other requests leave them alone.
<1>13. CASE
        \/ Scan \/ RepairPosition \/ SweepFind
        \/ \E e \in Entries :
              \/ ReadStrategy(e) \/ WriteBack(e) \/ SkipRow(e)
              \/ ExitPosition(e)
        \/ \E r \in Requests :
              \/ MarkExit(r) \/ ReadToStart(r) \/ ReadToEdit(r)
              \/ RequestDies(r)
  BY <1>13 DEF Scan, RepairPosition, SweepFind, ReadStrategy, WriteBack,
     SkipRow, ExitPosition, MarkExit, ReadToStart, ReadToEdit, RequestDies,
     EngineTyped, TypeOK, RefresherOnly, RequestOnly
<1> QED
  BY <1>1, <1>2, <1>3, <1>4, <1>5, <1>6, <1>7, <1>8, <1>9, <1>10, <1>11,
     <1>12, <1>13 DEF Next, Engine, ExitRound, EntryRound, Refresher, Request,
     Process

\* The refresher's locals.
LEMMA RefresherStep == ASSUME IInv, Next PROVE RefresherTyped'
<1> USE DEF IInv
<1>1. CASE Scan
  BY <1>1, BlanksTyped DEF Scan, Open, RefresherOnly, RefresherTyped, TypeOK
<1>2. ASSUME NEW e \in Entries, ReadStrategy(e) PROVE RefresherTyped'
  BY <1>2 DEF ReadStrategy, Row, Decisions, RefresherTyped, TypeOK
<1>3. CASE RepairPosition
  BY <1>3 DEF RepairPosition, RefresherTyped, TypeOK
<1>4. CASE
        \/ \E e \in Entries : WriteBack(e) \/ SkipRow(e)
  BY <1>4, BlanksTyped DEF WriteBack, SkipRow, NextRow, RefresherTyped, TypeOK
<1>5. CASE
        \/ Crash
        \/ \E k \in 0 .. Qty : CrashInCall(k)
  BY <1>5, BlanksTyped DEF Crash, CrashInCall, ProcessGone, RefresherTyped
\* The others leave them alone.
<1>6. CASE
        \/ Load \/ FindOpen \/ SetOut \/ KeepPositionIn \/ SaveConfig
        \/ NoEntry \/ EntryRaises \/ Claim \/ MarkAttempted \/ CheckCurrent
        \/ Release \/ BrokerRejects \/ SettleRefused \/ OrderRaises
        \/ PriceRaises \/ BuildRow \/ InsertRow \/ Settle \/ EntryFailed
        \/ SweepFind \/ SweepPause \/ Restart
        \/ \E e \in Entries :
              \/ KeepOpen(e) \/ SaveExitRow(e) \/ ExitPosition(e)
        \/ \E e \in Entries : \E k \in 0 .. mem[e].net :
              \/ ExitOrder(e, k) \/ ExitAcknowledged(e, k) \/ ExitRaises(e, k)
        \/ \E k \in 0 .. Qty : BrokerAccepts(k) \/ ReplyLost(k)
        \/ \E r \in Requests :
              \/ Retire(r, "stop", "paused") \/ Retire(r, "delete", "closed")
              \/ MarkExit(r) \/ ReadToStart(r) \/ CommitStart(r)
              \/ ReadToEdit(r) \/ CommitEdit(r) \/ RequestDies(r)
  BY <1>6 DEF Load, FindOpen, SetOut, KeepPositionIn, SaveConfig, NoEntry,
     EntryRaises, Claim, MarkAttempted, CheckCurrent, Release, BrokerRejects,
     SettleRefused, OrderRaises, PriceRaises, BuildRow, InsertRow, Settle,
     EntryFailed, SweepFind, SweepPause, Restart, KeepOpen, SaveExitRow,
     ExitPosition, ExitOrder, ExitAcknowledged, ExitRaises, BrokerAccepts,
     ReplyLost, Retire, MarkExit, ReadToStart, CommitStart, ReadToEdit,
     CommitEdit, RequestDies, EngineOnly, RequestOnly, RefresherTyped, TypeOK
<1> QED
  BY <1>1, <1>2, <1>3, <1>4, <1>5, <1>6 DEF Next, Engine, ExitRound,
     EntryRound, Refresher, Request, Process

\* The requests, the sweep and the counters.
LEMMA OthersStep == ASSUME IInv, Next PROVE OthersTyped'
<1> USE DEF IInv
<1>1. ASSUME NEW r \in Requests,
             Retire(r, "stop", "paused") \/ Retire(r, "delete", "closed")
      PROVE  OthersTyped'
  BY <1>1 DEF Retire, SetReq, NoReq, Pending, RequestOnly, OthersTyped, TypeOK
<1>2. ASSUME NEW r \in Requests, MarkExit(r) PROVE OthersTyped'
  BY <1>2 DEF MarkExit, SetReq, NoReq, Pending, RequestOnly, OthersTyped,
     TypeOK
<1>3. ASSUME NEW r \in Requests, CommitStart(r) PROVE OthersTyped'
  BY <1>3 DEF CommitStart, Undo, SetReq, NoReq, Pending, RequestOnly,
     OthersTyped, TypeOK
<1>4. ASSUME NEW r \in Requests, CommitEdit(r) PROVE OthersTyped'
  BY <1>4 DEF CommitEdit, Undo, SetReq, NoReq, Pending, RequestOnly,
     OthersTyped, TypeOK
<1>5. ASSUME NEW r \in Requests, RequestDies(r) PROVE OthersTyped'
  BY <1>5 DEF RequestDies, SetReq, NoReq, Pending, RequestOnly, OthersTyped,
     TypeOK
<1>6. ASSUME NEW r \in Requests, ReadToStart(r) PROVE OthersTyped'
  BY <1>6 DEF ReadToStart, SetReq, Pending, FailedEntry, RequestOnly, OthersTyped,
     TypeOK
<1>7. ASSUME NEW r \in Requests, ReadToEdit(r) PROVE OthersTyped'
  BY <1>7 DEF ReadToEdit, SetReq, Pending, Strategy, RequestOnly, OthersTyped,
     TypeOK
<1>8. CASE
        \/ Crash
        \/ \E k \in 0 .. Qty : CrashInCall(k)
  <2>1. ProcessGone BY <1>8 DEF Crash, CrashInCall
  <2>2. /\ UNCHANGED <<live, req, undone>> /\ sweep' = "idle"
        /\ crashes < MaxCrash /\ crashes' = crashes + 1
    BY <2>1 DEF ProcessGone
  <2>3. crashes' \in 0 .. MaxCrash BY <2>2, BoundsAssumption DEF TypeOK
  <2> QED BY <2>2, <2>3 DEF OthersTyped, TypeOK
\* The others leave them alone.
<1>9. CASE
        \/ Load \/ FindOpen \/ SetOut \/ KeepPositionIn \/ SaveConfig
        \/ NoEntry \/ EntryRaises \/ Claim \/ MarkAttempted \/ CheckCurrent
        \/ Release \/ BrokerRejects \/ SettleRefused \/ OrderRaises
        \/ PriceRaises \/ BuildRow \/ InsertRow \/ Settle \/ EntryFailed
        \/ Scan \/ RepairPosition \/ SweepFind \/ SweepPause \/ Restart
        \/ \E e \in Entries :
              \/ KeepOpen(e) \/ SaveExitRow(e) \/ ReadStrategy(e)
              \/ WriteBack(e) \/ SkipRow(e) \/ ExitPosition(e)
        \/ \E e \in Entries : \E k \in 0 .. mem[e].net :
              \/ ExitOrder(e, k) \/ ExitAcknowledged(e, k) \/ ExitRaises(e, k)
        \/ \E k \in 0 .. Qty : BrokerAccepts(k) \/ ReplyLost(k)
  BY <1>9 DEF Load, FindOpen, SetOut, KeepPositionIn, SaveConfig, NoEntry,
     EntryRaises, Claim, MarkAttempted, CheckCurrent, Release, BrokerRejects,
     SettleRefused, OrderRaises, PriceRaises, BuildRow, InsertRow, Settle,
     EntryFailed, Scan, RepairPosition, SweepFind, SweepPause, Restart,
     KeepOpen, SaveExitRow, ReadStrategy, WriteBack, SkipRow, ExitPosition,
     ExitOrder, ExitAcknowledged, ExitRaises, BrokerAccepts, ReplyLost,
     Undo, EngineOnly, RefresherOnly, RequestOnly, OthersTyped, TypeOK
<1> QED
  BY <1>1, <1>2, <1>3, <1>4, <1>5, <1>6, <1>7, <1>8, <1>9 DEF Next, Engine,
     ExitRound, EntryRound, Refresher, Request, Process

\* Every step keeps the types: the six parts together.
LEMMA TypeStep == ASSUME IInv, Next PROVE TypeOK'
  BY StrategyStep, RowsStep, BrokerStep, EngineStep, RefresherStep, OthersStep
     DEF TypeOK, BrokerTyped, EngineTyped, RefresherTyped, OthersTyped

-----------------------------------------------------------------------------
(* What the rows and their copies say of the account.                      *)

\* The account only shrinks when units are sold.
LEMMA Selling ==
    ASSUME TypeOK, NEW e \in Entries, NEW k \in 0 .. mem[e].net, Sell(e, k)
    PROVE  /\ k \in Nat /\ mem[e].net \in Nat /\ held[e] \in Int
           /\ held'[e] = held[e] - k
           /\ \A f \in Entries : f # e => held'[f] = held[f]
           /\ \A f \in Entries : held'[f] <= held[f] /\ held'[f] \in Int /\ held[f] \in Int
           /\ \A f \in Entries : rows[f].net \in Nat /\ rcopy[f].net \in Nat
<1>1. k \in Nat /\ mem[e].net \in Nat BY DEF TypeOK, Row
<1>2. \A f \in Entries : rows[f].net \in Nat /\ rcopy[f].net \in Nat BY DEF TypeOK, Row
<1> QED BY <1>1, <1>2 DEF Sell, TypeOK

\* An order that was not accepted before has left no row and no copy.
LEMMA Buying ==
    ASSUME TypeOK, RowsInv, NEW k \in 0 .. Qty, Buy(k)
    PROVE  /\ issued' = issued + 1
           /\ \A e \in Entries : e # issued + 1 => held'[e] = held[e]
           /\ \A e \in Entries : e > issued =>
                 /\ rows[e].status = "none"
                 /\ mem[e].status = "none" /\ rcopy[e].status = "none"
  BY DEF Buy, TypeOK, RowsInv, Fresh

\* The empty copy stands for no row.
LEMMA BlankRow == NoRow.status = "none"
  BY DEF NoRow


\* Every step keeps what rows and copies say: a stale copy still asks for at
\* least what is held, because the account only shrinks once a row exists.
LEMMA RowsInvStep == ASSUME IInv, Next PROVE RowsInv'
<1> USE DEF IInv
<1>1. CASE FindOpen
  <2>1. CASE Open(rows) = {}
    BY <1>1, <2>1 DEF FindOpen, Goto, EngineOnly, RowsInv, Covered, Closed, Fresh, Visiting
  <2>2. CASE Open(rows) # {}
    <3>1. \A e \in Entries : mem'[e] = IF e \in Open(rows) THEN rows[e] ELSE NoRow
      BY <1>1, <2>2 DEF FindOpen
    <3>2. \A e \in Open(rows) : e \in Entries /\ rows[e].status = "open" BY DEF Open
    <3>3. UNCHANGED <<rows, held, issued, lost, rcopy, rtodo>> /\ todo' = Open(rows)
      BY <1>1, <2>2 DEF FindOpen, EngineOnly
    <3> QED
      BY <3>1, <3>2, <3>3, BlankRow DEF RowsInv, Covered, Closed, Fresh, Visiting
  <2> QED BY <2>1, <2>2
<1>2. ASSUME NEW e \in Entries, KeepOpen(e) PROVE RowsInv'
  <2>1. UNCHANGED <<held, issued, lost, rcopy, rtodo>>
    BY <1>2 DEF KeepOpen, EngineOnly
  <2>2. mem[e].status # "none" BY <1>2 DEF KeepOpen, IsFirst, RowsInv, Visiting
  <2>3. rows'[e] = mem[e] /\ \A f \in Entries : f # e => rows'[f] = rows[f]
    BY <1>2 DEF KeepOpen, TypeOK
  <2>4. Covered(rows)' /\ Closed(rows)' /\ Fresh(rows)'
    BY <2>1, <2>2, <2>3 DEF RowsInv, Covered, Closed, Fresh
  <2>5. CASE todo = {e}
    <3>1. mem' = NoRows /\ todo' = {} BY <1>2, <2>5 DEF KeepOpen, EndRound
    <3> QED
      BY <2>1, <2>4, <3>1, BlankRow DEF RowsInv, Covered, Closed, Fresh, Visiting, NoRows
  <2>6. CASE todo # {e}
    <3>1. /\ todo' = todo \ {e} /\ mem'[e] = NoRow
          /\ \A f \in Entries : f # e => mem'[f] = mem[f]
      BY <1>2, <2>6 DEF KeepOpen, TypeOK
    <3> QED
      BY <2>1, <2>4, <3>1, BlankRow
         DEF RowsInv, Covered, Closed, Fresh, Visiting, TypeOK
  <2> QED BY <2>5, <2>6
<1>3. ASSUME NEW e \in Entries, NEW k \in 0 .. mem[e].net, ExitOrder(e, k)
      PROVE  RowsInv'
  <2>1. Sell(e, k) BY <1>3 DEF ExitOrder
  <2>2. UNCHANGED <<rows, issued, lost, todo, rcopy, rtodo>>
    BY <1>3 DEF ExitOrder, EngineOnly
  <2>3. Covered(rows)' /\ Covered(rcopy)' BY <2>1, <2>2, Selling DEF RowsInv, Covered
  <2>4. \A f \in Entries : f # e => mem'[f] = mem[f] BY <1>3 DEF ExitOrder, TypeOK
  <2>5. /\ mem'[e].net = mem[e].net - k
        /\ mem[e].status # "none" /\ mem'[e].status # "none"
        /\ mem'[e].status = "close" => mem'[e].net = 0 \/ mem[e].status = "close"
    BY <1>3 DEF ExitOrder, IsFirst, TypeOK, Row, RowsInv, Visiting
  <2>6. Covered(mem)'
    BY <2>1, <2>2, <2>4, <2>5, Selling DEF RowsInv, Covered
  <2>7. Closed(mem)' BY <2>1, <2>4, <2>5, Selling DEF RowsInv, Closed
  <2>8. Fresh(mem)' BY <2>2, <2>4, <2>5 DEF RowsInv, Fresh
  <2>9. Visiting(mem, todo)' BY <2>2, <2>4, <2>5 DEF RowsInv, Visiting, TypeOK
  <2> QED BY <2>2, <2>3, <2>6, <2>7, <2>8, <2>9 DEF RowsInv, Closed, Fresh, Visiting
<1>4. ASSUME NEW e \in Entries, NEW k \in 0 .. mem[e].net, ExitAcknowledged(e, k)
      PROVE  RowsInv'
  <2>1. Sell(e, k) BY <1>4 DEF ExitAcknowledged
  <2>2. UNCHANGED <<rows, issued, todo, rcopy, rtodo>> /\ lost' = lost \cup {e}
    BY <1>4 DEF ExitAcknowledged, EngineOnly
  <2>3. Covered(rows)' /\ Covered(rcopy)' BY <2>1, <2>2, Selling DEF RowsInv, Covered
  <2>4. \A f \in Entries : f # e => mem'[f] = mem[f]
    BY <1>4 DEF ExitAcknowledged, TypeOK
  <2>5. mem'[e].net = 0 /\ mem'[e].status = "close" /\ mem[e].status # "none"
    BY <1>4 DEF ExitAcknowledged, IsFirst, TypeOK, Row, RowsInv, Visiting
  <2>6. Covered(mem)' BY <2>1, <2>2, <2>4, Selling DEF RowsInv, Covered
  <2>7. Closed(mem)' BY <2>4, <2>5 DEF RowsInv, Closed
  <2>8. Fresh(mem)' BY <2>2, <2>4, <2>5 DEF RowsInv, Fresh
  <2>9. Visiting(mem, todo)' BY <2>2, <2>4, <2>5 DEF RowsInv, Visiting, TypeOK
  <2> QED BY <2>2, <2>3, <2>6, <2>7, <2>8, <2>9 DEF RowsInv, Closed, Fresh, Visiting
<1>5. ASSUME NEW e \in Entries, NEW k \in 0 .. mem[e].net, ExitRaises(e, k)
      PROVE  RowsInv'
  <2>1. Sell(e, k) BY <1>5 DEF ExitRaises
  <2>2. UNCHANGED <<rows, issued, lost, rcopy, rtodo>> /\ mem' = NoRows /\ todo' = {}
    BY <1>5 DEF ExitRaises, EndRound, EngineOnly
  <2>3. Covered(rows)' /\ Covered(rcopy)' BY <2>1, <2>2, Selling DEF RowsInv, Covered
  <2> QED
    BY <2>2, <2>3, BlankRow DEF RowsInv, Covered, Closed, Fresh, Visiting, NoRows
<1>6. CASE InsertRow
  <2>1. UNCHANGED <<held, issued, lost, mem, todo, rcopy, rtodo>>
    BY <1>6 DEF InsertRow, Goto, EngineOnly
  <2>2. issued \in Entries /\ held[issued] <= fill BY <1>6 DEF InsertRow, InFlight
  <2>3. rows'[issued] = [status |-> "open", decision |-> flag, net |-> fill]
    BY <1>6, <2>2 DEF InsertRow, TypeOK
  <2>4. \A e \in Entries : e # issued => rows'[e] = rows[e]
    BY <1>6 DEF InsertRow, TypeOK
  <2>5. Covered(rows)' /\ Closed(rows)' /\ Fresh(rows)'
    BY <2>1, <2>2, <2>3, <2>4 DEF RowsInv, Covered, Closed, Fresh, Entries
  <2> QED BY <2>1, <2>5 DEF RowsInv, Covered, Closed, Fresh, Visiting
<1>7. CASE
        \/ \E k \in 0 .. Qty : BrokerAccepts(k) \/ ReplyLost(k)
  <2>1. PICK k \in 0 .. Qty : BrokerAccepts(k) \/ ReplyLost(k) BY <1>7
  <2>2. Buy(k) /\ UNCHANGED <<rows, mem, todo, rcopy, rtodo>> /\ lost \subseteq lost'
    BY <2>1 DEF BrokerAccepts, ReplyLost, Goto, EngineOnly
  <2> QED
    BY <2>2, Buying DEF RowsInv, Covered, Closed, Fresh, Visiting, TypeOK, Entries
<1>8. ASSUME NEW k \in 0 .. Qty, CrashInCall(k) PROVE RowsInv'
  <2>1. Buy(k) /\ rows' = rows /\ lost \subseteq lost'
    BY <1>8 DEF CrashInCall, ProcessGone
  <2>2. mem' = NoRows /\ rcopy' = NoRows /\ todo' = {} /\ rtodo' = {}
    BY <1>8 DEF CrashInCall, ProcessGone
  <2> QED
    BY <2>1, <2>2, Buying, BlankRow
       DEF RowsInv, Covered, Closed, Fresh, Visiting, TypeOK, Entries, NoRows
<1>9. CASE Crash
  BY <1>9 DEF Crash, ProcessGone, NoRows, NoRow, RowsInv, Covered, Closed,
     Fresh, Visiting
<1>10. CASE
        \/ SetOut \/ KeepPositionIn \/ NoEntry \/ Release \/ SettleRefused
        \/ Settle \/ EntryFailed
  BY <1>10, BlankRow DEF SetOut, KeepPositionIn, NoEntry, Release,
     SettleRefused, Settle, EntryFailed, SetEntry, EndRound, EngineOnly,
     NoRows, RowsInv, Covered, Closed, Fresh, Visiting
<1>11. CASE SaveConfig
  BY <1>11, BlankRow DEF SaveConfig, EndRound, EngineOnly, NoRows, RowsInv,
     Covered, Closed, Fresh, Visiting
<1>12. ASSUME NEW e \in Entries, SaveExitRow(e) PROVE RowsInv'
  BY <1>12 DEF SaveExitRow, IsFirst, Goto, EngineOnly, TypeOK, RowsInv,
     Covered, Closed, Fresh, Visiting
<1>13. CASE Scan
  BY <1>13, BlankRow DEF Scan, Open, RefresherOnly, RowsInv, Covered, Closed,
     Fresh, Visiting
<1>14. ASSUME NEW e \in Entries, ReadStrategy(e) PROVE RowsInv'
  BY <1>14 DEF ReadStrategy, IsFirst, RefresherOnly, TypeOK, Row, RowsInv,
     Covered, Closed, Fresh, Visiting
<1>15. ASSUME NEW e \in Entries, WriteBack(e) PROVE RowsInv'
  BY <1>15, BlankRow DEF WriteBack, IsFirst, NextRow, RefresherOnly, TypeOK,
     RowsInv, Covered, Closed, Fresh, Visiting
<1>16. ASSUME NEW e \in Entries, SkipRow(e) PROVE RowsInv'
  BY <1>16, BlankRow DEF SkipRow, IsFirst, NextRow, RefresherOnly, TypeOK,
     RowsInv, Covered, Closed, Fresh, Visiting
<1>17. ASSUME NEW r \in Requests, MarkExit(r) PROVE RowsInv'
  BY <1>17 DEF MarkExit, NoRow, NoRows, Row, Entries, RequestOnly, SetReq,
     TypeOK, RowsInv, Covered, Closed, Fresh, Visiting
<1>18. ASSUME NEW e \in Entries, ExitPosition(e) PROVE RowsInv'
  BY <1>18 DEF ExitPosition, NoRow, NoRows, Row, Entries, RequestOnly, TypeOK,
     RowsInv, Covered, Closed, Fresh, Visiting
\* The others touch neither rows, copies nor account.
<1>19. CASE
        \/ Load \/ EntryRaises \/ Claim \/ MarkAttempted \/ CheckCurrent
        \/ BrokerRejects \/ OrderRaises \/ PriceRaises \/ BuildRow
        \/ RepairPosition \/ SweepFind \/ SweepPause \/ Restart
        \/ \E r \in Requests :
              \/ Retire(r, "stop", "paused") \/ Retire(r, "delete", "closed")
              \/ ReadToStart(r) \/ CommitStart(r) \/ ReadToEdit(r)
              \/ CommitEdit(r) \/ RequestDies(r)
  BY <1>19 DEF Load, EntryRaises, Claim, MarkAttempted, CheckCurrent,
     BrokerRejects, OrderRaises, PriceRaises, BuildRow, RepairPosition,
     SweepFind, SweepPause, Restart, Retire, ReadToStart, CommitStart,
     ReadToEdit, CommitEdit, RequestDies, Goto, EngineOnly, RefresherOnly,
     RequestOnly, Lifecycle, RowsInv, Covered, Closed, Fresh, Visiting
<1> QED
  BY <1>1, <1>2, <1>3, <1>4, <1>5, <1>6, <1>7, <1>8, <1>9, <1>10, <1>11,
     <1>12, <1>13, <1>14, <1>15, <1>16, <1>17, <1>18, <1>19 DEF Next, Engine,
     ExitRound, EntryRound, Refresher, Request, Process

\* The order in flight is one of the bounded orders, recorded in full.
LEMMA InFlightStep == ASSUME IInv, Next PROVE InFlight'
<1> USE DEF IInv
<1>1. CASE
        \/ SetOut \/ KeepPositionIn \/ NoEntry \/ Release \/ SettleRefused
        \/ Settle \/ EntryFailed
        \/ \E e \in Entries : \E k \in 0 .. mem[e].net : ExitRaises(e, k)
  BY <1>1 DEF SetOut, KeepPositionIn, NoEntry, Release, SettleRefused, Settle,
     EntryFailed, ExitRaises, EndRound, InFlight
<1>2. CASE
        \/ Crash
        \/ \E k \in 0 .. Qty : CrashInCall(k)
  BY <1>2 DEF Crash, CrashInCall, ProcessGone, InFlight
<1>3. ASSUME NEW k \in 0 .. Qty, BrokerAccepts(k) PROVE InFlight'
  <2>1. issued + 1 \in Entries
    BY <1>3, BoundsAssumption DEF BrokerAccepts, TypeOK, InFlight, Entries
  <2>2. held'[issued + 1] = k /\ issued' = issued + 1 /\ pc' = "price"
    BY <1>3, <2>1 DEF BrokerAccepts, Buy, TypeOK
  <2>3. k <= fill' BY <1>3, BoundsAssumption DEF BrokerAccepts
  <2> QED BY <2>1, <2>2, <2>3 DEF InFlight
<1>4. CASE FindOpen
  BY <1>4 DEF FindOpen, Goto, InFlight, TypeOK
<1>5. ASSUME NEW e \in Entries, KeepOpen(e) PROVE InFlight'
  BY <1>5 DEF KeepOpen, EndRound, InFlight, TypeOK
<1>6. CASE SaveConfig
  BY <1>6 DEF SaveConfig, EndRound, InFlight, TypeOK
<1>7. ASSUME NEW e \in Entries, NEW k \in 0 .. mem[e].net, ExitOrder(e, k)
      PROVE  InFlight'
  BY <1>7 DEF ExitOrder, EngineOnly, InFlight, TypeOK
<1>8. ASSUME NEW e \in Entries, NEW k \in 0 .. mem[e].net, ExitAcknowledged(e, k)
      PROVE  InFlight'
  BY <1>8 DEF ExitAcknowledged, EngineOnly, InFlight, TypeOK
\* The others move no entry order.
<1>9. CASE
        \/ Load \/ EntryRaises \/ Claim \/ MarkAttempted \/ CheckCurrent
        \/ BrokerRejects \/ OrderRaises \/ PriceRaises \/ BuildRow
        \/ InsertRow \/ Scan \/ RepairPosition \/ SweepFind \/ SweepPause
        \/ Restart
        \/ \E e \in Entries :
              \/ SaveExitRow(e) \/ ReadStrategy(e) \/ WriteBack(e)
              \/ SkipRow(e) \/ ExitPosition(e)
        \/ \E k \in 0 .. Qty : ReplyLost(k)
        \/ \E r \in Requests :
              \/ Retire(r, "stop", "paused") \/ Retire(r, "delete", "closed")
              \/ MarkExit(r) \/ ReadToStart(r) \/ CommitStart(r)
              \/ ReadToEdit(r) \/ CommitEdit(r) \/ RequestDies(r)
  BY <1>9 DEF Load, EntryRaises, Claim, MarkAttempted, CheckCurrent,
     BrokerRejects, OrderRaises, PriceRaises, BuildRow, InsertRow, Scan,
     RepairPosition, SweepFind, SweepPause, Restart, SaveExitRow,
     ReadStrategy, WriteBack, SkipRow, ExitPosition, ReplyLost, Retire,
     MarkExit, ReadToStart, CommitStart, ReadToEdit, CommitEdit, RequestDies,
     Goto, EngineOnly, RefresherOnly, RequestOnly, Lifecycle, InFlight, TypeOK
<1> QED
  BY <1>1, <1>2, <1>3, <1>4, <1>5, <1>6, <1>7, <1>8, <1>9 DEF Next, Engine,
     ExitRound, EntryRound, Refresher, Request, Process

\* Units have no row only while their order is in flight, or when it is lost.
LEMMA RowlessStep == ASSUME IInv, Next PROVE RowlessUnits'
<1> USE DEF IInv
<1>1. ASSUME NEW e \in Entries, NEW k \in 0 .. mem[e].net, ExitOrder(e, k)
      PROVE  RowlessUnits'
  <2>1. Sell(e, k) /\ UNCHANGED <<rows, issued, lost>> /\ pc = "loop"
    BY <1>1 DEF ExitOrder
  <2> QED BY <2>1, Selling DEF RowlessUnits
<1>2. ASSUME NEW e \in Entries, NEW k \in 0 .. mem[e].net, ExitAcknowledged(e, k)
      PROVE  RowlessUnits'
  <2>1. /\ Sell(e, k) /\ UNCHANGED <<rows, issued>>
        /\ lost \subseteq lost' /\ pc = "loop"
    BY <1>2 DEF ExitAcknowledged
  <2> QED BY <2>1, Selling DEF RowlessUnits
<1>3. ASSUME NEW e \in Entries, NEW k \in 0 .. mem[e].net, ExitRaises(e, k)
      PROVE  RowlessUnits'
  <2>1. Sell(e, k) /\ UNCHANGED <<rows, issued, lost>> /\ pc = "loop"
    BY <1>3 DEF ExitRaises
  <2> QED BY <2>1, Selling DEF RowlessUnits
<1>4. ASSUME NEW e \in Entries, KeepOpen(e) PROVE RowlessUnits'
  BY <1>4 DEF KeepOpen, IsFirst, RowsInv, Visiting, RowlessUnits, TypeOK
<1>5. ASSUME NEW e \in Entries, SaveExitRow(e) PROVE RowlessUnits'
  BY <1>5 DEF SaveExitRow, IsFirst, RowsInv, Visiting, Goto, RowlessUnits,
     TypeOK
<1>6. ASSUME NEW e \in Entries, WriteBack(e) PROVE RowlessUnits'
  BY <1>6 DEF WriteBack, IsFirst, RowsInv, Visiting, RefresherOnly,
     RowlessUnits, TypeOK
<1>7. CASE InsertRow
  BY <1>7 DEF InsertRow, Goto, RowlessUnits, TypeOK
<1>8. CASE
        \/ \E k \in 0 .. Qty :
              \/ BrokerAccepts(k) \/ ReplyLost(k) \/ CrashInCall(k)
  BY <1>8 DEF BrokerAccepts, ReplyLost, CrashInCall, Buy, Goto, ProcessGone,
     RowlessUnits, TypeOK
<1>9. CASE PriceRaises
  BY <1>9 DEF PriceRaises, Goto, RowlessUnits, TypeOK
<1>10. CASE Crash
  BY <1>10 DEF Crash, ProcessGone, RowlessUnits, TypeOK
<1>11. ASSUME NEW r \in Requests, MarkExit(r) PROVE RowlessUnits'
  BY <1>11 DEF MarkExit, RequestOnly, Row, RowlessUnits, TypeOK
<1>12. ASSUME NEW e \in Entries, ExitPosition(e) PROVE RowlessUnits'
  BY <1>12 DEF ExitPosition, RequestOnly, Row, RowlessUnits, TypeOK
<1>13. CASE
        \/ SetOut \/ KeepPositionIn \/ NoEntry \/ Release \/ SettleRefused
        \/ Settle \/ EntryFailed \/ SaveConfig \/ FindOpen
  BY <1>13 DEF SetOut, KeepPositionIn, NoEntry, Release, SettleRefused,
     Settle, EntryFailed, SaveConfig, FindOpen, EndRound, Goto, SetEntry,
     RowlessUnits
\* The others touch neither the rows nor the account.
<1>14. CASE
        \/ Load \/ EntryRaises \/ Claim \/ MarkAttempted \/ CheckCurrent
        \/ BrokerRejects \/ OrderRaises \/ BuildRow \/ Scan \/ RepairPosition
        \/ SweepFind \/ SweepPause \/ Restart
        \/ \E e \in Entries : ReadStrategy(e) \/ SkipRow(e)
        \/ \E r \in Requests :
              \/ Retire(r, "stop", "paused") \/ Retire(r, "delete", "closed")
              \/ ReadToStart(r) \/ CommitStart(r) \/ ReadToEdit(r)
              \/ CommitEdit(r) \/ RequestDies(r)
  BY <1>14 DEF Load, EntryRaises, Claim, MarkAttempted, CheckCurrent,
     BrokerRejects, OrderRaises, BuildRow, Scan, RepairPosition, SweepFind,
     SweepPause, Restart, ReadStrategy, SkipRow, Retire, ReadToStart,
     CommitStart, ReadToEdit, CommitEdit, RequestDies, Goto, EngineOnly,
     RefresherOnly, RequestOnly, Lifecycle, RowlessUnits
<1> QED
  BY <1>1, <1>2, <1>3, <1>4, <1>5, <1>6, <1>7, <1>8, <1>9, <1>10, <1>11,
     <1>12, <1>13, <1>14 DEF Next, Engine, ExitRound, EntryRound, Refresher,
     Request, Process

-----------------------------------------------------------------------------
(* Revisions: the engine's snapshot is never ahead of the document.         *)

\* A lifecycle change leaves the snapshot behind; SaveConfig, which writes an
\* old revision back, takes the snapshot along.
LEMMA RevisionsStep == ASSUME IInv, Next PROVE Revisions'
<1> USE DEF IInv
<1>1. CASE SetOut
  BY <1>1 DEF SetOut, EndRound, NoSnap, Revisions, TypeOK, Strategy
<1>2. CASE KeepPositionIn
  BY <1>2 DEF KeepPositionIn, EndRound, NoSnap, Revisions, TypeOK, Strategy
<1>3. CASE NoEntry
  BY <1>3 DEF NoEntry, EndRound, NoSnap, Revisions, TypeOK, Strategy
<1>4. CASE Release
  BY <1>4 DEF Release, EndRound, NoSnap, Revisions, TypeOK, Strategy
<1>5. CASE SettleRefused
  BY <1>5 DEF SettleRefused, EndRound, SetEntry, NoSnap, Revisions, TypeOK,
     Strategy
<1>6. CASE Settle
  BY <1>6 DEF Settle, EndRound, SetEntry, NoSnap, Revisions, TypeOK, Strategy
<1>7. CASE EntryFailed
  BY <1>7 DEF EntryFailed, EndRound, SetEntry, NoSnap, Revisions, TypeOK,
     Strategy
<1>8. ASSUME NEW e \in Entries, NEW k \in 0 .. mem[e].net, ExitRaises(e, k)
      PROVE  Revisions'
  BY <1>8 DEF ExitRaises, EndRound, NoSnap, Revisions, TypeOK, Strategy
<1>9. CASE
        \/ Crash
        \/ \E k \in 0 .. Qty : CrashInCall(k)
  BY <1>9 DEF Crash, CrashInCall, ProcessGone, NoSnap, Revisions, TypeOK,
     Strategy
<1>10. CASE Load
  BY <1>10 DEF Load, Revisions, TypeOK, Strategy
<1>11. CASE SaveConfig
  BY <1>11 DEF SaveConfig, EndRound, NoSnap, Revisions, TypeOK, Strategy
<1>12. ASSUME NEW e \in Entries, KeepOpen(e) PROVE Revisions'
  BY <1>12 DEF KeepOpen, EndRound, NoSnap, Revisions, TypeOK, Strategy
<1>13. CASE
        \/ Claim \/ MarkAttempted
  BY <1>13 DEF Claim, MarkAttempted, Goto, Revisions, TypeOK, Strategy
<1>14. CASE RepairPosition
  BY <1>14 DEF RepairPosition, RefresherOnly, Revisions, TypeOK, Strategy
<1>15. CASE Restart
  BY <1>15 DEF Restart, Revisions, TypeOK, Strategy
<1>16. CASE SweepPause
  BY <1>16 DEF SweepPause, Lifecycle, Revisions, TypeOK, Strategy
<1>17. ASSUME NEW r \in Requests,
             Retire(r, "stop", "paused") \/ Retire(r, "delete", "closed")
      PROVE  Revisions'
  <2>1. CASE UNCHANGED <<strat, superseded, snap>> BY <2>1 DEF Revisions
  <2>2. CASE \E s \in Statuses : Lifecycle([strat EXCEPT !.status = s]) /\ snap' = snap
    BY <2>2 DEF Lifecycle, Revisions, TypeOK, Strategy
  <2> QED BY <1>17, <2>1, <2>2 DEF Retire, RequestOnly, Statuses
<1>18. ASSUME NEW r \in Requests, CommitStart(r) PROVE Revisions'
  <2>0. snap' = snap BY <1>18 DEF CommitStart, RequestOnly
  <2>1. CASE UNCHANGED <<strat, superseded>> BY <2>0, <2>1 DEF Revisions
  <2>2. CASE Lifecycle([strat EXCEPT !.status = "opened"])
    BY <2>0, <2>2 DEF Lifecycle, Revisions, TypeOK, Strategy
  <2>3. CASE Lifecycle([strat EXCEPT !.status = "opened",
                                     !.position = "out", !.entry = "none"])
    BY <2>0, <2>3 DEF Lifecycle, Revisions, TypeOK, Strategy
  <2> QED BY <1>18, <2>1, <2>2, <2>3 DEF CommitStart
<1>19. ASSUME NEW r \in Requests, CommitEdit(r) PROVE Revisions'
  BY <1>19 DEF CommitEdit, Lifecycle, RequestOnly, Revisions, TypeOK, Strategy
<1>20. CASE
        \/ FindOpen \/ EntryRaises \/ CheckCurrent \/ BrokerRejects
        \/ OrderRaises \/ PriceRaises
        \/ \E e \in Entries : SaveExitRow(e)
        \/ \E k \in 0 .. Qty : ReplyLost(k)
  BY <1>20 DEF FindOpen, EntryRaises, CheckCurrent, BrokerRejects,
     OrderRaises, PriceRaises, SaveExitRow, ReplyLost, Goto, EngineOnly,
     Revisions
<1>21. ASSUME NEW e \in Entries, NEW k \in 0 .. mem[e].net, ExitOrder(e, k)
      PROVE  Revisions'
  BY <1>21 DEF ExitOrder, EngineOnly, Revisions
<1>22. ASSUME NEW e \in Entries, NEW k \in 0 .. mem[e].net, ExitAcknowledged(e, k)
      PROVE  Revisions'
  BY <1>22 DEF ExitAcknowledged, EngineOnly, Revisions
<1>23. CASE
        \/ BuildRow \/ InsertRow
        \/ \E k \in 0 .. Qty : BrokerAccepts(k)
  BY <1>23 DEF BrokerAccepts, BuildRow, InsertRow, Goto, EngineOnly, Revisions
<1>24. CASE
        \/ Scan
        \/ \E e \in Entries :
              \/ ReadStrategy(e) \/ WriteBack(e) \/ SkipRow(e)
  BY <1>24 DEF Scan, ReadStrategy, WriteBack, SkipRow, RefresherOnly,
     Revisions
\* The others change neither revision.
<1>25. CASE
        \/ SweepFind
        \/ \E e \in Entries : ExitPosition(e)
        \/ \E r \in Requests :
              \/ MarkExit(r) \/ ReadToStart(r) \/ ReadToEdit(r)
              \/ RequestDies(r)
  BY <1>25 DEF SweepFind, ExitPosition, MarkExit, ReadToStart, ReadToEdit,
     RequestDies, Goto, EngineOnly, RefresherOnly, RequestOnly, Revisions
<1> QED
  BY <1>1, <1>2, <1>3, <1>4, <1>5, <1>6, <1>7, <1>8, <1>9, <1>10, <1>11,
     <1>12, <1>13, <1>14, <1>15, <1>16, <1>17, <1>18, <1>19, <1>20, <1>21,
     <1>22, <1>23, <1>24, <1>25 DEF Next, Engine, ExitRound, EntryRound,
     Refresher, Request, Process

-----------------------------------------------------------------------------
(* The theorems.                                                           *)

\* The invariant holds when the program starts.
LEMMA InitInv == Init => IInv
<1> SUFFICES ASSUME Init PROVE IInv OBVIOUS
<1>1. TypeOK
  <2>1. strat \in Strategy BY DEF Init, Strategy, Statuses, Positions, EntryStates
  <2>2. rows \in [Entries -> Row] /\ mem \in [Entries -> Row] /\ rcopy \in [Entries -> Row]
    BY BlanksTyped DEF Init
  <2>3. req \in [Requests -> Pending] BY DEF Init, Pending, NoReq
  <2>4. /\ held \in [Entries -> Int] /\ issued \in 0 .. MaxEntries
        /\ crashes \in 0 .. MaxCrash /\ live \in BOOLEAN
    BY BoundsAssumption DEF Init
  <2> QED
    BY <2>1, <2>2, <2>3, <2>4, BlanksTyped DEF Init, TypeOK, EnginePCs, Decisions
<1>2. RowsInv
  BY DEF Init, RowsInv, Covered, Closed, Fresh, Visiting, NoRows, NoRow
<1>3. InFlight BY DEF Init, InFlight
<1>4. RowlessUnits BY DEF Init, RowlessUnits
<1>5. Revisions BY DEF Init, Revisions, NoSnap
<1> QED BY <1>1, <1>2, <1>3, <1>4, <1>5 DEF IInv

\* Nothing changes, nothing is lost.
LEMMA Stutter == ASSUME IInv, UNCHANGED vars PROVE IInv'
  BY DEF vars, IInv, TypeOK, RowsInv, Covered, Closed, Fresh, Visiting, InFlight,
         RowlessUnits, Revisions

\* The inductive invariant: the types, what rows and copies say of the account,
\* the order in flight, the units without a row, the order of the revisions.
THEOREM Invariance == Spec => []IInv
<1>1. Init => IInv BY InitInv
<1>2. IInv /\ [Next]_vars => IInv'
  BY TypeStep, RowsInvStep, InFlightStep, RowlessStep, RevisionsStep, Stutter DEF IInv
<1> QED BY <1>1, <1>2, PTL DEF Spec

\* Every document, copy and counter keeps its type in every behaviour.
THEOREM TypeCorrect == Spec => []TypeOK
<1>1. IInv => TypeOK BY DEF IInv
<1> QED BY <1>1, Invariance, PTL

\* No unit the account holds is forgotten: it is asked for by an open row, on
\* its way to one, or belongs to an order that an exception, a crash or an
\* unreported exit lost.
THEOREM ExposureIsTracked == Spec => []ExposureTracked
<1>1. ASSUME IInv, NEW e \in Entries, held[e] > 0
      PROVE  \/ rows[e].status = "open" /\ held[e] <= rows[e].net
             \/ e = issued /\ pc \in {"price", "insert"} /\ held[e] <= fill
             \/ e \in lost
  <2>1. rows[e].status \in {"none", "open", "close"} /\ rows[e].net \in Nat
        /\ held[e] \in Int
    BY <1>1 DEF IInv, TypeOK, Row
  <2>2. CASE rows[e].status = "none"
    BY <1>1, <2>2 DEF IInv, RowlessUnits, InFlight
  <2>3. CASE rows[e].status # "none" /\ e \notin lost
    <3>1. held[e] <= rows[e].net BY <1>1, <2>3 DEF IInv, RowsInv, Covered
    <3>2. rows[e].status # "close" BY <1>1, <2>1, <3>1 DEF IInv, RowsInv, Closed
    <3> QED BY <2>1, <2>3, <3>1, <3>2
  <2> QED BY <1>1, <2>2, <2>3
<1>2. IInv => ExposureTracked BY <1>1 DEF ExposureTracked
<1> QED BY <1>2, Invariance, PTL

\* The recheck before a live entry order stops it when the strategy was stopped,
\* deleted, paused or edited since the engine last read or wrote it.
THEOREM OrdersAreCurrent == Spec => NoSupersededOrder
<1>1. ASSUME IInv, [Next]_vars
      PROVE  [pc = "check" /\ pc' = "send" => ~superseded]_vars
  <2>1. SUFFICES ASSUME Next, pc = "check", pc' = "send" PROVE ~superseded
    BY <1>1
  <2>2. StillCurrent => ~superseded
    BY <1>1 DEF StillCurrent, IInv, Revisions, TypeOK, Strategy
  <2>3. StillCurrent
    BY <2>1 DEF Next, Engine, ExitRound, EntryRound, Refresher, Request,
       Process, Load, FindOpen, SetOut, KeepPositionIn, SaveConfig, NoEntry,
       EntryRaises, Claim, MarkAttempted, CheckCurrent, Release,
       BrokerRejects, SettleRefused, OrderRaises, PriceRaises, BuildRow,
       InsertRow, Settle, EntryFailed, Scan, RepairPosition, SweepFind,
       SweepPause, Crash, Restart, KeepOpen, SaveExitRow, ReadStrategy,
       WriteBack, SkipRow, ExitPosition, ExitOrder, ExitAcknowledged,
       ExitRaises, BrokerAccepts, ReplyLost, CrashInCall, Retire, MarkExit,
       ReadToStart, CommitStart, ReadToEdit, CommitEdit, RequestDies, Goto,
       EndRound, EngineOnly, RefresherOnly, RequestOnly, ProcessGone
  <2> QED BY <2>2, <2>3
<1> QED BY <1>1, Invariance, PTL DEF Spec, NoSupersededOrder

-----------------------------------------------------------------------------
(* What the entry state guards.                                            *)
(*                                                                         *)
(* CrashedEntryBlocks, OwnOutcome and SingleExposure rest on the entry      *)
(* state being the last word on the order in flight, so a second invariant  *)
(* says where the engine may be when it is "attempted" and that no row is   *)
(* open where a new order is on its way.                                    *)

\* The engine has read the document and attempted no entry since.
Reading == pc \in {"find", "norows", "loop", "partrow", "partcfg", "closerow",
                   "closecfg", "entry"}

\* Only the engine attempts an entry, so its copy knows of the last attempt.
AttemptSeen == Reading /\ strat.entry = "attempted" => snap.entry = "attempted"

\* From the last look at the document to the settled row the attempt is marked.
AttemptMarked ==
    live /\ "start" \notin undone /\ pc \in {"check", "send", "price", "insert", "settle"}
        => strat.entry = "attempted"

\* After an order died with the worker the engine never gets past EntryBlocked.
DeadAttempt ==
    live /\ "start" \notin undone /\ crashed # {} =>
        strat.entry = "attempted" /\ (Reading \/ pc \in {"idle", "down"})

\* The refresher has copies of open rows.
Refreshing == \A e \in rtodo : rcopy[e].status = "open"

\* The rows the engine reads at the start of a round.
OpenRows == Open(rows)

\* One row is open at most; it takes the strategy in, or the entry is blocked;
\* and none is open where an order is on its way or the strategy is taken out.
OneOpen ==
    /\ \A e, f \in OpenRows : e = f
    /\ OpenRows # {} => strat.position = "in" \/ strat.entry = "attempted"
    /\ pc = "entry" /\ OpenRows # {} => snap.entry = "attempted"
    /\ pc \in {"norows", "closecfg", "mark", "check", "release", "send", "refused",
               "price", "insert", "fail"} => OpenRows = {}
    /\ pc \in {"loop", "partrow", "closerow"} => todo \subseteq OpenRows
    /\ pc \in {"loop", "partrow"} => \A e \in todo : mem[e].status = "open"
    /\ pc = "closerow" => \A e \in todo : mem[e].status = "close"

\* One order is held at most, those that died with the worker counted.
Solo == \A e, f \in Entries \ (lost \ crashed) : held[e] > 0 /\ held[f] > 0 => e = f

\* The second invariant.
EntryInv ==
    /\ AttemptSeen /\ AttemptMarked /\ DeadAttempt /\ Refreshing
    /\ live /\ undone = {} => OneOpen
    /\ live /\ undone = {} /\ crashed # {} => Solo

\* The account is what it was, and what was undone stays so.
LEMMA UndoneGrows == ASSUME Next PROVE live' = live /\ undone \subseteq undone'
<1>1. CASE Engine
  BY <1>1 DEF Engine, ExitRound, EntryRound, Load, FindOpen, SetOut, KeepPositionIn,
     SaveConfig, NoEntry, EntryRaises, Claim, MarkAttempted, CheckCurrent, Release,
     BrokerRejects, SettleRefused, OrderRaises, PriceRaises, BuildRow, InsertRow,
     Settle, EntryFailed, KeepOpen, SaveExitRow, ExitOrder, ExitAcknowledged,
     ExitRaises, BrokerAccepts, ReplyLost, EngineOnly
<1>2. CASE Refresher
  BY <1>2 DEF Refresher, Scan, RepairPosition, ReadStrategy, WriteBack, SkipRow, Undo,
     RefresherOnly
<1>3. CASE Request
  BY <1>3 DEF Request, Retire, MarkExit, ReadToStart, CommitStart, ReadToEdit,
     CommitEdit, RequestDies, ExitPosition, Undo, RequestOnly
<1>4. CASE SweepFind \/ SweepPause \/ Process
  BY <1>4 DEF SweepFind, SweepPause, Process, Crash, Restart, CrashInCall, ProcessGone
<1> QED BY <1>1, <1>2, <1>3, <1>4 DEF Next

\* The engine's place and its copy of the document are its own.
LEMMA OthersLeaveEngine ==
    ASSUME Refresher \/ Request \/ SweepFind \/ SweepPause
    PROVE  UNCHANGED <<pc, snap, mem, todo, held, issued, lost, crashed>>
<1>1. CASE Refresher
  BY <1>1 DEF Refresher, Scan, RepairPosition, ReadStrategy, WriteBack, SkipRow,
     RefresherOnly
<1>2. CASE Request
  BY <1>2 DEF Request, Retire, MarkExit, ReadToStart, CommitStart, ReadToEdit,
     CommitEdit, RequestDies, ExitPosition, RequestOnly
<1>3. CASE SweepFind \/ SweepPause
  BY <1>3 DEF SweepFind, SweepPause
<1> QED BY <1>1, <1>2, <1>3

\* Requests, sweep and refresher never attempt an entry, and only the start that
\* read a failure takes an attempt back.
LEMMA OthersKeepAttempt ==
    ASSUME TypeOK, Refresher \/ Request \/ SweepFind \/ SweepPause
    PROVE  /\ strat'.entry = "attempted" => strat.entry = "attempted"
           /\ strat.entry = "attempted" /\ "start" \notin undone' => strat'.entry = "attempted"
<1>1. CASE Refresher
  BY <1>1 DEF Refresher, Scan, RepairPosition, ReadStrategy, WriteBack, SkipRow,
     TypeOK, Strategy
<1>2. CASE SweepFind \/ SweepPause
  BY <1>2 DEF SweepFind, SweepPause, Lifecycle, TypeOK, Strategy
<1>3. ASSUME NEW r \in Requests,
             Retire(r, "stop", "paused") \/ Retire(r, "delete", "closed") \/ CommitEdit(r)
      PROVE  strat'.entry = strat.entry
  BY <1>3 DEF Retire, CommitEdit, Lifecycle, TypeOK, Strategy
<1>4. ASSUME NEW r \in Requests, CommitStart(r)
      PROVE  \/ strat'.entry = strat.entry
             \/ /\ strat'.entry = "none"
                /\ strat.entry = "attempted" => "start" \in undone'
  BY <1>4 DEF CommitStart, Lifecycle, Undo, TypeOK, Strategy
<1>5. CASE \/ \E e \in Entries : ExitPosition(e)
           \/ \E r \in Requests :
                 MarkExit(r) \/ ReadToStart(r) \/ ReadToEdit(r) \/ RequestDies(r)
  BY <1>5 DEF ExitPosition, MarkExit, ReadToStart, ReadToEdit, RequestDies
<1> QED BY <1>1, <1>2, <1>3, <1>4, <1>5 DEF Request

\* The worker's death and its start keep the state of an attempt.
LEMMA ProcessKeepsAttempt ==
    ASSUME TypeOK, Process
    PROVE  /\ strat'.entry = "attempted" <=> strat.entry = "attempted"
           /\ pc' \in {"down", "idle"}
  BY DEF Process, Crash, CrashInCall, Restart, ProcessGone, TypeOK, Strategy

\* A round that only reads and exits keeps the state of an attempt.
LEMMA ExitsKeepAttempt ==
    ASSUME TypeOK, AttemptSeen, Load \/ ExitRound \/ NoEntry \/ EntryRaises \/ Claim
    PROVE  /\ strat.entry = "attempted" => strat'.entry = "attempted"
           /\ strat'.entry = "attempted" /\ Reading' => snap'.entry = "attempted"
<1>1. CASE Load
  BY <1>1 DEF Load, TypeOK, Strategy
<1>2. CASE FindOpen
  BY <1>2 DEF FindOpen, Goto, AttemptSeen, Reading
<1>3. CASE SetOut \/ KeepPositionIn
  BY <1>3 DEF SetOut, KeepPositionIn, EndRound, Reading, TypeOK, Strategy
<1>4. CASE SaveConfig
  <2>1. /\ strat'.entry = IF snap.entry = "none" THEN strat.entry ELSE snap.entry
        /\ snap.status = "opened" => snap'.entry = snap.entry
        /\ snap.status # "opened" => pc' = "idle"
    BY <1>4 DEF SaveConfig, EndRound, TypeOK, Strategy
  <2>2. strat.entry = "attempted" => snap.entry = "attempted"
    BY <1>4 DEF SaveConfig, AttemptSeen, Reading
  <2> QED BY <2>1, <2>2 DEF Reading
<1>5. ASSUME NEW e \in Entries, KeepOpen(e) \/ SaveExitRow(e)
      PROVE  strat' = strat /\ (snap' = snap \/ pc' = "idle") /\ Reading
  BY <1>5 DEF KeepOpen, SaveExitRow, Goto, EndRound, Reading
<1>6. ASSUME NEW e \in Entries, NEW k \in 0 .. mem[e].net,
             ExitOrder(e, k) \/ ExitAcknowledged(e, k) \/ ExitRaises(e, k)
      PROVE  strat' = strat /\ (snap' = snap \/ pc' = "idle") /\ Reading
  BY <1>6 DEF ExitOrder, ExitAcknowledged, ExitRaises, EndRound, Reading
<1>7. CASE NoEntry \/ EntryRaises
  BY <1>7 DEF NoEntry, EntryRaises, EndRound, Goto, Reading
<1>8. CASE Claim
  BY <1>8 DEF Claim, Claimable, Goto, Reading
<1> QED
  BY <1>1, <1>2, <1>3, <1>4, <1>5, <1>6, <1>7, <1>8 DEF ExitRound, AttemptSeen, Reading

\* The steps that attempt, send and settle an order.
Sending == \/ MarkAttempted \/ CheckCurrent \/ Release \/ BrokerRejects \/ SettleRefused
           \/ OrderRaises \/ PriceRaises \/ BuildRow \/ InsertRow \/ Settle \/ EntryFailed
           \/ \E k \in 0 .. Qty : BrokerAccepts(k) \/ ReplyLost(k)

\* They leave the engine outside of Reading.
LEMMA SendingPlaces == ASSUME Sending PROVE ~Reading /\ ~Reading'
  BY DEF Sending, MarkAttempted, CheckCurrent, Release, BrokerRejects, SettleRefused,
     OrderRaises, PriceRaises, BuildRow, InsertRow, Settle, EntryFailed, BrokerAccepts,
     ReplyLost, Goto, EndRound, Reading

\* A round is read and exit, then the steps of one order.
LEMMA EngineParts ==
    Engine <=> Load \/ ExitRound \/ NoEntry \/ EntryRaises \/ Claim \/ Sending
  BY DEF Engine, EntryRound, Sending

\* No entry is attempted behind the engine's copy.
LEMMA AttemptSeenStep == ASSUME IInv, AttemptSeen, Next PROVE AttemptSeen'
<1>0. TypeOK BY DEF IInv
<1>1. CASE Load \/ ExitRound \/ NoEntry \/ EntryRaises \/ Claim
  BY <1>0, <1>1, ExitsKeepAttempt DEF AttemptSeen
<1>2. CASE Sending
  BY <1>2, SendingPlaces DEF AttemptSeen
<1>3. CASE Refresher \/ Request \/ SweepFind \/ SweepPause
  BY <1>0, <1>3, OthersLeaveEngine, OthersKeepAttempt DEF AttemptSeen, Reading
<1>4. CASE Process
  BY <1>0, <1>4, ProcessKeepsAttempt DEF AttemptSeen, Reading
<1> QED BY <1>1, <1>2, <1>3, <1>4, EngineParts DEF Next

\* The mark stays until the order is settled: only a start that read a failure
\* takes it away in between.
LEMMA AttemptMarkedStep ==
    ASSUME IInv, AttemptMarked, Next PROVE AttemptMarked'
<1>0. TypeOK /\ live' = live /\ undone \subseteq undone' BY UndoneGrows DEF IInv
<1>1. CASE Load \/ ExitRound \/ NoEntry \/ EntryRaises
  <2> DEFINE Marked == {"check", "send", "price", "insert", "settle"}
  <2>1. ASSUME Load \/ FindOpen \/ SetOut \/ KeepPositionIn \/ SaveConfig \/ NoEntry
               \/ EntryRaises
        PROVE  pc' \notin Marked
    BY <2>1 DEF Load, FindOpen, SetOut, KeepPositionIn, SaveConfig, NoEntry, EntryRaises,
       Goto, EndRound
  <2>2. ASSUME NEW e \in Entries, KeepOpen(e) \/ SaveExitRow(e) PROVE pc' \notin Marked
    BY <2>2 DEF KeepOpen, SaveExitRow, Goto, EndRound
  <2>3. ASSUME NEW e \in Entries, NEW k \in 0 .. mem[e].net,
               ExitOrder(e, k) \/ ExitAcknowledged(e, k) \/ ExitRaises(e, k)
        PROVE  pc' \notin Marked
    BY <2>3 DEF ExitOrder, ExitAcknowledged, ExitRaises, EndRound
  <2>4. pc' \notin Marked BY <1>1, <2>1, <2>2, <2>3 DEF ExitRound
  <2> QED BY <2>4 DEF AttemptMarked
<1>2. CASE Claim
  BY <1>0, <1>2 DEF Claim, Goto, AttemptMarked
<1>3. CASE MarkAttempted
  BY <1>3 DEF MarkAttempted, AttemptMarked, TypeOK, IInv, Strategy
<1>4. CASE \/ CheckCurrent \/ BrokerRejects \/ OrderRaises \/ PriceRaises \/ BuildRow
           \/ InsertRow \/ \E k \in 0 .. Qty : BrokerAccepts(k) \/ ReplyLost(k)
  BY <1>0, <1>4 DEF CheckCurrent, BrokerRejects, OrderRaises, PriceRaises, BuildRow,
     InsertRow, BrokerAccepts, ReplyLost, Goto, AttemptMarked
<1>5. CASE Release \/ SettleRefused \/ Settle \/ EntryFailed
  BY <1>5 DEF Release, SettleRefused, Settle, EntryFailed, EndRound, AttemptMarked
<1>6. CASE Refresher \/ Request \/ SweepFind \/ SweepPause
  BY <1>0, <1>6, OthersLeaveEngine, OthersKeepAttempt DEF AttemptMarked
<1>7. CASE Process
  BY <1>0, <1>7, ProcessKeepsAttempt DEF AttemptMarked
<1> QED
  BY <1>1, <1>2, <1>3, <1>4, <1>5, <1>6, <1>7, EngineParts DEF Next, Sending

\* After an order died with the worker no round gets past EntryBlocked, because
\* every copy says "attempted".
LEMMA DeadAttemptStep ==
    ASSUME IInv, AttemptSeen, AttemptMarked, DeadAttempt, Next PROVE DeadAttempt'
<1>0. TypeOK /\ live' = live /\ undone \subseteq undone' BY UndoneGrows DEF IInv
<1> SUFFICES ASSUME live, "start" \notin undone, crashed' # {}, "start" \notin undone'
             PROVE  strat'.entry = "attempted" /\ (Reading' \/ pc' \in {"idle", "down"})
  BY <1>0 DEF DeadAttempt
<1>1. CASE Load \/ ExitRound \/ NoEntry \/ EntryRaises \/ Claim
  <2>1. crashed' = crashed
    BY <1>1 DEF Load, ExitRound, FindOpen, SetOut, KeepPositionIn, SaveConfig, KeepOpen,
       SaveExitRow, ExitOrder, ExitAcknowledged, ExitRaises, NoEntry, EntryRaises, Claim
  <2>2. strat.entry = "attempted" BY <2>1 DEF DeadAttempt
  <2>3. pc = "entry" => EntryBlocked
    BY <2>2 DEF AttemptSeen, Reading, EntryBlocked
  <2>4. ~EntryRaises /\ ~Claim BY <2>3 DEF EntryRaises, Claim
  <2>5. Reading' \/ pc' \in {"idle", "down"}
    BY <1>1, <2>4 DEF Load, ExitRound, FindOpen, SetOut, KeepPositionIn, SaveConfig,
       KeepOpen, SaveExitRow, ExitOrder, ExitAcknowledged, ExitRaises, NoEntry, Goto,
       EndRound, Reading
  <2> QED BY <1>0, <1>1, <2>2, <2>5, ExitsKeepAttempt
<1>2. CASE Sending
  <2>1. crashed' = crashed
    BY <1>2 DEF Sending, MarkAttempted, CheckCurrent, Release, BrokerRejects,
       SettleRefused, OrderRaises, PriceRaises, BuildRow, InsertRow, Settle, EntryFailed,
       BrokerAccepts, ReplyLost
  <2>2. pc \notin {"idle", "down"}
    BY <1>2 DEF Sending, MarkAttempted, CheckCurrent, Release, BrokerRejects,
       SettleRefused, OrderRaises, PriceRaises, BuildRow, InsertRow, Settle, EntryFailed,
       BrokerAccepts, ReplyLost
  <2> QED BY <1>2, <2>1, <2>2, SendingPlaces DEF DeadAttempt
<1>3. CASE Refresher \/ Request \/ SweepFind \/ SweepPause
  BY <1>0, <1>3, OthersLeaveEngine, OthersKeepAttempt DEF DeadAttempt, Reading
<1>4. CASE Process
  <2>1. crashed' = crashed \/ pc \in {"send", "price", "insert"}
    BY <1>4 DEF Process, Crash, CrashInCall, Restart
  <2> QED BY <1>0, <1>4, <2>1, ProcessKeepsAttempt DEF DeadAttempt, AttemptMarked
<1> QED BY <1>1, <1>2, <1>3, <1>4, EngineParts DEF Next

\* The refresher reads open rows.
LEMMA RefreshingStep == ASSUME IInv, Refreshing, Next PROVE Refreshing'
<1>0. TypeOK BY DEF IInv
<1>1. CASE Scan
  BY <1>1 DEF Scan, Open, Refreshing
<1>2. ASSUME NEW e \in Entries, ReadStrategy(e) PROVE Refreshing'
  BY <1>0, <1>2 DEF ReadStrategy, Refreshing, TypeOK, Row
<1>3. CASE RepairPosition
  BY <1>3 DEF RepairPosition, Refreshing
<1>4. ASSUME NEW e \in Entries, WriteBack(e) \/ SkipRow(e) PROVE Refreshing'
  BY <1>0, <1>4 DEF WriteBack, SkipRow, NextRow, Refreshing, TypeOK
<1>5. CASE Engine
  <2>1. UNCHANGED <<rcopy, rtodo>>
    BY <1>5 DEF Engine, ExitRound, EntryRound, Load, FindOpen, SetOut, KeepPositionIn,
       SaveConfig, NoEntry, EntryRaises, Claim, MarkAttempted, CheckCurrent, Release,
       BrokerRejects, SettleRefused, OrderRaises, PriceRaises, BuildRow, InsertRow,
       Settle, EntryFailed, KeepOpen, SaveExitRow, ExitOrder, ExitAcknowledged,
       ExitRaises, BrokerAccepts, ReplyLost, EngineOnly
  <2> QED BY <2>1 DEF Refreshing
<1>6. CASE Request \/ SweepFind \/ SweepPause
  <2>1. UNCHANGED <<rcopy, rtodo>>
    BY <1>6 DEF Request, Retire, MarkExit, ReadToStart, CommitStart, ReadToEdit,
       CommitEdit, RequestDies, ExitPosition, RequestOnly, SweepFind, SweepPause
  <2> QED BY <2>1 DEF Refreshing
<1>7. CASE Process
  <2>1. UNCHANGED <<rcopy, rtodo>> \/ rtodo' = {}
    BY <1>7 DEF Process, Crash, CrashInCall, Restart, ProcessGone
  <2> QED BY <2>1 DEF Refreshing
<1> QED BY <1>1, <1>2, <1>3, <1>4, <1>5, <1>6, <1>7 DEF Next, Refresher

-----------------------------------------------------------------------------
(* One open row.                                                           *)

\* Of the others only the refresher writes back whole rows, and a row it opens
\* again is recorded in undone.
LEMMA OthersKeepOpen ==
    ASSUME TypeOK, Refreshing, Refresher \/ Request \/ SweepFind \/ SweepPause,
           undone' = {}
    PROVE  OpenRows' = OpenRows
<1>1. ASSUME NEW e \in Entries, WriteBack(e) PROVE OpenRows' = OpenRows
  <2>1. e \in rtodo /\ rows' = [rows EXCEPT ![e] = rcopy[e]]
        /\ (rows[e].status # "open" => "row" \in undone')
    BY <1>1 DEF WriteBack, IsFirst, Undo
  <2>2. rows[e].status = "open" /\ rcopy[e].status = "open" BY <2>1 DEF Refreshing
  <2>3. \A f \in Entries : rows'[f].status = "open" <=> rows[f].status = "open"
    BY <2>1, <2>2 DEF TypeOK
  <2> QED BY <2>3 DEF OpenRows, Open
<1>2. ASSUME NEW r \in Requests, MarkExit(r) PROVE OpenRows' = OpenRows
  <2>1. \A f \in Entries : rows'[f].status = rows[f].status
    BY <1>2 DEF MarkExit, TypeOK, Row
  <2> QED BY <2>1 DEF OpenRows, Open
<1>3. ASSUME NEW e \in Entries, ExitPosition(e) PROVE OpenRows' = OpenRows
  <2>1. \A f \in Entries : rows'[f].status = rows[f].status
    BY <1>3 DEF ExitPosition, TypeOK, Row
  <2> QED BY <2>1 DEF OpenRows, Open
<1>4. CASE \/ Scan \/ RepairPosition \/ SweepFind \/ SweepPause
           \/ \E e \in Entries : ReadStrategy(e) \/ SkipRow(e)
           \/ \E r \in Requests :
                 \/ Retire(r, "stop", "paused") \/ Retire(r, "delete", "closed")
                 \/ ReadToStart(r) \/ CommitStart(r) \/ ReadToEdit(r)
                 \/ CommitEdit(r) \/ RequestDies(r)
  <2>1. rows' = rows
    BY <1>4 DEF Scan, RepairPosition, SweepFind, SweepPause, ReadStrategy, SkipRow,
       Retire, ReadToStart, CommitStart, ReadToEdit, CommitEdit, RequestDies
  <2> QED BY <2>1 DEF OpenRows, Open
<1> QED BY <1>1, <1>2, <1>3, <1>4 DEF Refresher, Request

\* Nor do they take a strategy out whose row is open, but for the starts and
\* edits recorded in undone.
LEMMA OthersKeepIn ==
    ASSUME TypeOK, Refresher \/ Request \/ SweepFind \/ SweepPause, undone' = {},
           strat.position = "in" \/ strat.entry = "attempted"
    PROVE  strat'.position = "in" \/ strat'.entry = "attempted"
<1>1. CASE Refresher
  BY <1>1 DEF Refresher, Scan, RepairPosition, ReadStrategy, WriteBack, SkipRow,
     TypeOK, Strategy
<1>2. CASE SweepFind \/ SweepPause
  BY <1>2 DEF SweepFind, SweepPause, Lifecycle, TypeOK, Strategy
<1>3. ASSUME NEW r \in Requests, Retire(r, "stop", "paused") \/ Retire(r, "delete", "closed")
      PROVE  strat'.entry = strat.entry /\ strat'.position = strat.position
  BY <1>3 DEF Retire, Lifecycle, TypeOK, Strategy
<1>4. ASSUME NEW r \in Requests, CommitStart(r)
      PROVE  strat'.entry = strat.entry /\ strat'.position = strat.position
  BY <1>4 DEF CommitStart, Lifecycle, Undo, TypeOK, Strategy
<1>5. ASSUME NEW r \in Requests, CommitEdit(r)
      PROVE  strat'.entry = strat.entry
             /\ (strat.position = "in" => strat'.position = "in")
  <2>1. req[r] \in Pending BY DEF TypeOK
  <2>2. req[r].position \in Positions BY <1>5, <2>1 DEF CommitEdit, Pending
  <2>3. strat'.position = req[r].position /\ strat'.entry = strat.entry
    BY <1>5 DEF CommitEdit, Lifecycle, TypeOK, Strategy
  <2>4. ~(strat.position = "in" /\ req[r].position = "out")
    BY <1>5 DEF CommitEdit, Undo
  <2> QED BY <2>2, <2>3, <2>4 DEF Positions
<1>6. CASE \/ \E e \in Entries : ExitPosition(e)
           \/ \E r \in Requests :
                 MarkExit(r) \/ ReadToStart(r) \/ ReadToEdit(r) \/ RequestDies(r)
  BY <1>6 DEF ExitPosition, MarkExit, ReadToStart, ReadToEdit, RequestDies
<1> QED BY <1>1, <1>2, <1>3, <1>4, <1>5, <1>6 DEF Request

\* The round that reads and exits: the row in hand is the only one that is open,
\* so a strategy it takes out has none left.
LEMMA OneOpenExits ==
    ASSUME TypeOK, OneOpen, Load \/ ExitRound PROVE OneOpen'
<1>1. CASE Load
  <2>1. UNCHANGED <<rows, strat, OpenRows>> BY <1>1 DEF Load, OpenRows
  <2> QED BY <1>1, <2>1 DEF Load, OneOpen
<1>2. CASE FindOpen
  <2>1. UNCHANGED <<rows, strat, OpenRows>> BY <1>2 DEF FindOpen, OpenRows
  <2>2. CASE OpenRows = {}
    BY <1>2, <2>1, <2>2 DEF FindOpen, Goto, OneOpen, OpenRows
  <2>3. CASE OpenRows # {}
    <3>1. pc' = "loop" /\ todo' = OpenRows BY <1>2, <2>3 DEF FindOpen, OpenRows
    <3>2. \A e \in OpenRows : mem'[e].status = "open"
      BY <1>2, <2>3 DEF FindOpen, OpenRows, Open
    <3> QED BY <2>1, <3>1, <3>2 DEF OneOpen
  <2> QED BY <2>2, <2>3
<1>3. CASE SetOut
  <2>1. OpenRows = {} /\ OpenRows' = OpenRows /\ pc' = "idle"
    BY <1>3 DEF SetOut, EndRound, OneOpen, OpenRows
  <2> QED BY <2>1 DEF OneOpen
<1>4. CASE KeepPositionIn
  <2>1. OpenRows' = OpenRows /\ pc' = "idle" /\ strat'.position = "in"
    BY <1>4 DEF KeepPositionIn, EndRound, OpenRows, TypeOK, Strategy
  <2> QED BY <2>1 DEF OneOpen
<1>5. CASE SaveConfig
  <2>1. OpenRows = {} /\ OpenRows' = OpenRows /\ pc' \in {"idle", "entry"}
    BY <1>5 DEF SaveConfig, EndRound, OneOpen, OpenRows
  <2> QED BY <2>1 DEF OneOpen
<1>6. ASSUME NEW e \in Entries, KeepOpen(e) PROVE OneOpen'
  <2>1. e \in todo /\ pc = "loop" /\ strat' = strat BY <1>6 DEF KeepOpen, IsFirst
  <2>2. e \in OpenRows /\ mem[e].status = "open" BY <2>1 DEF OneOpen
  <2>3. \A f \in Entries : rows'[f].status = "open" <=> rows[f].status = "open"
    BY <1>6, <2>2 DEF KeepOpen, OpenRows, Open, TypeOK
  <2>4. OpenRows' = OpenRows BY <2>3 DEF OpenRows, Open
  <2>5. CASE todo = {e}
    <3>1. pc' = "idle" BY <1>6, <2>5 DEF KeepOpen, EndRound
    <3> QED BY <2>1, <2>4, <3>1 DEF OneOpen
  <2>6. CASE todo # {e}
    BY <2>1, <2>6 DEF OneOpen
  <2> QED BY <2>5, <2>6
<1>7. ASSUME NEW e \in Entries, NEW k \in 0 .. mem[e].net,
             ExitOrder(e, k) \/ ExitAcknowledged(e, k)
      PROVE  OneOpen'
  <2>1. e \in todo /\ pc = "loop" /\ UNCHANGED <<strat, todo, rows>>
    BY <1>7 DEF ExitOrder, ExitAcknowledged, IsFirst
  <2>2. OpenRows' = OpenRows BY <2>1 DEF OpenRows
  <2>3. mem[e].status = "open" /\ \A f \in todo : f = e BY <2>1 DEF OneOpen
  <2>4. mem \in [Entries -> Row] /\ mem[e] \in Row BY DEF TypeOK
  <2>5. \/ pc' = "closerow" /\ mem'[e].status = "close"
        \/ pc' = "partrow" /\ mem'[e].status = "open"
    BY <1>7, <2>3, <2>4 DEF ExitOrder, ExitAcknowledged, Row
  <2> QED BY <2>1, <2>2, <2>3, <2>5 DEF OneOpen
<1>8. ASSUME NEW e \in Entries, NEW k \in 0 .. mem[e].net, ExitRaises(e, k)
      PROVE  OneOpen'
  <2>1. UNCHANGED <<rows, strat, OpenRows>> /\ pc' = "idle"
    BY <1>8 DEF ExitRaises, EndRound, OpenRows
  <2> QED BY <2>1 DEF OneOpen
<1>9. ASSUME NEW e \in Entries, SaveExitRow(e) PROVE OneOpen'
  <2>1. e \in todo /\ pc \in {"partrow", "closerow"} /\ UNCHANGED <<strat, todo, mem, snap>>
    BY <1>9 DEF SaveExitRow, IsFirst, Goto
  <2>2. e \in OpenRows /\ \A f \in OpenRows : f = e BY <2>1 DEF OneOpen
  <2>3. rows' = [rows EXCEPT ![e] = mem[e]] BY <1>9 DEF SaveExitRow
  <2>4. CASE pc = "partrow"
    <3>1. mem[e].status = "open" /\ pc' = "partcfg"
      BY <1>9, <2>1, <2>4 DEF OneOpen, SaveExitRow, Goto
    <3>2. \A f \in Entries : rows'[f].status = "open" <=> rows[f].status = "open"
      BY <2>2, <2>3, <3>1 DEF OpenRows, Open, TypeOK
    <3>3. OpenRows' = OpenRows BY <3>2 DEF OpenRows, Open
    <3> QED BY <2>1, <3>1, <3>3 DEF OneOpen
  <2>5. CASE pc = "closerow"
    <3>1. mem[e].status = "close" /\ pc' = "closecfg"
      BY <1>9, <2>1, <2>5 DEF OneOpen, SaveExitRow, Goto
    <3>2. \A f \in Entries : rows'[f].status # "open"
      BY <2>2, <2>3, <3>1 DEF OpenRows, Open, TypeOK
    <3>3. OpenRows' = {} BY <3>2 DEF OpenRows, Open
    <3> QED BY <3>1, <3>3 DEF OneOpen
  <2> QED BY <2>1, <2>4, <2>5
<1> QED
  BY <1>1, <1>2, <1>3, <1>4, <1>5, <1>6, <1>7, <1>8, <1>9 DEF ExitRound

\* The steps of an entry: a claim is made over no open row, and the row that is
\* inserted is the only one, marked as attempted until it is settled.
LEMMA OneOpenEntry ==
    ASSUME IInv, OneOpen, AttemptMarked, live, undone = {},
           NoEntry \/ EntryRaises \/ Claim \/ Sending
    PROVE  OneOpen'
<1>0. TypeOK /\ "start" \notin undone BY DEF IInv
<1>1. CASE NoEntry
  <2>1. UNCHANGED <<strat, OpenRows>> /\ pc' = "idle"
    BY <1>1 DEF NoEntry, EndRound, OpenRows
  <2> QED BY <2>1 DEF OneOpen
<1>2. CASE EntryRaises \/ Claim
  <2>1. pc = "entry" /\ ~EntryBlocked /\ OpenRows' = OpenRows
    BY <1>2 DEF EntryRaises, Claim, OpenRows
  <2>2. OpenRows = {} BY <2>1 DEF OneOpen, EntryBlocked
  <2>3. pc' \in {"fail", "mark", "send"} BY <1>2 DEF EntryRaises, Claim, Goto
  <2> QED BY <2>1, <2>2, <2>3 DEF OneOpen
<1>3. CASE InsertRow
  <2>1. OpenRows = {} /\ strat.entry = "attempted" /\ strat' = strat /\ pc' = "settle"
    BY <1>0, <1>3 DEF InsertRow, Goto, OneOpen, AttemptMarked
  <2>2. issued \in Entries BY <1>3 DEF InsertRow, IInv, InFlight
  <2>3. \A e \in Entries : rows'[e].status = "open" => e = issued
    BY <1>0, <1>3, <2>1, <2>2 DEF InsertRow, OpenRows, Open, TypeOK
  <2>4. \A e \in OpenRows' : e = issued BY <2>3 DEF OpenRows, Open
  <2> QED BY <2>1, <2>4 DEF OneOpen
<1>4. CASE Settle
  <2>1. OpenRows' = OpenRows /\ pc' = "idle" /\ strat'.position = "in"
    BY <1>0, <1>4 DEF Settle, SetEntry, EndRound, OpenRows, TypeOK, Strategy
  <2> QED BY <2>1 DEF OneOpen
<1>5. CASE \/ MarkAttempted \/ CheckCurrent \/ Release \/ BrokerRejects \/ SettleRefused
           \/ OrderRaises \/ PriceRaises \/ BuildRow \/ EntryFailed
           \/ \E k \in 0 .. Qty : BrokerAccepts(k) \/ ReplyLost(k)
  <2>1. pc \in {"mark", "check", "release", "send", "refused", "price", "fail"}
    BY <1>5 DEF MarkAttempted, CheckCurrent, Release, BrokerRejects, SettleRefused,
       OrderRaises, PriceRaises, BuildRow, EntryFailed, BrokerAccepts, ReplyLost
  <2>2. rows' = rows
    BY <1>5 DEF MarkAttempted, CheckCurrent, Release, BrokerRejects, SettleRefused,
       OrderRaises, PriceRaises, BuildRow, EntryFailed, BrokerAccepts, ReplyLost
  <2>3. pc' \in {"check", "send", "release", "idle", "refused", "fail", "price", "insert"}
    BY <1>5 DEF MarkAttempted, CheckCurrent, Release, BrokerRejects, SettleRefused,
       OrderRaises, PriceRaises, BuildRow, EntryFailed, BrokerAccepts, ReplyLost, Goto,
       EndRound
  <2>4. OpenRows = {} /\ OpenRows' = {} BY <2>1, <2>2 DEF OneOpen, OpenRows
  <2> QED BY <2>3, <2>4 DEF OneOpen
<1> QED BY <1>1, <1>2, <1>3, <1>4, <1>5 DEF Sending

\* One row is open at most, as long as no stale write undoes a newer one.
LEMMA OneOpenStep ==
    ASSUME IInv, EntryInv, Next PROVE live' /\ undone' = {} => OneOpen'
<1> SUFFICES ASSUME live', undone' = {} PROVE OneOpen' OBVIOUS
<1>0. /\ live /\ undone = {} /\ OneOpen
      /\ TypeOK /\ AttemptMarked /\ Refreshing
  BY UndoneGrows DEF EntryInv, IInv
<1>1. CASE Load \/ ExitRound BY <1>0, <1>1, OneOpenExits
<1>2. CASE NoEntry \/ EntryRaises \/ Claim \/ Sending BY <1>0, <1>2, OneOpenEntry
<1>3. CASE Refresher \/ Request \/ SweepFind \/ SweepPause
  <2>1. UNCHANGED <<pc, snap, mem, todo>> BY <1>3, OthersLeaveEngine
  <2>2. OpenRows' = OpenRows BY <1>0, <1>3, OthersKeepOpen
  <2>3. OpenRows # {} => strat'.position = "in" \/ strat'.entry = "attempted"
    BY <1>0, <1>3, OthersKeepIn DEF OneOpen
  <2> QED BY <1>0, <2>1, <2>2, <2>3 DEF OneOpen
<1>4. CASE Process
  <2>1. rows' = rows /\ pc' \in {"down", "idle"}
    BY <1>4 DEF Process, Crash, CrashInCall, Restart, ProcessGone
  <2>2. OpenRows' = OpenRows BY <2>1 DEF OpenRows
  <2>3. OpenRows # {} => strat' = strat
    BY <1>4 DEF Process, Crash, CrashInCall, Restart, ProcessGone, OpenRows
  <2> QED BY <1>0, <2>1, <2>2, <2>3 DEF OneOpen
<1> QED BY <1>1, <1>2, <1>3, <1>4, EngineParts DEF Next

-----------------------------------------------------------------------------
(* One exposure.                                                           *)

\* While no order died with the worker, the units of an order the records did
\* not lose are those of the open row or of the order in flight.
LEMMA OneHeld ==
    ASSUME IInv, OneOpen, crashed = {}
    PROVE  /\ Solo
           /\ pc \in {"send", "price", "insert"} =>
                 \A e \in Entries \ lost : held[e] > 0 =>
                    e = issued /\ pc \in {"price", "insert"}
<1>1. ASSUME NEW e \in Entries \ lost, held[e] > 0
      PROVE  e \in OpenRows \/ (e = issued /\ pc \in {"price", "insert"})
  <2>1. rows[e].status \in {"none", "open", "close"} /\ rows[e].net \in Nat
        /\ held[e] \in Int
    BY DEF IInv, TypeOK, Row
  <2>2. CASE rows[e].status = "none" BY <1>1, <2>2 DEF IInv, RowlessUnits
  <2>3. CASE rows[e].status = "close"
    BY <1>1, <2>1, <2>3 DEF IInv, RowsInv, Covered, Closed
  <2>4. CASE rows[e].status = "open" BY <2>4 DEF OpenRows, Open
  <2> QED BY <2>1, <2>2, <2>3, <2>4
<1>2. pc \in {"send", "price", "insert"} => OpenRows = {} BY DEF OneOpen
<1>3. \A e, f \in OpenRows : e = f BY DEF OneOpen
<1>4. Solo BY <1>1, <1>2, <1>3 DEF Solo
<1> QED BY <1>1, <1>2, <1>4

\* The death that takes an order along leaves nothing else held, and nothing is
\* bought after it.
LEMMA CrashSoloStep ==
    ASSUME IInv, EntryInv, Next
    PROVE  live' /\ undone' = {} /\ crashed' # {} => Solo'
<1> SUFFICES ASSUME live', undone' = {}, crashed' # {} PROVE Solo' OBVIOUS
<1>0. /\ live /\ undone = {} /\ OneOpen /\ "start" \notin undone
      /\ TypeOK /\ DeadAttempt /\ (crashed # {} => Solo)
  BY UndoneGrows DEF EntryInv, IInv
<1>1. CASE crashed # {}
  <2>1. Solo /\ pc \notin {"send", "price", "insert"}
    BY <1>0, <1>1 DEF DeadAttempt, Reading
  <2>2. /\ \A e \in Entries : held'[e] <= held[e]
        /\ lost \ crashed \subseteq lost' \ crashed'
    <3>1. ASSUME NEW e \in Entries, NEW k \in 0 .. mem[e].net, ExitOrder(e, k)
          PROVE  /\ \A f \in Entries : held'[f] <= held[f]
                 /\ lost \ crashed \subseteq lost' \ crashed'
      <4>1. Sell(e, k) /\ UNCHANGED <<lost, crashed>> BY <3>1 DEF ExitOrder
      <4> QED BY <1>0, <4>1, Selling
    <3>2. ASSUME NEW e \in Entries, NEW k \in 0 .. mem[e].net, ExitAcknowledged(e, k)
          PROVE  /\ \A f \in Entries : held'[f] <= held[f]
                 /\ lost \ crashed \subseteq lost' \ crashed'
      <4>1. Sell(e, k) /\ crashed' = crashed /\ lost' = lost \cup {e}
        BY <3>2 DEF ExitAcknowledged
      <4> QED BY <1>0, <4>1, Selling
    <3>3. ASSUME NEW e \in Entries, NEW k \in 0 .. mem[e].net, ExitRaises(e, k)
          PROVE  /\ \A f \in Entries : held'[f] <= held[f]
                 /\ lost \ crashed \subseteq lost' \ crashed'
      <4>1. Sell(e, k) /\ UNCHANGED <<lost, crashed>> BY <3>3 DEF ExitRaises
      <4> QED BY <1>0, <4>1, Selling
    <3>4. CASE \/ Load \/ FindOpen \/ SetOut \/ KeepPositionIn \/ SaveConfig
               \/ NoEntry \/ EntryRaises \/ Claim \/ Process \/ Sending
               \/ \E e \in Entries : KeepOpen(e) \/ SaveExitRow(e)
      <4>1. UNCHANGED <<held, lost, crashed>>
        BY <2>1, <3>4 DEF Load, FindOpen, SetOut, KeepPositionIn, SaveConfig, NoEntry,
           EntryRaises, Claim, Process, Crash, CrashInCall, Restart, Sending,
           MarkAttempted, CheckCurrent, Release, BrokerRejects, SettleRefused,
           OrderRaises, PriceRaises, BuildRow, InsertRow, Settle, EntryFailed,
           BrokerAccepts, ReplyLost, KeepOpen, SaveExitRow
      <4>2. \A e \in Entries : held[e] \in Int BY <1>0 DEF TypeOK
      <4> QED BY <4>1, <4>2
    <3>5. CASE Refresher \/ Request \/ SweepFind \/ SweepPause
      <4>1. \A e \in Entries : held[e] \in Int BY <1>0 DEF TypeOK
      <4> QED BY <3>5, <4>1, OthersLeaveEngine
    <3> QED
      BY <3>1, <3>2, <3>3, <3>4, <3>5, EngineParts DEF Next, ExitRound
  <2>3. \A e \in Entries : held[e] \in Int /\ held'[e] \in Int
    BY BrokerStep DEF IInv, TypeOK, BrokerTyped
  <2>4. \A e \in Entries \ (lost' \ crashed') :
           e \in Entries \ (lost \ crashed) /\ (held'[e] > 0 => held[e] > 0)
    BY <2>2, <2>3
  <2> QED BY <2>1, <2>4 DEF Solo
<1>2. CASE crashed = {}
  <2>1. Process BY <1>2, OthersLeaveEngine, EngineParts
        DEF Next, Load, ExitRound, FindOpen, SetOut, KeepPositionIn, SaveConfig, NoEntry,
            EntryRaises, Claim, Sending, MarkAttempted, CheckCurrent, Release,
            BrokerRejects, SettleRefused, OrderRaises, PriceRaises, BuildRow, InsertRow,
            Settle, EntryFailed, BrokerAccepts, ReplyLost, KeepOpen, SaveExitRow,
            ExitOrder, ExitAcknowledged, ExitRaises
  <2> DEFINE Dies(d) == /\ pc \in {"send", "price", "insert"}
                        /\ lost' = lost \cup {d} /\ crashed' = {d}
                        /\ pc \in {"price", "insert"} => d = issued
                        /\ \A e \in Entries : e # d => held'[e] = held[e]
  <2>2. \E d \in {issued, issued + 1} : Dies(d)
    <3>1. CASE Crash
      <4>1. pc \in {"price", "insert"} BY <1>0, <1>2, <3>1 DEF Crash
      <4>2. Dies(issued) BY <1>2, <3>1, <4>1 DEF Crash
      <4> QED BY <4>2
    <3>2. ASSUME NEW k \in 0 .. Qty, CrashInCall(k) PROVE Dies(issued + 1)
      <4>1. /\ pc = "send" /\ lost' = lost \cup {issued + 1}
            /\ crashed' = {issued + 1}
        BY <1>2, <3>2 DEF CrashInCall
      <4>2. \A e \in Entries : e # issued + 1 => held'[e] = held[e]
        BY <1>0, <3>2 DEF CrashInCall, Buy, TypeOK
      <4> QED BY <4>1, <4>2
    <3>3. ~Restart BY <1>0, <1>2 DEF Restart, broker
    <3> QED BY <2>1, <3>1, <3>2, <3>3 DEF Process
  <2>3. PICK d \in {issued, issued + 1} : Dies(d) BY <2>2
  <2>4. \A e \in Entries \ lost : held[e] > 0 => e = issued /\ pc \in {"price", "insert"}
    BY <1>0, <1>2, <2>3, OneHeld
  <2>5. \A e \in Entries \ (lost' \ crashed') : held'[e] > 0 => e = d
    BY <2>3, <2>4
  <2> QED BY <2>5 DEF Solo
<1> QED BY <1>1, <1>2

-----------------------------------------------------------------------------
(* The theorems about the entry state.                                     *)

\* The second invariant: attempts are marked and seen, dead ones block, and one
\* row is open at most.
THEOREM EntryInvariance == Spec => []EntryInv
<1>1. Init => EntryInv
  <2> SUFFICES ASSUME Init PROVE EntryInv OBVIOUS
  <2>1. OpenRows = {} BY DEF Init, OpenRows, Open, NoRows, NoRow
  <2> QED
    BY <2>1 DEF Init, EntryInv, AttemptSeen, Reading, AttemptMarked, DeadAttempt,
       Refreshing, OneOpen
<1>2. IInv /\ EntryInv /\ [Next]_vars => EntryInv'
  <2> SUFFICES ASSUME IInv, EntryInv, [Next]_vars PROVE EntryInv' OBVIOUS
  <2>1. CASE Next
    <3>1. AttemptSeen' /\ AttemptMarked' /\ DeadAttempt' /\ Refreshing'
      BY <2>1, AttemptSeenStep, AttemptMarkedStep, DeadAttemptStep, RefreshingStep
         DEF EntryInv
    <3> QED BY <2>1, <3>1, OneOpenStep, CrashSoloStep DEF EntryInv
  <2>2. CASE UNCHANGED vars
    BY <2>2 DEF vars, EntryInv, AttemptSeen, Reading, AttemptMarked, DeadAttempt,
       Refreshing, OneOpen, OpenRows, Solo
  <2> QED BY <2>1, <2>2
<1> QED BY <1>1, <1>2, Invariance, PTL DEF Spec

\* An order that died with the worker keeps blocking entries, unless a start that
\* saw an earlier failure took the mark back: the state is in the document, and
\* neither the restart nor a stale config clears it.
THEOREM DeadEntriesBlock == Spec => []CrashedEntryBlocks
<1>1. EntryInv => CrashedEntryBlocks BY DEF EntryInv, DeadAttempt, CrashedEntryBlocks
<1> QED BY <1>1, EntryInvariance, PTL

\* Only the engine resolves the entry it attempted, but for a start that read a
\* failure: whole-config writes and restarts carry the mark along.
THEOREM OutcomesAreOwn == Spec => OwnOutcome
<1>1. ASSUME IInv, EntryInv, [Next]_vars
      PROVE  [strat.entry = "attempted" /\ strat'.entry # "attempted"
                => \/ pc \in {"release", "refused", "settle", "fail"}
                   \/ \E r \in Requests : ClearsFailure(r)]_vars
  <2> SUFFICES ASSUME Next, strat.entry = "attempted", strat'.entry # "attempted"
               PROVE  \/ pc \in {"release", "refused", "settle", "fail"}
                      \/ \E r \in Requests : ClearsFailure(r)
    BY <1>1
  <2>0. TypeOK /\ AttemptSeen BY <1>1 DEF IInv, EntryInv
  <2>1. CASE Load \/ ExitRound \/ NoEntry \/ EntryRaises \/ Claim
    BY <2>0, <2>1, ExitsKeepAttempt
  <2>2. CASE Sending
    BY <2>0, <2>2 DEF Sending, MarkAttempted, CheckCurrent, Release, BrokerRejects,
       SettleRefused, OrderRaises, PriceRaises, BuildRow, InsertRow, Settle,
       EntryFailed, BrokerAccepts, ReplyLost, TypeOK, Strategy
  <2>3. CASE Process BY <2>0, <2>3, ProcessKeepsAttempt
  <2>4. CASE Refresher \/ SweepFind \/ SweepPause
    BY <2>0, <2>4 DEF Refresher, Scan, RepairPosition, ReadStrategy, WriteBack, SkipRow,
       SweepFind, SweepPause, Lifecycle, TypeOK, Strategy
  <2>5. CASE Request
    <3>1. ASSUME NEW r \in Requests, CommitStart(r) PROVE ClearsFailure(r)
      <4>1. req[r].op = "start" /\ req[r].saw # "none" /\ req'[r] = NoReq
        BY <2>0, <3>1 DEF CommitStart, Lifecycle, SetReq, TypeOK, Strategy
      <4>2. req[r] \in Pending BY <2>0 DEF TypeOK
      <4>3. req[r].saw \in FailedEntry BY <4>1, <4>2 DEF Pending
      <4> QED BY <4>1, <4>3 DEF ClearsFailure
    <3>2. ASSUME NEW r \in Requests,
                 \/ Retire(r, "stop", "paused") \/ Retire(r, "delete", "closed")
                 \/ MarkExit(r) \/ ReadToStart(r) \/ ReadToEdit(r) \/ CommitEdit(r)
                 \/ RequestDies(r)
          PROVE  FALSE
      BY <2>0, <3>2 DEF Retire, MarkExit, ReadToStart, ReadToEdit, CommitEdit,
         RequestDies, Lifecycle, TypeOK, Strategy
    <3>3. ASSUME NEW e \in Entries, ExitPosition(e) PROVE FALSE
      BY <3>3 DEF ExitPosition
    <3> QED BY <2>5, <3>1, <3>2, <3>3 DEF Request
  <2> QED BY <2>1, <2>2, <2>3, <2>4, <2>5, EngineParts DEF Next
<1> QED BY <1>1, Invariance, EntryInvariance, PTL DEF Spec, OwnOutcome

\* The account holds one live entry order at most, those that died with the
\* worker counted, until a stale write undoes a newer one.
THEOREM ExposureIsSingle == Spec => []SingleExposure
<1>1. IInv /\ EntryInv => SingleExposure
  BY OneHeld DEF EntryInv, Solo, SingleExposure
<1> QED BY <1>1, Invariance, EntryInvariance, PTL
=============================================================================
