------------------------- MODULE FractalHedgeProofs -------------------------
(***************************************************************************)
(* Proofs about FractalHedge, for any numbers of legs, rows, orders,       *)
(* upsets and reopened rows, any accounts and any faults.                  *)
(*                                                                         *)
(* The invariant says of every copy of a row - the order loop's, the       *)
(* refresher's, the one in a postback - what it may still claim when it    *)
(* is written back over later steps: its order ids are orders of its legs, *)
(* what it calls complete was executed (Matched), an open copy has no      *)
(* exit in it (Fresh), and its legs are those of the row.  On these rest   *)
(* three arguments: a row is closed only over executed orders, by counting *)
(* (CloseHolds) or because every leg has an answer (SentHolds); the locks  *)
(* of an AliceBlue exit let one order through (OnceHolds); and as long as  *)
(* no old copy reopened a row, what the account holds belongs to the one   *)
(* open row, to the exit in hand or to the entry under way (OneHolds).     *)
(***************************************************************************)
EXTENDS FractalHedge, WellFoundedInduction, FiniteSetTheorems, TLAPS

-----------------------------------------------------------------------------
(* The inductive invariant.                                                *)

\* The order loop squares off a row of AliceBlue; it enters a hedge.
Exiting  == pc \in {"lock", "peek", "square_off", "limit", "check", "mark_failed"}
Entering == pc \in {"group", "attempt", "lock_entry", "buy", "mark_entry",
                    "refuse_entry", "quote", "insert"}

\* A step about a leg has one, and the refresher has a row to write back.
LegInRange ==
    /\ pc \in {"lock", "send"} => leg \in Legs \cup {0}
    /\ pc \in {"peek", "square_off", "limit", "check", "mark_failed",
               "buy", "mark_entry", "refuse_entry", "quote"} => leg \in Legs
    /\ pc = "lock_entry" => leg \in 1 .. NLegs + 1
    /\ rpc # "idle" => rtodo # {}

\* An exit order of leg l of hedge h was executed.
TradedIn(o, h, l) == \E i \in DOMAIN o : o[i].h = h /\ o[i].l = l /\ o[i].state = "traded"
Traded(h, l) == TradedIn(orders, h, l)

\* What a row, or a copy of one, says of the exit orders of its legs is true.
MatchedIn(o, h, r) ==
    \A l \in Legs :
        /\ r.id[l] > 0 => r.id[l] \in DOMAIN o /\ o[r.id[l]].h = h /\ o[r.id[l]].l = l
        /\ r.exit[l] = "complete" => TradedIn(o, h, l)
        /\ r.lock[l] = "complete" => TradedIn(o, h, l)
Matched(h, r) == MatchedIn(orders, h, r)

\* An open row has no exit.
Fresh(r) == r.status = "open" => \A l \in Legs : r.exit[l] = "none" /\ r.id[l] = 0

\* A copy is one of a row that is there, with the legs of that row.
CopyOf(h, r) == r.status # "none" => rows[h].status # "none" /\ r.legs = rows[h].legs

RowsHold ==
    /\ \A h \in Hedges : rows[h].status = "none" => rows[h] = NoRow
    /\ \A h \in Hedges : Matched(h, rows[h]) /\ Fresh(rows[h])
    /\ \A i \in DOMAIN orders : rows[orders[i].h].status # "none"
CopiesHold ==
    /\ \A h \in Hedges : Matched(h, copies[h]) /\ Fresh(copies[h]) /\ CopyOf(h, copies[h])
    /\ \A h \in todo : copies[h].status = "open"
RCopiesHold ==
    /\ \A h \in Hedges : Matched(h, rcopies[h]) /\ Fresh(rcopies[h]) /\ CopyOf(h, rcopies[h])
    /\ \A h \in rtodo : rcopies[h].status = "open"
PostbackHolds ==
    pb.at # "none" => /\ account.broker = "dhan" /\ rows[pb.h].status # "none"
                      /\ Matched(pb.h, pb.row)

\* What the order loop knows at each of its steps.
EngineHolds ==
    /\ Exiting => /\ account.broker = "aliceblue" /\ copies[cur].status = "exit_pending"
                  /\ leg # 0 => leg \in rows[cur].legs
                  /\ todo = {}
    /\ pc = "send" => /\ account.broker # "aliceblue" /\ copies[cur].status = "exit_pending"
                      /\ leg # 0 => leg \in rows[cur].legs
    /\ pc \in {"save_strategy", "save_row"} => copies[cur].status # "none"
    /\ pc = "save_strategy" => copies[cur].status # "open"
    /\ Entering => rows[cur].status = "none"
    /\ pc = "lock_entry" /\ leg <= NLegs => account.live
    /\ pc \in {"buy", "mark_entry", "refuse_entry", "quote"} => account.live

\* The account holds a leg once at most, and not after an executed exit; the
\* legs that an entry has still to come to are flat.
HeldHolds ==
    /\ \A h \in Hedges, l \in Legs : held[h][l] <= 1 /\ (Traded(h, l) => held[h][l] <= 0)
    /\ ~account.live => \A h \in Hedges, l \in Legs : held[h][l] <= 0
    /\ pc \in {"group", "attempt"} => \A l \in Legs : held[cur][l] <= 0
    /\ pc \in {"lock_entry", "buy"} => \A l \in Legs : l >= leg => held[cur][l] <= 0
    /\ pc \in {"mark_entry", "refuse_entry", "quote"} =>
          \A l \in Legs : l > leg => held[cur][l] <= 0

\* All legs of the row were executed; those after leg n that were.
AllTraded(h) == \A l \in rows[h].legs : Traded(h, l)
Executed(h, n) == {l \in rows[h].legs : l > n /\ Traded(h, l)}

\* Each leg has an order id or was refused at once.
Sent(h, r) == \A l \in rows[h].legs : r.exit[l] = "refused" \/ r.id[l] > 0
Exited == {"exit_pending", "exit_failed"}

\* What the loop counts as executed was, so a close speaks of executed legs.
CloseHolds ==
    /\ Exiting => tally.conf <= Cardinality(Executed(cur, leg))
    /\ \A h \in Hedges : copies[h].status = "close" => AllTraded(h) \/ ~account.live
    /\ \A h \in Hedges : rows[h].status = "close" =>
          \/ ~account.live
          \/ \A l \in rows[h].legs : Traded(h, l) \/ LeftByRefusal(h, l)

\* A row that Dhan exits is written when each of its legs has an answer, so a
\* postback that closes it has looked at each leg with an order.
SentHolds ==
    account.broker = "dhan" /\ account.live =>
        /\ \A h \in Hedges : rows[h].status \in Exited => Sent(h, rows[h])
        /\ pc \in {"save_strategy", "save_row"} /\ copies[cur].status \in Exited =>
              Sent(cur, copies[cur])
        /\ pc = "send" =>
              \A l \in rows[cur].legs :
                 l > leg => copies[cur].exit[l] = "refused" \/ copies[cur].id[l] > 0
        /\ pb.at = "row" => Sent(pb.h, pb.row)

OrdersIn(o, h, l) == {i \in DOMAIN o : o[i].h = h /\ o[i].l = l}
NoOrder(h, l) == OrdersOf(h, l) = {}
Alice == account.broker = "aliceblue"

\* An open row of AliceBlue has no exit order, and an exit none for the legs it
\* has still to come to: the first lock of a leg takes the row out of "open".
OnceHolds ==
    Alice =>
        /\ \A h \in Hedges \ reopened, l \in Legs : \A i, j \in OrdersOf(h, l) : i = j
        /\ \A h \in Hedges \ reopened : rows[h].status = "open" => \A l \in Legs : NoOrder(h, l)
        /\ \A h \in todo \ reopened : rows[h].status = "open"
        /\ cur \notin reopened =>
              /\ pc \in {"lock", "square_off", "limit"} => \A l \in Legs : l <= leg => NoOrder(cur, l)
              /\ pc \in {"peek", "check", "mark_failed"} =>
                    \A l \in Legs : l < leg => NoOrder(cur, l)
              /\ pc \in {"square_off", "limit"} => rows[cur].status # "open"

\* Nothing is held but legs of the row of h; nothing at all; nothing but what
\* this entry bought, the leg in hand counted or not.
Only(h) == \A g \in Hedges, l \in Legs : held[g][l] > 0 => g = h /\ l \in rows[h].legs
AllFlat == \A h \in Hedges : Flat(h)
Bought == \A g \in Hedges, l \in Legs : held[g][l] > 0 => g = cur /\ l \in tally.legs
BoughtOrInHand ==
    \A g \in Hedges, l \in Legs : held[g][l] > 0 => g = cur /\ (l \in tally.legs \/ l = leg)

\* Who owns what the account holds, step by step of the order loop.  The copy
\* of the strategy is out after an exit only if nothing is held.
OneLoop ==
    /\ Exiting \/ pc \in {"send", "save_strategy", "save_row"} => Only(cur)
    /\ pc \in {"snapshot", "look", "find"} => Open # {}
    /\ pc = "find" => mem.position = "in"
    /\ account.live /\ ~Alice
       /\ pc \in {"row", "send", "save_strategy", "save_row", "entry"} => mem.position = "in"
    /\ pc \in {"save_strategy", "save_row", "row", "entry"} /\ mem.position = "out" => AllFlat
    /\ Entering => Open = {} /\ (Alice \/ ~account.live)
    /\ pc \in {"group", "attempt"} => AllFlat
    /\ pc \in {"lock_entry", "buy", "refuse_entry", "insert"} => Bought
    /\ pc \in {"mark_entry", "quote"} => BoughtOrInHand

\* Who owns it whatever the loop does: an open row owns all of it.
OneRows ==
    /\ \A g, h \in Hedges : g # h => Flat(g) \/ Flat(h)
    /\ \A h \in Open \cup todo : Only(h) /\ rows[h].status = "open"
    /\ pb.at = "row" => rows[pb.h].status # "open"
    /\ ~Alice => \A h \in Hedges : rows[h].status = "none" => Flat(h)
OneHolds == reopened = {} => OneRows /\ OneLoop

IInv == /\ TypeOK /\ LegInRange /\ RowsHold /\ CopiesHold /\ RCopiesHold /\ PostbackHolds
        /\ EngineHolds /\ HeldHolds /\ CloseHolds /\ SentHolds /\ OnceHolds /\ OneHolds

-----------------------------------------------------------------------------
(* Numbers, sets and records.                                              *)

\* The numbers of the assumption, legs and hedges.
LEMMA HedgeFacts ==
  /\ NLegs \in Nat \ {0} /\ MaxHedges \in Nat \ {0} /\ MaxOrders \in Nat
  /\ MaxUpsets \in Nat /\ 1 \in Hedges /\ Hedges \subseteq Nat /\ Legs \subseteq Nat \ {0}
  /\ \A l \in Legs : l <= NLegs
BY HedgeAssumption DEF Hedges, Legs

\* The account is one of those the assumption allows.
LEMMA AccountFacts ==
  ASSUME TypeOK
  PROVE  /\ account.broker \in {"aliceblue", "dhan", "other"} /\ account.live \in BOOLEAN
         /\ account.usetype \in BOOLEAN /\ account.status \in {"opened", "paused", "closed"}
BY HedgeAssumption DEF TypeOK

\* A set of numbers that is not empty has a least one.
LEMMA LeastIn ==
  ASSUME NEW S \in SUBSET Nat, S # {}
  PROVE  \E n \in S : \A m \in S : n <= m
<1>. DEFINE R == OpToRel(<, Nat)
<1>1. \A x, y \in Nat : <<x, y>> \in R <=> x < y
  BY DEF OpToRel
<1>2. PICK n \in S : \A m \in S : ~(<<m, n>> \in R)
  BY WFMin, NatLessThanWellFounded
<1>. HIDE DEF R
<1>3. n \in Nat /\ \A m \in S : m \in Nat /\ ~(m < n)
  BY <1>1, <1>2
<1>. QED BY <1>3

\* The first row of a set that is not empty is one of it.
LEMMA FirstIn ==
  ASSUME NEW S \in SUBSET Hedges, S # {}
  PROVE  First(S) \in S
<1>1. \E n \in S : \A m \in S : n <= m
  BY LeastIn, HedgeFacts
<1>. QED BY <1>1 DEF First

\* A set of legs that is not empty has a greatest one.
LEMMA GreatestIn ==
  ASSUME NEW S \in SUBSET Legs, S # {}
  PROVE  \E n \in S : \A m \in S : m <= n
<1>. DEFINE T == {k \in 0 .. NLegs : NLegs - k \in S}
<1>1. \A l \in S : l \in Nat /\ l <= NLegs /\ NLegs - l \in T
  BY HedgeFacts
<1>2. PICK k \in T : \A m \in T : k <= m
  <2>1. T \in SUBSET Nat
    OBVIOUS
  <2>2. PICK l \in S : TRUE
    OBVIOUS
  <2>3. NLegs - l \in T
    BY <1>1
  <2>. HIDE DEF T
  <2>. QED BY <2>1, <2>3, LeastIn
<1>3. NLegs - k \in S /\ \A m \in S : m <= NLegs - k
  BY <1>1, <1>2, HedgeFacts
<1>. QED BY <1>3

\* The leg after n is the greatest of the row below n, or none is left.
LEMMA AfterIn ==
  ASSUME rows \in [Hedges -> Rows], NEW h \in Hedges, NEW n \in Int
  PROVE  /\ After(h, n) \in rows[h].legs \cup {0}
         /\ rows[h].legs \subseteq Legs
         /\ After(h, n) # 0 => After(h, n) < n
         /\ \A l \in rows[h].legs : l < n => l <= After(h, n)
<1>. DEFINE S == {l \in rows[h].legs : l < n}
<1>1. rows[h].legs \subseteq Legs
  BY DEF Rows
<1>2. CASE S = {}
  <2>1. After(h, n) = 0
    BY <1>2 DEF After
  <2>2. \A l \in rows[h].legs : ~(l < n)
    BY <1>2
  <2>. QED BY <1>1, <2>1, <2>2
<1>3. CASE S # {}
  <2>1. \E l \in S : \A k \in S : k <= l
    BY <1>1, <1>3, GreatestIn
  <2>2. After(h, n) = CHOOSE l \in S : \A k \in S : k <= l
    BY <1>3 DEF After
  <2>3. After(h, n) \in S /\ \A k \in S : k <= After(h, n)
    BY <2>1, <2>2
  <2>. QED BY <1>1, <2>3
<1>. QED BY <1>2, <1>3

\* The blank row, rows and strategy are well typed.
LEMMA BlankTyped == Absent \in [Legs -> LockStates] /\ Absent \in [Legs -> ExitStates]
                    /\ NoRow \in Rows /\ NoStrategy \in Strategies
                    /\ NoRows \in [Hedges -> Rows] /\ NoRow.status = "none"
                    /\ NoRow.legs = {} /\ NoRow.exit = Absent /\ NoRow.lock = Absent
                    /\ \A l \in Legs : NoRow.id[l] = 0
<1>1. Absent \in [Legs -> LockStates] /\ Absent \in [Legs -> ExitStates]
  BY DEF Absent, LockStates, ExitStates
<1>2. [l \in Legs |-> 0] \in [Legs -> 0 .. MaxOrders]
  BY HedgeFacts
<1>3. NoRow \in Rows
  BY <1>1, <1>2 DEF NoRow, Rows
<1>. QED BY <1>1, <1>3 DEF NoStrategy, Strategies, NoRows, NoRow

\* A row written whole is the copy, but for its locks when the copy has none.
LEMMA SetRowIs ==
  ASSUME NEW new \in Rows, NEW old \in Rows
  PROVE  /\ SetRow(new, old) \in Rows
         /\ SetRow(new, old).status = new.status /\ SetRow(new, old).legs = new.legs
         /\ SetRow(new, old).exit = new.exit /\ SetRow(new, old).id = new.id
         /\ SetRow(new, old).lock \in {new.lock, old.lock}
BY DEF SetRow, Rows

\* So is a strategy, but for the marks that the copy lacks.
LEMMA SetStrategyIs ==
  ASSUME NEW new \in Strategies, NEW old \in Strategies
  PROVE  /\ SetStrategy(new, old) \in Strategies
         /\ SetStrategy(new, old).entry = Over(new.entry, old.entry)
BY DEF SetStrategy, Strategies, Over

\* A postback closes a row or leaves its exit open.
LEMMA OutcomeIs == \A r : Outcome(r) \in {"close", "exit_failed", "exit_pending"}
BY DEF Outcome

-----------------------------------------------------------------------------
(* The strategy document and its copy.                                     *)

\* Every step leaves the strategy document well typed.
LEMMA StrategyStep ==
  ASSUME TypeOK, LegInRange, Next
  PROVE  strat' \in Strategies
<1>0. /\ strat \in Strategies /\ mem \in Strategies /\ req \in RequestsInHand
      /\ Absent \in [Legs -> LockStates]
  BY BlankTyped DEF TypeOK
<1>1. CASE \/ Dispatch \/ Snapshot \/ Look \/ Find
  BY <1>1, <1>0 DEF Dispatch, Others, Goto, Snapshot, Rest, Look, Find
<1>2. CASE SetOut
  BY <1>2, <1>0 DEF SetOut, Others, Goto, Rest, Strategies, LockStates
<1>3. CASE \/ KeepRow \/ ExitRow \/ AllRowsSeen \/ LockExitLeg \/ PeekLock
           \/ SquareOff \/ CheckExitOrder \/ MarkFailed
  BY <1>3, <1>0 DEF KeepRow, Others, Goto, ExitRow, AllRowsSeen, LockExitLeg,
     PeekLock, SquareOff, SquareOffPosition, SquareOffLimit, Accept, CallFails,
     Fails, CheckExitOrder, MarkFailed
<1>4. CASE EndAliceExit
  BY <1>4, <1>0 DEF EndAliceExit, Others, Goto, Strategies, LockStates
<1>5. CASE \/ SendExit \/ SendExitRaises \/ EndExit \/ SaveRow
  BY <1>5, <1>0 DEF SendExit, Others, Goto, Accept, CallFails, Fails,
     SendExitRaises, Rest, EndExit, SaveRow
<1>6. CASE SaveStrategy
  BY <1>6, <1>0, SetStrategyIs DEF SaveStrategy, Others, Goto, LockStates
<1>7. CASE \/ NoEntry \/ FindExisting \/ PlaceEntryOrder \/ EntryOrderRaises
           \/ QuoteLeg \/ InsertRow
  BY <1>7, <1>0 DEF NoEntry, Others, Goto, Rest, FindExisting, MayEnter,
     PlaceEntryOrder, Enter, EntryOrderRaises, QuoteLeg, NextEntryLeg,
     InsertRow, FindBeforeInsert, InsertNewRow
<1>8. CASE Blocked
  BY <1>8, <1>0 DEF Blocked, Others, Goto, Rest, MayEnter, Strategies,
     LockStates
<1>9. CASE SetIn
  BY <1>9, <1>0 DEF SetIn, Others, Goto, Rest, Strategies, LockStates
<1>10. CASE LockEntryGroup
  BY <1>10, <1>0 DEF LockEntryGroup, Others, Goto, Rest, Strategies,
     LockStates
<1>11. CASE Attempt
  BY <1>11, <1>0 DEF Attempt, Others, Goto, Strategies, LockStates
<1>12. CASE LockEntryLeg
  <2>1. \A s \in Strategies, l \in Legs : [s.locks EXCEPT ![l] = "submitting"] \in [Legs -> LockStates]
    BY DEF Strategies, LockStates
  <2>2. \A s \in Strategies, f \in [Legs -> LockStates] :
           [s EXCEPT !.locks = f, !.entry = "submitting"] \in Strategies
    BY DEF Strategies
  <2>3. leg \in Legs
    BY <1>12, HedgeFacts DEF LockEntryLeg, LegInRange, Legs
  <2>4. \/ strat' = strat
        \/ strat' = [strat EXCEPT !.locks = [strat.locks EXCEPT ![leg] = "submitting"],
                                  !.entry = "submitting"]
    BY <1>12, <1>0, <2>3 DEF LockEntryLeg, Strategies
  <2>5. [strat.locks EXCEPT ![leg] = "submitting"] \in [Legs -> LockStates]
    BY <1>0, <2>1, <2>3
  <2>6. [strat EXCEPT !.locks = [strat.locks EXCEPT ![leg] = "submitting"],
                      !.entry = "submitting"] \in Strategies
    BY <1>0, <2>2, <2>5
  <2>. QED BY <1>0, <2>4, <2>6
<1>13. CASE EntryAccepted
  BY <1>13, <1>0 DEF EntryAccepted, Others, Goto, MarkEntryLock, Strategies,
     LockStates
<1>14. CASE EntryRefused
  BY <1>14, <1>0 DEF EntryRefused, Others, Goto, NextEntryLeg, MarkEntryLock,
     Strategies, LockStates
<1>15. CASE SettleEntry
  BY <1>15, <1>0 DEF SettleEntry, Others, Goto, Rest, Strategies, LockStates
<1>16. CASE \/ Scan \/ WriteBack \/ (\E i \in DOMAIN orders : Fill(i))
            \/ (\E i \in DOMAIN orders : Reject(i))
  BY <1>16, <1>0 DEF Scan, Refreshing, WriteBack, Fill, Reject
<1>17. CASE RepairPosition
  BY <1>17, <1>0 DEF RepairPosition, Refreshing, Strategies, LockStates
<1>18. CASE \/ (\E i \in DOMAIN orders : ReadPostback(i)) \/ SavePostback
            \/ ReadRequest \/ Crash
  BY <1>18, <1>0 DEF ReadPostback, SavePostback, ReadRequest, ReadToStart,
     ReadToReset, ReadToEdit, Requesting, Upset, Crash
<1>19. CASE PostbackSettles
  BY <1>19, <1>0 DEF PostbackSettles, Strategies, LockStates
<1>20. CASE Retire
  BY <1>20, <1>0 DEF Retire, Requesting, Upset, Strategies, LockStates
<1>21. CASE CommitRequest
  <2>1. PICK s \in {"opened", "paused", "closed"}, p \in {"in", "out"},
             f \in {"none", strat.fire}, e \in {"none", strat.entry}, l \in {Absent, strat.locks} :
          \/ strat' = strat
          \/ strat' = [strat EXCEPT !.status = s, !.position = p, !.fire = f,
                                    !.entry = e, !.locks = l]
    <3>1. req.status \in {"opened", "paused", "closed"} /\ req.position \in {"in", "out"}
      BY <1>0 DEF RequestsInHand
    <3>2. strat \in Strategies
      BY <1>0
    <3>3. CASE \E c \in BOOLEAN : strat' = ResetTo(c)
      BY <3>1, <3>3 DEF ResetTo
    <3>4. CASE strat' = [strat EXCEPT !.status = req.status, !.position = req.position]
      <4>1. strat' = [strat EXCEPT !.status = req.status, !.position = req.position,
                !.fire = strat.fire, !.entry = strat.entry, !.locks = strat.locks]
        BY <3>2, <3>4 DEF Strategies
      <4>. QED BY <3>1, <4>1
    <3>5. CASE strat' = strat
      BY <3>5
    <3>. QED BY <1>21, <3>3, <3>4, <3>5 DEF CommitRequest, CommitReset, CommitEdit
  <2>2. /\ f \in {"none", "cleared", "attempted", "blocked"} /\ l \in [Legs -> LockStates]
        /\ e \in {"none", "cleared", "submitting", "submitted", "partial_failed", "broker_failed"}
    BY <1>0 DEF Strategies
  <2>3. [strat EXCEPT !.status = s, !.position = p, !.fire = f, !.entry = e, !.locks = l] \in Strategies
    BY <1>0, <2>2 DEF Strategies
  <2>. QED BY <1>0, <2>1, <2>3
<1>22. CASE Restart
  BY <1>22, <1>0 DEF Restart, Others, Goto, Strategies, LockStates
<1>. QED BY <1>1, <1>2, <1>3, <1>4, <1>5, <1>6, <1>7, <1>8, <1>9, <1>10,
   <1>11, <1>12, <1>13, <1>14, <1>15, <1>16, <1>17, <1>18, <1>19, <1>20,
   <1>21, <1>22 DEF Next, Round, Exit, Entry, Refresher, Market, Postback

\* Every step leaves the loop's copy of the strategy well typed.
LEMMA MemStep ==
  ASSUME TypeOK, LegInRange, Next
  PROVE  mem' \in Strategies
<1>0. /\ strat \in Strategies /\ mem \in Strategies /\ NoStrategy \in Strategies
  BY BlankTyped DEF TypeOK
<1>1. CASE \/ Dispatch \/ Find \/ SetOut
  BY <1>1, <1>0 DEF Dispatch, Others, Goto, Find, SetOut, Rest, engine
<1>2. CASE Snapshot
  BY <1>2, <1>0 DEF Snapshot, Others, Goto, Rest, Strategies, StatusAfter
<1>3. CASE Look
  BY <1>3, <1>0 DEF Look, Others, Goto, Strategies, StatusAfter
<1>4. CASE \/ KeepRow \/ AllRowsSeen \/ LockExitLeg \/ PeekLock \/ SquareOff
           \/ CheckExitOrder \/ MarkFailed \/ SendExit
  BY <1>4, <1>0 DEF KeepRow, Others, Goto, AllRowsSeen, LockExitLeg, PeekLock,
     SquareOff, SquareOffPosition, SquareOffLimit, Accept, CallFails, Fails,
     CheckExitOrder, MarkFailed, SendExit, engine
<1>5. CASE ExitRow
  BY <1>5, <1>0 DEF ExitRow, Others, Goto, Strategies, StatusAfter
<1>6. CASE EndAliceExit
  BY <1>6, <1>0 DEF EndAliceExit, Others, Goto, Strategies, StatusAfter
<1>7. CASE \/ SendExitRaises \/ SaveStrategy \/ SaveRow
  BY <1>7, <1>0 DEF SendExitRaises, Others, Goto, Rest, Accept, CallFails,
     Fails, SaveStrategy, SaveRow, engine
<1>8. CASE EndExit
  BY <1>8, <1>0 DEF EndExit, Others, Goto, Strategies, StatusAfter
<1>9. CASE \/ NoEntry \/ Blocked \/ FindExisting \/ SetIn \/ LockEntryGroup
           \/ Attempt \/ LockEntryLeg \/ PlaceEntryOrder
  BY <1>9, <1>0 DEF NoEntry, Others, Goto, Rest, Blocked, MayEnter,
     FindExisting, SetIn, LockEntryGroup, Attempt, LockEntryLeg, NextEntryLeg,
     PlaceEntryOrder, Enter, engine
<1>10. CASE \/ EntryOrderRaises \/ EntryAccepted \/ EntryRefused \/ QuoteLeg
            \/ InsertRow \/ SettleEntry
  BY <1>10, <1>0 DEF EntryOrderRaises, Others, Goto, Rest, Enter,
     EntryAccepted, MarkEntryLock, EntryRefused, NextEntryLeg, QuoteLeg,
     InsertRow, FindBeforeInsert, InsertNewRow, SettleEntry, engine
<1>11. CASE \/ Scan \/ RepairPosition \/ WriteBack
            \/ (\E i \in DOMAIN orders : Fill(i))
            \/ (\E i \in DOMAIN orders : Reject(i))
  BY <1>11, <1>0 DEF Scan, Refreshing, RepairPosition, WriteBack, Fill,
     Reject, engine
<1>12. CASE \/ (\E i \in DOMAIN orders : ReadPostback(i)) \/ SavePostback
            \/ PostbackSettles \/ Retire \/ ReadRequest \/ CommitRequest
            \/ Crash \/ Restart
  BY <1>12, <1>0 DEF ReadPostback, SavePostback, PostbackSettles, Retire,
     Requesting, Upset, ReadRequest, ReadToStart, ReadToReset, ReadToEdit,
     CommitRequest, CommitReset, ResetTo, Committing, CommitEdit, Crash,
     Restart, Others, Goto, engine
<1>. QED BY <1>1, <1>2, <1>3, <1>4, <1>5, <1>6, <1>7, <1>8, <1>9, <1>10,
   <1>11, <1>12 DEF Next, Round, Exit, Entry, Refresher, Market, Postback

-----------------------------------------------------------------------------
(* How each step writes rows.                                              *)

\* Every row but that of h is as before.
Rewrites(h) == rows' \in [Hedges -> Rows] /\ \A g \in Hedges : g # h => rows'[g] = rows[g]

\* What $set of a whole row leaves, and when it reopens the row.
LEMMA PutRowIs ==
  ASSUME TypeOK, NEW h \in Hedges, NEW copy \in Rows, PutRow(h, copy)
  PROVE  /\ Rewrites(h)
         /\ rows'[h].status = copy.status /\ rows'[h].legs = copy.legs
         /\ rows'[h].exit = copy.exit /\ rows'[h].id = copy.id
         /\ rows'[h].lock \in {copy.lock, rows[h].lock}
         /\ IF copy.status = "open" /\ rows[h].status # "open"
            THEN reopened' = reopened \cup {h} ELSE reopened' = reopened
<1>1. rows \in [Hedges -> Rows]
  BY DEF TypeOK
<1>2. rows' = [rows EXCEPT ![h] = SetRow(copy, rows[h])]
  BY DEF PutRow
<1>3. rows'[h] = SetRow(copy, rows[h]) /\ rows' \in [Hedges -> Rows]
      /\ \A g \in Hedges : g # h => rows'[g] = rows[g]
  BY <1>1, <1>2, SetRowIs
<1>4. IF copy.status = "open" /\ rows[h].status # "open"
      THEN reopened' = reopened \cup {h} ELSE reopened' = reopened
  BY DEF PutRow, Undoes
<1>. QED BY <1>1, <1>3, <1>4, SetRowIs DEF Rewrites

\* What the order loop writes at the end of a row.
LEMMA SaveRowIs ==
  ASSUME TypeOK, SaveRow
  PROVE  /\ Rewrites(cur) /\ cur \in Hedges /\ copies[cur] \in Rows
         /\ rows'[cur].status = copies[cur].status /\ rows'[cur].legs = copies[cur].legs
         /\ rows'[cur].exit = copies[cur].exit /\ rows'[cur].id = copies[cur].id
         /\ rows'[cur].lock \in {copies[cur].lock, rows[cur].lock}
         /\ IF copies[cur].status = "open" /\ rows[cur].status # "open"
            THEN reopened' = reopened \cup {cur} ELSE reopened' = reopened
<1>1. cur \in Hedges /\ copies[cur] \in Rows
  BY DEF TypeOK
<1>2. PutRow(cur, copies[cur])
  BY DEF SaveRow
<1>. QED BY <1>1, <1>2, PutRowIs

\* What the refresher writes back.
LEMMA WriteBackIs ==
  ASSUME TypeOK, LegInRange, WriteBack
  PROVE  LET h == First(rtodo) IN
         /\ h \in rtodo /\ h \in Hedges /\ rcopies[h] \in Rows
         /\ \/ rows' = rows /\ reopened' = reopened
            \/ /\ Rewrites(h)
               /\ rows'[h].status = rcopies[h].status /\ rows'[h].legs = rcopies[h].legs
               /\ rows'[h].exit = rcopies[h].exit /\ rows'[h].id = rcopies[h].id
               /\ rows'[h].lock \in {rcopies[h].lock, rows[h].lock}
               /\ IF rcopies[h].status = "open" /\ rows[h].status # "open"
                  THEN reopened' = reopened \cup {h} ELSE reopened' = reopened
<1>1. rtodo \in SUBSET Hedges /\ rtodo # {}
  BY DEF TypeOK, LegInRange, WriteBack
<1>2. First(rtodo) \in rtodo /\ First(rtodo) \in Hedges
  BY <1>1, FirstIn
<1>3. rcopies[First(rtodo)] \in Rows
  BY <1>2 DEF TypeOK
<1>4. PutRow(First(rtodo), rcopies[First(rtodo)]) \/ (rows' = rows /\ reopened' = reopened)
  BY DEF WriteBack
<1>5. CASE PutRow(First(rtodo), rcopies[First(rtodo)])
  <2>. DEFINE h == First(rtodo)
  <2>1. h \in Hedges /\ rcopies[h] \in Rows /\ PutRow(h, rcopies[h])
    BY <1>2, <1>3, <1>5
  <2>. HIDE DEF h
  <2>2. /\ Rewrites(h)
        /\ rows'[h].status = rcopies[h].status /\ rows'[h].legs = rcopies[h].legs
        /\ rows'[h].exit = rcopies[h].exit /\ rows'[h].id = rcopies[h].id
        /\ rows'[h].lock \in {rcopies[h].lock, rows[h].lock}
        /\ IF rcopies[h].status = "open" /\ rows[h].status # "open"
           THEN reopened' = reopened \cup {h} ELSE reopened' = reopened
    BY <2>1, PutRowIs
  <2>. QED BY <1>2, <1>3, <2>2 DEF h
<1>. QED BY <1>2, <1>3, <1>4, <1>5

\* A row with one lock changed.
LEMMA LockEdited ==
  ASSUME NEW r \in Rows, NEW l \in Legs, NEW x \in LockStates
  PROVE  LET f == [r.lock EXCEPT ![l] = x] IN
         /\ f \in [Legs -> LockStates]
         /\ [r EXCEPT !.lock = f] \in Rows
         /\ [r EXCEPT !.lock = f].status = r.status /\ [r EXCEPT !.lock = f].legs = r.legs
         /\ [r EXCEPT !.lock = f].exit = r.exit /\ [r EXCEPT !.lock = f].id = r.id
         /\ [r EXCEPT !.lock = f].lock = f
<1>. DEFINE f == [r.lock EXCEPT ![l] = x]
<1>1. f \in [Legs -> LockStates]
  BY DEF Rows
<1>. HIDE DEF f
<1>2. /\ [r EXCEPT !.lock = f] \in Rows
      /\ [r EXCEPT !.lock = f].status = r.status /\ [r EXCEPT !.lock = f].legs = r.legs
      /\ [r EXCEPT !.lock = f].exit = r.exit /\ [r EXCEPT !.lock = f].id = r.id
      /\ [r EXCEPT !.lock = f].lock = f
  BY <1>1 DEF Rows
<1>. QED BY <1>1, <1>2 DEF f

\* The lock of one leg is set in a row.
LEMMA LockSet ==
  ASSUME rows \in [Hedges -> Rows], NEW h \in Hedges, NEW l \in Legs, NEW x \in LockStates,
         rows' = [rows EXCEPT ![h].lock[l] = x]
  PROVE  /\ Rewrites(h)
         /\ rows'[h].status = rows[h].status /\ rows'[h].legs = rows[h].legs
         /\ rows'[h].exit = rows[h].exit /\ rows'[h].id = rows[h].id
         /\ rows'[h].lock = [rows[h].lock EXCEPT ![l] = x]
<1>. DEFINE f == [rows[h].lock EXCEPT ![l] = x]
            n == [rows[h] EXCEPT !.lock = f]
<1>1. rows[h] \in Rows /\ rows' = [rows EXCEPT ![h] = n]
  OBVIOUS
<1>2. /\ n \in Rows /\ n.status = rows[h].status /\ n.legs = rows[h].legs
      /\ n.exit = rows[h].exit /\ n.id = rows[h].id /\ n.lock = f
  BY <1>1, LockEdited
<1>. HIDE DEF n
<1>3. rows'[h] = n /\ Rewrites(h)
  BY <1>1, <1>2 DEF Rewrites
<1>. QED BY <1>2, <1>3

\* An exit leg is locked.
LEMMA LockTaken ==
  ASSUME rows \in [Hedges -> Rows], NEW h \in Hedges, NEW l \in Legs,
         rows' = [rows EXCEPT ![h].lock[l] = "submitting", ![h].status = "exit_pending"]
  PROVE  /\ Rewrites(h)
         /\ rows'[h].status = "exit_pending" /\ rows'[h].legs = rows[h].legs
         /\ rows'[h].exit = rows[h].exit /\ rows'[h].id = rows[h].id
         /\ rows'[h].lock = [rows[h].lock EXCEPT ![l] = "submitting"]
<1>. DEFINE f == [rows[h].lock EXCEPT ![l] = "submitting"]
            m == [rows[h] EXCEPT !.lock = f]
            n == [m EXCEPT !.status = "exit_pending"]
<1>1. rows[h] \in Rows /\ "submitting" \in LockStates
  BY DEF LockStates
<1>2. rows' = [rows EXCEPT ![h] = n]
  BY <1>1
<1>3. /\ m \in Rows /\ m.status = rows[h].status /\ m.legs = rows[h].legs
      /\ m.exit = rows[h].exit /\ m.id = rows[h].id /\ m.lock = f
  BY <1>1, LockEdited
<1>. HIDE DEF m
<1>4. /\ n \in Rows /\ n.status = "exit_pending" /\ n.legs = m.legs
      /\ n.exit = m.exit /\ n.id = m.id /\ n.lock = m.lock
  BY <1>3 DEF Rows, Unresolved
<1>. HIDE DEF n
<1>5. rows'[h] = n /\ Rewrites(h)
  BY <1>2, <1>4 DEF Rewrites
<1>. QED BY <1>3, <1>4, <1>5

\* What locking a leg, or marking its lock, does to the rows.
LEMMA LocksAre ==
  ASSUME TypeOK, LegInRange, LockExitLeg \/ CheckExitOrder \/ MarkFailed
  PROVE  \/ rows' = rows /\ LockExitLeg /\ pc' = "peek"
         \/ /\ Rewrites(cur) /\ cur \in Hedges /\ leg \in Legs
            /\ rows'[cur].legs = rows[cur].legs
            /\ rows'[cur].exit = rows[cur].exit /\ rows'[cur].id = rows[cur].id
            /\ \E x \in LockStates :
                  /\ rows'[cur].lock = [rows[cur].lock EXCEPT ![leg] = x]
                  /\ x = "complete" => CheckExitOrder /\ Traded(cur, leg)
            /\ IF LockExitLeg THEN rows'[cur].status = "exit_pending" /\ pc' = "square_off"
               ELSE rows'[cur].status = rows[cur].status
<1>1. rows \in [Hedges -> Rows] /\ cur \in Hedges
  BY DEF TypeOK
<1>2. leg \in Legs
  BY HedgeFacts DEF LegInRange, LockExitLeg, CheckExitOrder, MarkFailed, Legs
<1>3. {"submitting", "submitted", "complete", "failed"} \subseteq LockStates
  BY DEF LockStates
<1>4. CASE LockExitLeg
  <2>1. \/ rows' = rows /\ pc' = "peek"
        \/ /\ rows' = [rows EXCEPT ![cur].lock[leg] = "submitting", ![cur].status = "exit_pending"]
           /\ pc' = "square_off"
    BY <1>4 DEF LockExitLeg, Goto
  <2>2. ASSUME rows' = [rows EXCEPT ![cur].lock[leg] = "submitting", ![cur].status = "exit_pending"]
        PROVE  /\ Rewrites(cur)
               /\ rows'[cur].status = "exit_pending" /\ rows'[cur].legs = rows[cur].legs
               /\ rows'[cur].exit = rows[cur].exit /\ rows'[cur].id = rows[cur].id
               /\ rows'[cur].lock = [rows[cur].lock EXCEPT ![leg] = "submitting"]
    BY <1>1, <1>2, <2>2, LockTaken
  <2>. QED BY <1>1, <1>2, <1>3, <1>4, <2>1, <2>2
<1>5. CASE CheckExitOrder
  <2>1. PICK result \in {"submitted", "complete"} :
           /\ result = "complete" => \E i \in OrdersOf(cur, leg) : orders[i].state = "traded"
           /\ rows' = [rows EXCEPT ![cur].lock[leg] = result]
    BY <1>5 DEF CheckExitOrder
  <2>2. result = "complete" => Traded(cur, leg)
    BY <2>1 DEF OrdersOf, Traded, TradedIn
  <2>3. ~LockExitLeg
    BY <1>5 DEF CheckExitOrder, LockExitLeg
  <2>4. result \in LockStates
    BY <1>3
  <2>5. /\ Rewrites(cur)
        /\ rows'[cur].status = rows[cur].status /\ rows'[cur].legs = rows[cur].legs
        /\ rows'[cur].exit = rows[cur].exit /\ rows'[cur].id = rows[cur].id
        /\ rows'[cur].lock = [rows[cur].lock EXCEPT ![leg] = result]
    BY <1>1, <1>2, <2>1, <2>4, LockSet
  <2>. QED BY <1>1, <1>2, <1>5, <2>2, <2>3, <2>4, <2>5
<1>6. CASE MarkFailed
  <2>1. rows' = [rows EXCEPT ![cur].lock[leg] = "failed"] /\ ~LockExitLeg
    BY <1>6 DEF MarkFailed, LockExitLeg
  <2>. QED BY <1>1, <1>2, <1>3, <2>1, LockSet
<1>. QED BY <1>4, <1>5, <1>6

\* The row that the end of an entry inserts, if any.
LEMMA InsertRowIs ==
  ASSUME TypeOK, InsertRow
  PROVE  \/ rows' = rows
         \/ /\ Rewrites(cur) /\ cur \in Hedges /\ pc = "insert" /\ pc' = "settle"
            /\ rows'[cur].status = "open" /\ rows'[cur].legs = tally.legs
            /\ \A l \in Legs : /\ rows'[cur].exit[l] = "none" /\ rows'[cur].id[l] = 0
                               /\ rows'[cur].lock[l] = "none"
<1>1. rows \in [Hedges -> Rows] /\ cur \in Hedges /\ tally.legs \in SUBSET Legs
  BY DEF TypeOK
<1>2. \/ rows' = rows
      \/ rows' = [rows EXCEPT ![cur] = NewRow(tally.legs)] /\ pc = "insert" /\ pc' = "settle"
  BY DEF InsertRow, FindBeforeInsert, InsertNewRow, Goto
<1>3. \A s \in SUBSET Legs : /\ NewRow(s) \in Rows /\ NewRow(s).status = "open" /\ NewRow(s).legs = s
                             /\ NewRow(s).exit = NoRow.exit /\ NewRow(s).id = NoRow.id
                             /\ NewRow(s).lock = NoRow.lock
  BY BlankTyped DEF NewRow, Rows, Unresolved
<1>4. \A l \in Legs : NoRow.exit[l] = "none" /\ NoRow.lock[l] = "none" /\ NoRow.id[l] = 0
  BY BlankTyped DEF Absent
<1>. QED BY <1>1, <1>2, <1>3, <1>4 DEF Rewrites

\* What a postback writes.
LEMMA SavePostbackIs ==
  ASSUME TypeOK, SavePostback
  PROVE  /\ Rewrites(pb.h) /\ pb.h \in Hedges /\ pb.row \in Rows
         /\ rows'[pb.h].status = Outcome(pb.row) /\ rows'[pb.h].legs = rows[pb.h].legs
         /\ rows'[pb.h].exit = pb.row.exit /\ rows'[pb.h].id = pb.row.id
         /\ rows'[pb.h].lock = rows[pb.h].lock
<1>1. rows \in [Hedges -> Rows] /\ pb.h \in Hedges /\ pb.row \in Rows
  BY DEF TypeOK
<1>2. rows' = [rows EXCEPT ![pb.h].exit = pb.row.exit, ![pb.h].id = pb.row.id,
                           ![pb.h].status = Outcome(pb.row)]
  BY DEF SavePostback
<1>. DEFINE a == [rows[pb.h] EXCEPT !.exit = pb.row.exit]
            b == [a EXCEPT !.id = pb.row.id]
            n == [b EXCEPT !.status = Outcome(pb.row)]
<1>3. rows' = [rows EXCEPT ![pb.h] = n]
  BY <1>1, <1>2
<1>4. pb.row.exit \in [Legs -> ExitStates] /\ pb.row.id \in [Legs -> 0 .. MaxOrders]
  BY <1>1 DEF Rows
<1>5. Outcome(pb.row) \in Unresolved \cup {"none", "close"} /\ rows[pb.h] \in Rows
  BY <1>1, OutcomeIs DEF Unresolved
<1>6. /\ a \in Rows /\ a.status = rows[pb.h].status /\ a.legs = rows[pb.h].legs
      /\ a.exit = pb.row.exit /\ a.lock = rows[pb.h].lock
  BY <1>4, <1>5 DEF Rows
<1>. HIDE DEF a
<1>7. /\ b \in Rows /\ b.status = a.status /\ b.legs = a.legs
      /\ b.exit = a.exit /\ b.id = pb.row.id /\ b.lock = a.lock
  BY <1>4, <1>6 DEF Rows
<1>. HIDE DEF b
<1>8. /\ n \in Rows /\ n.status = Outcome(pb.row) /\ n.legs = b.legs
      /\ n.exit = b.exit /\ n.id = b.id /\ n.lock = b.lock
  BY <1>5, <1>7 DEF Rows
<1>. HIDE DEF n
<1>9. Rewrites(pb.h) /\ rows'[pb.h] = n
  BY <1>1, <1>3, <1>8 DEF Rewrites
<1>. QED BY <1>1, <1>6, <1>7, <1>8, <1>9

-----------------------------------------------------------------------------
(* Orders, and what the account holds.                                     *)

\* An order is accepted, or the exchange answers one, or the orders stay.
LEMMA OrderStep ==
  ASSUME LegInRange, Next
  PROVE  \/ orders' = orders
         \/ pc \in {"square_off", "limit", "send"} /\ leg > 0 /\ Accept
         \/ \E i \in DOMAIN orders : Fill(i) \/ Reject(i)
<1>1. CASE \/ Dispatch \/ Snapshot \/ Look \/ Find \/ SetOut
  BY <1>1 DEF Dispatch, Others, Goto, Snapshot, Rest, Look, Find, SetOut,
     market
<1>2. CASE \/ KeepRow \/ ExitRow \/ AllRowsSeen \/ LockExitLeg \/ PeekLock
           \/ CheckExitOrder \/ MarkFailed \/ EndAliceExit
  BY <1>2 DEF KeepRow, Others, Goto, ExitRow, AllRowsSeen, LockExitLeg,
     PeekLock, CheckExitOrder, MarkFailed, EndAliceExit, market
<1>3. CASE SquareOff
  BY <1>3, HedgeFacts DEF SquareOff, SquareOffPosition, SquareOffLimit, Others,
     Goto, Accept, CallFails, Fails, LegInRange, Legs
<1>4. CASE SendExit
  BY <1>4 DEF SendExit, Others, Goto, Accept, CallFails, Fails
<1>5. CASE SendExitRaises
  BY <1>5 DEF SendExitRaises, Others, Goto, Rest, Accept, CallFails, Fails
<1>6. CASE \/ EndExit \/ SaveStrategy \/ SaveRow
  BY <1>6 DEF EndExit, Others, Goto, SaveStrategy, SaveRow, market
<1>7. CASE \/ NoEntry \/ Blocked \/ FindExisting \/ SetIn \/ LockEntryGroup
           \/ Attempt \/ LockEntryLeg \/ PlaceEntryOrder
  BY <1>7 DEF NoEntry, Others, Goto, Rest, Blocked, MayEnter, FindExisting,
     SetIn, LockEntryGroup, Attempt, LockEntryLeg, NextEntryLeg,
     PlaceEntryOrder, Enter, market
<1>8. CASE \/ EntryOrderRaises \/ EntryAccepted \/ EntryRefused \/ QuoteLeg
           \/ InsertRow \/ SettleEntry
  BY <1>8 DEF EntryOrderRaises, Others, Goto, Rest, Enter, EntryAccepted,
     MarkEntryLock, EntryRefused, NextEntryLeg, QuoteLeg, InsertRow,
     FindBeforeInsert, InsertNewRow, SettleEntry, market
<1>9. CASE \/ Scan \/ RepairPosition \/ WriteBack
  BY <1>9 DEF Scan, Refreshing, RepairPosition, WriteBack, market
<1>10. CASE \/ (\E i \in DOMAIN orders : Fill(i))
            \/ (\E i \in DOMAIN orders : Reject(i))
  BY <1>10 DEF Fill, Reject
<1>11. CASE \/ (\E i \in DOMAIN orders : ReadPostback(i)) \/ SavePostback
            \/ PostbackSettles \/ Retire \/ ReadRequest \/ CommitRequest
            \/ Restart
  BY <1>11 DEF ReadPostback, SavePostback, PostbackSettles, Retire, Requesting,
     Upset, ReadRequest, ReadToStart, ReadToReset, ReadToEdit, CommitRequest,
     CommitReset, ResetTo, Committing, CommitEdit, Restart, Others, Goto, market
<1>12. CASE Crash
  BY <1>12 DEF Crash, Upset, Accept
<1>. QED BY <1>1, <1>2, <1>3, <1>4, <1>5, <1>6, <1>7, <1>8, <1>9, <1>10,
   <1>11, <1>12 DEF Next, Round, Exit, Entry, Refresher, Market, Postback

\* A leg is bought, or an exit order is executed, or the account stays.
LEMMA HeldStep ==
  ASSUME Next
  PROVE  \/ held' = held
         \/ pc = "buy" /\ Enter
         \/ \E i \in DOMAIN orders : Fill(i)
<1>1. CASE \/ Dispatch \/ Snapshot \/ Look \/ Find \/ SetOut
  BY <1>1 DEF Dispatch, Others, Goto, Snapshot, Rest, Look, Find, SetOut,
     market
<1>2. CASE \/ KeepRow \/ ExitRow \/ AllRowsSeen \/ LockExitLeg \/ PeekLock
           \/ SquareOff \/ CheckExitOrder \/ MarkFailed
  BY <1>2 DEF KeepRow, Others, Goto, ExitRow, AllRowsSeen, LockExitLeg,
     PeekLock, SquareOff, SquareOffPosition, SquareOffLimit, Accept, CallFails,
     Fails, CheckExitOrder, MarkFailed, market
<1>3. CASE \/ EndAliceExit \/ SendExit \/ SendExitRaises \/ EndExit
           \/ SaveStrategy \/ SaveRow
  BY <1>3 DEF EndAliceExit, Others, Goto, SendExit, Accept, CallFails, Fails,
     SendExitRaises, Rest, EndExit, SaveStrategy, SaveRow, market
<1>4. CASE \/ NoEntry \/ Blocked \/ FindExisting \/ SetIn \/ LockEntryGroup
           \/ Attempt \/ LockEntryLeg \/ EntryAccepted
  BY <1>4 DEF NoEntry, Others, Goto, Rest, Blocked, MayEnter, FindExisting,
     SetIn, LockEntryGroup, Attempt, LockEntryLeg, NextEntryLeg,
     EntryAccepted, MarkEntryLock, market
<1>5. CASE PlaceEntryOrder
  BY <1>5 DEF PlaceEntryOrder, Others, Goto, Enter
<1>6. CASE EntryOrderRaises
  BY <1>6 DEF EntryOrderRaises, Others, Goto, Rest, Enter
<1>7. CASE \/ EntryRefused \/ QuoteLeg \/ InsertRow \/ SettleEntry
  BY <1>7 DEF EntryRefused, Others, Goto, NextEntryLeg, MarkEntryLock,
     QuoteLeg, Rest, InsertRow, FindBeforeInsert, InsertNewRow, SettleEntry, market
<1>8. CASE \/ Scan \/ RepairPosition \/ WriteBack
           \/ (\E i \in DOMAIN orders : Reject(i))
  BY <1>8 DEF Scan, Refreshing, RepairPosition, WriteBack, Reject, market
<1>9. CASE \E i \in DOMAIN orders : Fill(i)
  BY <1>9 DEF Fill
<1>10. CASE \/ (\E i \in DOMAIN orders : ReadPostback(i)) \/ SavePostback
            \/ PostbackSettles \/ Retire \/ ReadRequest \/ CommitRequest
            \/ Restart
  BY <1>10 DEF ReadPostback, SavePostback, PostbackSettles, Retire, Requesting,
     Upset, ReadRequest, ReadToStart, ReadToReset, ReadToEdit, CommitRequest,
     CommitReset, ResetTo, Committing, CommitEdit, Restart, Others, Goto, market
<1>11. CASE Crash
  BY <1>11 DEF Crash, Upset, Enter
<1>. QED BY <1>1, <1>2, <1>3, <1>4, <1>5, <1>6, <1>7, <1>8, <1>9, <1>10, <1>11
   DEF Next, Round, Exit, Entry, Refresher, Market, Postback

\* The sequence of orders with one more.
LEMMA AppendIs ==
  ASSUME NEW s \in Seq(Orders), NEW x \in Orders
  PROVE  /\ Append(s, x) \in Seq(Orders) /\ Len(Append(s, x)) = Len(s) + 1
         /\ \A i \in 1 .. Len(s) : Append(s, x)[i] = s[i]
         /\ Append(s, x)[Len(s) + 1] = x
         /\ DOMAIN s = 1 .. Len(s) /\ DOMAIN Append(s, x) = 1 .. Len(s) + 1 /\ Len(s) \in Nat
OBVIOUS

\* An answer of the exchange changes the state of one order.
LEMMA StateSet ==
  ASSUME orders \in Seq(Orders), NEW i \in DOMAIN orders, NEW x \in {"traded", "rejected"},
         orders' = [orders EXCEPT ![i].state = x]
  PROVE  /\ orders' \in Seq(Orders) /\ Len(orders') = Len(orders) /\ DOMAIN orders' = DOMAIN orders
         /\ \A k \in DOMAIN orders : orders'[k].h = orders[k].h /\ orders'[k].l = orders[k].l
         /\ \A k \in DOMAIN orders : k # i => orders'[k].state = orders[k].state
         /\ orders'[i].state = x
<1>. DEFINE r == [orders[i] EXCEPT !.state = x]
<1>0. orders' = [orders EXCEPT ![i] = r]
  OBVIOUS
<1>1. orders[i] \in Orders /\ DOMAIN orders = 1 .. Len(orders) /\ Len(orders) \in Nat
  OBVIOUS
<1>2. r \in Orders /\ r.h = orders[i].h /\ r.l = orders[i].l /\ r.state = x
  BY <1>1 DEF Orders
<1>. HIDE DEF r
<1>3. orders' \in Seq(Orders) /\ Len(orders') = Len(orders) /\ DOMAIN orders' = DOMAIN orders
  BY <1>0, <1>1, <1>2
<1>4. orders'[i] = r /\ \A k \in DOMAIN orders : k # i => orders'[k] = orders[k]
  BY <1>0, <1>1
<1>5. /\ \A k \in DOMAIN orders : orders'[k].h = orders[k].h /\ orders'[k].l = orders[k].l
      /\ \A k \in DOMAIN orders : k # i => orders'[k].state = orders[k].state
      /\ orders'[i].state = x
  BY <1>2, <1>4
<1>. QED BY <1>3, <1>5

\* How a step changes the orders: none is lost or moved to another leg, an
\* executed one stays executed, a new one is that of the leg in hand.
LEMMA OrdersGrow ==
  ASSUME TypeOK, LegInRange, Next
  PROVE  /\ orders' \in Seq(Orders) /\ Len(orders') <= MaxOrders
         /\ DOMAIN orders = 1 .. Len(orders) /\ Len(orders) \in 0 .. MaxOrders
         /\ \A i \in DOMAIN orders : /\ i \in DOMAIN orders'
                                     /\ orders'[i].h = orders[i].h /\ orders'[i].l = orders[i].l
                                     /\ orders[i].state = "traded" => orders'[i].state = "traded"
         /\ \A i \in DOMAIN orders' \ DOMAIN orders :
               /\ pc \in {"square_off", "limit", "send"} /\ leg \in Legs /\ i = Len(orders) + 1
               /\ Len(orders) < MaxOrders
               /\ orders'[i].h = cur /\ orders'[i].l = leg /\ orders'[i].state = "working"
         /\ \A i \in DOMAIN orders : orders'[i].state = "traded" => orders[i].state = "traded" \/ Fill(i)
<1>1. orders \in Seq(Orders) /\ Len(orders) <= MaxOrders /\ DOMAIN orders = 1 .. Len(orders)
      /\ Len(orders) \in Nat /\ MaxOrders \in Nat /\ cur \in Hedges
  BY HedgeFacts DEF TypeOK
<1>2. CASE orders' = orders
  BY <1>1, <1>2
<1>3. CASE pc \in {"square_off", "limit", "send"} /\ leg > 0 /\ Accept
  <2>1. leg \in Legs
    BY <1>3, HedgeFacts DEF LegInRange, Legs
  <2>. DEFINE x == [h |-> cur, l |-> leg, state |-> "working"]
  <2>2. x \in Orders /\ x.h = cur /\ x.l = leg /\ x.state = "working"
    BY <1>1, <2>1 DEF Orders
  <2>3. orders' = Append(orders, x) /\ Len(orders) < MaxOrders
    BY <1>3 DEF Accept
  <2>. HIDE DEF x
  <2>. QED BY <1>1, <1>3, <2>1, <2>2, <2>3, AppendIs
<1>4. ASSUME NEW i \in DOMAIN orders, Fill(i) \/ Reject(i)
      PROVE  /\ orders' \in Seq(Orders) /\ Len(orders') = Len(orders) /\ DOMAIN orders' = DOMAIN orders
             /\ \A k \in DOMAIN orders : orders'[k].h = orders[k].h /\ orders'[k].l = orders[k].l
             /\ \A k \in DOMAIN orders : k # i => orders'[k].state = orders[k].state
             /\ orders'[i].state = "traded" => Fill(i)
             /\ orders[i].state = "working"
  <2>1. PICK x \in {"traded", "rejected"} :
           orders' = [orders EXCEPT ![i].state = x] /\ (x = "traded" => Fill(i)) /\ orders[i].state = "working"
    BY <1>4 DEF Fill, Reject
  <2>2. orders \in Seq(Orders)
    BY <1>1
  <2>3. /\ orders' \in Seq(Orders) /\ Len(orders') = Len(orders) /\ DOMAIN orders' = DOMAIN orders
        /\ \A k \in DOMAIN orders : orders'[k].h = orders[k].h /\ orders'[k].l = orders[k].l
        /\ \A k \in DOMAIN orders : k # i => orders'[k].state = orders[k].state
        /\ orders'[i].state = x
    BY <2>1, <2>2, StateSet
  <2>. QED BY <2>1, <2>3
<1>5. CASE \E i \in DOMAIN orders : Fill(i) \/ Reject(i)
  BY <1>1, <1>4, <1>5
<1>. QED BY <1>2, <1>3, <1>5, OrderStep

\* An executed exit order takes one contract of its leg.
LEMMA FillIs ==
  ASSUME TypeOK, NEW i \in DOMAIN orders, Fill(i)
  PROVE  LET h == orders[i].h IN LET l == orders[i].l IN
         /\ h \in Hedges /\ l \in Legs
         /\ held' \in [Hedges -> [Legs -> Int]] /\ held'[h][l] = held[h][l] - 1
         /\ \A g \in Hedges, k \in Legs : g # h \/ k # l => held'[g][k] = held[g][k]
<1>1. held \in [Hedges -> [Legs -> Int]] /\ orders \in Seq(Orders)
  BY DEF TypeOK
<1>2. orders[i] \in Orders
  BY <1>1
<1>3. orders[i].h \in Hedges /\ orders[i].l \in Legs
  BY <1>2 DEF Orders
<1>4. held' = [held EXCEPT ![orders[i].h][orders[i].l] = @ - 1]
  BY DEF Fill
<1>. QED BY <1>1, <1>3, <1>4

\* How a step changes what the account holds: it buys the leg in hand, or it
\* holds no more than before.
LEMMA HeldIs ==
  ASSUME TypeOK, LegInRange, Next
  PROVE  /\ held' \in [Hedges -> [Legs -> Int]]
         /\ \A h \in Hedges, l \in Legs :
               \/ held'[h][l] <= held[h][l]
               \/ pc = "buy" /\ h = cur /\ l = leg /\ held'[h][l] = held[h][l] + 1
<1>1. held \in [Hedges -> [Legs -> Int]] /\ cur \in Hedges
  BY DEF TypeOK
<1>2. CASE held' = held
  BY <1>1, <1>2
<1>3. CASE pc = "buy" /\ Enter
  <2>1. leg \in Legs /\ held' = [held EXCEPT ![cur][leg] = @ + 1]
    BY <1>3 DEF LegInRange, Enter
  <2>. QED BY <1>1, <1>3, <2>1
<1>4. CASE \E i \in DOMAIN orders : Fill(i)
  <2>1. PICK i \in DOMAIN orders : Fill(i)
    BY <1>4
  <2>. QED BY <1>1, <2>1, FillIs
<1>. QED BY <1>2, <1>3, <1>4, HeldStep

\* Every step leaves the rows well typed.
LEMMA RowsStep ==
  ASSUME TypeOK, LegInRange, Next
  PROVE  rows' \in [Hedges -> Rows]
<1>0. rows \in [Hedges -> Rows]
  BY DEF TypeOK
<1>1. CASE \/ Dispatch \/ Snapshot \/ Look \/ Find \/ SetOut
  BY <1>1, <1>0 DEF Dispatch, Others, Goto, Snapshot, Rest, Look, Find,
     SetOut, market
<1>2. CASE \/ KeepRow \/ ExitRow \/ AllRowsSeen \/ PeekLock \/ SquareOff
           \/ EndAliceExit \/ SendExit \/ SendExitRaises
  BY <1>2, <1>0 DEF KeepRow, Others, Goto, ExitRow, AllRowsSeen, PeekLock,
     SquareOff, SquareOffPosition, SquareOffLimit, Accept, CallFails, Fails,
     EndAliceExit, SendExit, SendExitRaises, Rest, market
<1>3. CASE \/ LockExitLeg \/ CheckExitOrder \/ MarkFailed
  BY <1>3, <1>0, LocksAre DEF Rewrites
<1>4. CASE \/ EndExit \/ SaveStrategy
  BY <1>4, <1>0 DEF EndExit, Others, Goto, SaveStrategy, market
<1>5. CASE SaveRow
  BY <1>5, SaveRowIs DEF Rewrites
<1>6. CASE \/ NoEntry \/ Blocked \/ FindExisting \/ SetIn \/ LockEntryGroup
           \/ Attempt \/ LockEntryLeg \/ PlaceEntryOrder
  BY <1>6, <1>0 DEF NoEntry, Others, Goto, Rest, Blocked, MayEnter,
     FindExisting, SetIn, LockEntryGroup, Attempt, LockEntryLeg, NextEntryLeg,
     PlaceEntryOrder, Enter, market
<1>7. CASE \/ EntryOrderRaises \/ EntryAccepted \/ EntryRefused \/ QuoteLeg
           \/ SettleEntry
  BY <1>7, <1>0 DEF EntryOrderRaises, Others, Goto, Rest, Enter,
     EntryAccepted, MarkEntryLock, EntryRefused, NextEntryLeg, QuoteLeg,
     SettleEntry, market
<1>8. CASE InsertRow
  BY <1>8, <1>0, InsertRowIs DEF Rewrites
<1>9. CASE \/ Scan \/ RepairPosition \/ (\E i \in DOMAIN orders : Fill(i))
           \/ (\E i \in DOMAIN orders : Reject(i))
  BY <1>9, <1>0 DEF Scan, Refreshing, RepairPosition, Fill, Reject, market
<1>10. CASE WriteBack
  BY <1>10, <1>0, WriteBackIs DEF Rewrites
<1>11. CASE \/ (\E i \in DOMAIN orders : ReadPostback(i)) \/ PostbackSettles
            \/ Retire \/ ReadRequest \/ CommitRequest \/ Crash \/ Restart
  BY <1>11, <1>0 DEF ReadPostback, PostbackSettles, Retire, Requesting, Upset,
     ReadRequest, ReadToStart, ReadToReset, ReadToEdit, CommitRequest,
     CommitReset, ResetTo, Committing, CommitEdit, Crash, Restart, Others, Goto,
     market
<1>12. CASE SavePostback
  BY <1>12, SavePostbackIs DEF Rewrites
<1>. QED BY <1>1, <1>2, <1>3, <1>4, <1>5, <1>6, <1>7, <1>8, <1>9, <1>10,
   <1>11, <1>12 DEF Next, Round, Exit, Entry, Refresher, Market, Postback

-----------------------------------------------------------------------------
(* How each step writes the copies.                                        *)

\* Every copy but that of h is as before.
Recopies(h) == copies' \in [Hedges -> Rows] /\ \A g \in Hedges : g # h => copies'[g] = copies[g]

\* The status of one copy is set.
LEMMA CopyStatusSet ==
  ASSUME copies \in [Hedges -> Rows], NEW h \in Hedges, NEW s \in Unresolved \cup {"none", "close"},
         copies' = [copies EXCEPT ![h].status = s]
  PROVE  /\ Recopies(h)
         /\ copies'[h].status = s /\ copies'[h].legs = copies[h].legs
         /\ copies'[h].exit = copies[h].exit /\ copies'[h].id = copies[h].id
         /\ copies'[h].lock = copies[h].lock
<1>. DEFINE n == [copies[h] EXCEPT !.status = s]
<1>1. copies[h] \in Rows /\ copies' = [copies EXCEPT ![h] = n]
  OBVIOUS
<1>2. /\ n \in Rows /\ n.status = s /\ n.legs = copies[h].legs
      /\ n.exit = copies[h].exit /\ n.id = copies[h].id /\ n.lock = copies[h].lock
  BY <1>1 DEF Rows
<1>. HIDE DEF n
<1>3. copies'[h] = n /\ Recopies(h)
  BY <1>1, <1>2 DEF Recopies
<1>. QED BY <1>2, <1>3

\* The exit of one leg is set in a copy.
LEMMA CopyLegSet ==
  ASSUME copies \in [Hedges -> Rows], NEW h \in Hedges, NEW l \in Legs, NEW x \in ExitStates,
         NEW d \in 0 .. MaxOrders,
         copies' = [copies EXCEPT ![h].exit[l] = x, ![h].id[l] = d]
  PROVE  /\ Recopies(h)
         /\ copies'[h].status = copies[h].status /\ copies'[h].legs = copies[h].legs
         /\ copies'[h].exit = [copies[h].exit EXCEPT ![l] = x]
         /\ copies'[h].id = [copies[h].id EXCEPT ![l] = d]
         /\ copies'[h].lock = copies[h].lock
<1>. DEFINE e == [copies[h].exit EXCEPT ![l] = x]
            i == [copies[h].id EXCEPT ![l] = d]
            m == [copies[h] EXCEPT !.exit = e]
            n == [m EXCEPT !.id = i]
<1>1. copies[h] \in Rows /\ copies[h].exit \in [Legs -> ExitStates]
      /\ copies[h].id \in [Legs -> 0 .. MaxOrders]
  BY DEF Rows
<1>2. copies' = [copies EXCEPT ![h] = n]
  BY <1>1
<1>3. e \in [Legs -> ExitStates] /\ i \in [Legs -> 0 .. MaxOrders]
  BY <1>1
<1>. HIDE DEF e, i
<1>4. /\ m \in Rows /\ m.status = copies[h].status /\ m.legs = copies[h].legs
      /\ m.exit = e /\ m.id = copies[h].id /\ m.lock = copies[h].lock
  BY <1>1, <1>3 DEF Rows
<1>. HIDE DEF m
<1>5. /\ n \in Rows /\ n.status = m.status /\ n.legs = m.legs
      /\ n.exit = m.exit /\ n.id = i /\ n.lock = m.lock
  BY <1>3, <1>4 DEF Rows
<1>. HIDE DEF n
<1>6. copies'[h] = n /\ Recopies(h)
  BY <1>2, <1>5 DEF Recopies
<1>. QED BY <1>4, <1>5, <1>6 DEF e, i

\* What sending the exit order of a leg leaves in the copy.
LEMMA SendExitIs ==
  ASSUME TypeOK, LegInRange, SendExit
  PROVE  /\ Recopies(cur) /\ cur \in Hedges /\ leg \in Legs
         /\ copies'[cur].status = copies[cur].status /\ copies'[cur].legs = copies[cur].legs
         /\ copies'[cur].lock = copies[cur].lock
         /\ \E x \in {"submitted", "refused"} : \E d \in 0 .. MaxOrders :
               /\ copies'[cur].exit = [copies[cur].exit EXCEPT ![leg] = x]
               /\ copies'[cur].id = [copies[cur].id EXCEPT ![leg] = d]
               /\ \/ x = "submitted" /\ Accept /\ d = Len(orders) + 1
                  \/ x = "refused" /\ d = 0
<1>1. copies \in [Hedges -> Rows] /\ cur \in Hedges /\ leg \in Legs /\ MaxOrders \in Nat
      /\ Len(orders) \in Nat
  BY HedgeFacts, AppendIs DEF TypeOK, LegInRange, SendExit, Legs
<1>2. \/ Accept /\ copies' = [copies EXCEPT ![cur].exit[leg] = "submitted",
                                           ![cur].id[leg] = Len(orders) + 1]
      \/ copies' = [copies EXCEPT ![cur].exit[leg] = "refused", ![cur].id[leg] = 0]
  BY DEF SendExit
<1>3. CASE Accept /\ copies' = [copies EXCEPT ![cur].exit[leg] = "submitted",
                                             ![cur].id[leg] = Len(orders) + 1]
  <2>1. Len(orders) + 1 \in 0 .. MaxOrders /\ "submitted" \in ExitStates
    BY <1>1, <1>3 DEF Accept, ExitStates
  <2>2. /\ Recopies(cur)
        /\ copies'[cur].status = copies[cur].status /\ copies'[cur].legs = copies[cur].legs
        /\ copies'[cur].exit = [copies[cur].exit EXCEPT ![leg] = "submitted"]
        /\ copies'[cur].id = [copies[cur].id EXCEPT ![leg] = Len(orders) + 1]
        /\ copies'[cur].lock = copies[cur].lock
    BY <1>1, <1>3, <2>1, CopyLegSet
  <2>. QED BY <1>1, <1>3, <2>1, <2>2
<1>4. CASE copies' = [copies EXCEPT ![cur].exit[leg] = "refused", ![cur].id[leg] = 0]
  <2>1. 0 \in 0 .. MaxOrders /\ "refused" \in ExitStates
    BY <1>1 DEF ExitStates
  <2>2. /\ Recopies(cur)
        /\ copies'[cur].status = copies[cur].status /\ copies'[cur].legs = copies[cur].legs
        /\ copies'[cur].exit = [copies[cur].exit EXCEPT ![leg] = "refused"]
        /\ copies'[cur].id = [copies[cur].id EXCEPT ![leg] = 0]
        /\ copies'[cur].lock = copies[cur].lock
    BY <1>1, <1>4, <2>1, CopyLegSet
  <2>. QED BY <1>1, <2>1, <2>2
<1>. QED BY <1>2, <1>3, <1>4

\* What the beginning of an exit leaves in the copy, and its first leg.
LEMMA ExitRowIs ==
  ASSUME TypeOK, ExitRow
  PROVE  LET h == First(todo) IN
         /\ h \in todo /\ h \in Hedges /\ cur' = h /\ Recopies(h)
         /\ copies'[h].status = "exit_pending" /\ copies'[h].legs = copies[h].legs
         /\ copies'[h].exit = copies[h].exit /\ copies'[h].id = copies[h].id
         /\ copies'[h].lock = copies[h].lock
         /\ todo' \subseteq todo \ {h}
         /\ leg' \in rows[h].legs \cup {0} /\ rows[h].legs \subseteq Legs
         /\ leg' \in Legs \cup {0}
         /\ account.broker = "aliceblue" \/ account.live => \A l \in rows[h].legs : l <= leg'
<1>1. copies \in [Hedges -> Rows] /\ rows \in [Hedges -> Rows] /\ todo \in SUBSET Hedges /\ todo # {}
  BY DEF TypeOK, ExitRow
<1>. DEFINE h == First(todo)
<1>2. h \in todo /\ h \in Hedges
  BY <1>1, FirstIn
<1>3. cur' = h /\ copies' = [copies EXCEPT ![h].status = "exit_pending"] /\ todo' \subseteq todo \ {h}
  BY DEF ExitRow
<1>4. \/ leg' = After(h, NLegs + 1)
      \/ leg' = 0 /\ ~(account.broker = "aliceblue" \/ account.live)
  BY DEF ExitRow
<1>5. NLegs + 1 \in Int /\ \A l \in Legs : l < NLegs + 1
  BY HedgeFacts
<1>. HIDE DEF h
<1>6. "exit_pending" \in Unresolved \cup {"none", "close"}
  BY DEF Unresolved
<1>7. /\ Recopies(h)
      /\ copies'[h].status = "exit_pending" /\ copies'[h].legs = copies[h].legs
      /\ copies'[h].exit = copies[h].exit /\ copies'[h].id = copies[h].id
      /\ copies'[h].lock = copies[h].lock
  BY <1>1, <1>2, <1>3, <1>6, CopyStatusSet
<1>8. /\ After(h, NLegs + 1) \in rows[h].legs \cup {0} /\ rows[h].legs \subseteq Legs
      /\ \A l \in rows[h].legs : l < NLegs + 1 => l <= After(h, NLegs + 1)
  BY <1>1, <1>2, <1>5, AfterIn
<1>9. leg' \in rows[h].legs \cup {0} /\ leg' \in Legs \cup {0}
      /\ (account.broker = "aliceblue" \/ account.live => \A l \in rows[h].legs : l <= leg')
  BY <1>4, <1>5, <1>8
<1>. QED BY <1>2, <1>3, <1>7, <1>8, <1>9 DEF h

\* What the end of an exit leaves in the copy, and when it closes it.
LEMMA EndExitIs ==
  ASSUME TypeOK, EndExit \/ EndAliceExit
  PROVE  /\ Recopies(cur) /\ cur \in Hedges
         /\ copies'[cur].status \in {"close", "exit_failed", "exit_pending"}
         /\ copies'[cur].legs = copies[cur].legs
         /\ copies'[cur].exit = copies[cur].exit /\ copies'[cur].id = copies[cur].id
         /\ copies'[cur].lock = copies[cur].lock
         /\ copies'[cur].status = "close" =>
               \/ EndExit /\ ~account.live
               \/ EndAliceExit /\ Confirmed /\ ~tally.bad
<1>1. copies \in [Hedges -> Rows] /\ cur \in Hedges
  BY DEF TypeOK
<1>2. {"close", "exit_failed", "exit_pending"} \subseteq Unresolved \cup {"none", "close"}
  BY DEF Unresolved
<1>3. CASE EndExit
  <2>. DEFINE s == IF ~account.live THEN "close" ELSE IF tally.bad THEN "exit_failed" ELSE "exit_pending"
  <2>1. copies' = [copies EXCEPT ![cur].status = s]
    BY <1>3 DEF EndExit
  <2>2. s \in {"close", "exit_failed", "exit_pending"} /\ (s = "close" => ~account.live)
    OBVIOUS
  <2>. HIDE DEF s
  <2>. QED BY <1>1, <1>2, <1>3, <2>1, <2>2, CopyStatusSet
<1>4. CASE EndAliceExit
  <2>. DEFINE s == IF Confirmed /\ ~tally.bad THEN "close"
                   ELSE IF tally.bad THEN "exit_failed" ELSE "exit_pending"
  <2>1. copies' = [copies EXCEPT ![cur].status = s]
    BY <1>4 DEF EndAliceExit
  <2>2. s \in {"close", "exit_failed", "exit_pending"} /\ (s = "close" => Confirmed /\ ~tally.bad)
    OBVIOUS
  <2>. HIDE DEF s
  <2>. QED BY <1>1, <1>2, <1>4, <2>1, <2>2, CopyStatusSet
<1>. QED BY <1>3, <1>4

\* Every step leaves the loop's copies of the rows well typed.
LEMMA CopiesStep ==
  ASSUME TypeOK, LegInRange, Next
  PROVE  copies' \in [Hedges -> Rows]
<1>0. copies \in [Hedges -> Rows] /\ rows \in [Hedges -> Rows] /\ NoRow \in Rows
      /\ NoRows \in [Hedges -> Rows]
  BY BlankTyped DEF TypeOK
<1>1. CASE \/ Dispatch \/ Snapshot \/ Look \/ Find \/ SetOut
  BY <1>1, <1>0 DEF Dispatch, Others, Goto, Snapshot, Rest, Look, Find,
     SetOut, engine
<1>2. CASE \/ KeepRow \/ AllRowsSeen \/ LockExitLeg \/ PeekLock \/ SquareOff
           \/ CheckExitOrder \/ MarkFailed \/ SendExitRaises
  BY <1>2, <1>0 DEF KeepRow, Others, Goto, AllRowsSeen, LockExitLeg, PeekLock,
     SquareOff, SquareOffPosition, SquareOffLimit, Accept, CallFails, Fails,
     CheckExitOrder, MarkFailed, SendExitRaises, Rest, engine
<1>3. CASE ExitRow
  BY <1>3, ExitRowIs DEF Recopies
<1>4. CASE \/ EndExit \/ EndAliceExit
  BY <1>4, EndExitIs DEF Recopies
<1>5. CASE SendExit
  BY <1>5, SendExitIs DEF Recopies
<1>6. CASE \/ SaveStrategy \/ SaveRow
  BY <1>6, <1>0 DEF SaveStrategy, Others, Goto, SaveRow, engine
<1>7. CASE \/ NoEntry \/ Blocked \/ FindExisting \/ SetIn \/ LockEntryGroup
           \/ Attempt \/ LockEntryLeg \/ PlaceEntryOrder
  BY <1>7, <1>0 DEF NoEntry, Others, Goto, Rest, Blocked, MayEnter,
     FindExisting, SetIn, LockEntryGroup, Attempt, LockEntryLeg, NextEntryLeg,
     PlaceEntryOrder, Enter, engine
<1>8. CASE \/ EntryOrderRaises \/ EntryAccepted \/ EntryRefused \/ QuoteLeg
           \/ InsertRow \/ SettleEntry
  BY <1>8, <1>0 DEF EntryOrderRaises, Others, Goto, Rest, Enter,
     EntryAccepted, MarkEntryLock, EntryRefused, NextEntryLeg, QuoteLeg,
     InsertRow, FindBeforeInsert, InsertNewRow, SettleEntry, engine
<1>9. CASE \/ Scan \/ RepairPosition \/ WriteBack
           \/ (\E i \in DOMAIN orders : Fill(i))
           \/ (\E i \in DOMAIN orders : Reject(i))
  BY <1>9, <1>0 DEF Scan, Refreshing, RepairPosition, WriteBack, Fill, Reject,
     engine
<1>10. CASE \/ (\E i \in DOMAIN orders : ReadPostback(i)) \/ SavePostback
            \/ PostbackSettles \/ Retire \/ ReadRequest \/ CommitRequest
            \/ Crash \/ Restart
  BY <1>10, <1>0 DEF ReadPostback, SavePostback, PostbackSettles, Retire,
     Requesting, Upset, ReadRequest, ReadToStart, ReadToReset, ReadToEdit,
     CommitRequest, CommitReset, ResetTo, Committing, CommitEdit, Crash,
     Restart, Others, Goto, engine
<1>. QED BY <1>1, <1>2, <1>3, <1>4, <1>5, <1>6, <1>7, <1>8, <1>9, <1>10 DEF
   Next, Round, Exit, Entry, Refresher, Market, Postback

\* Every step leaves the refresher's copies well typed.
LEMMA SnapshotStep ==
  ASSUME TypeOK, LegInRange, Next
  PROVE  rcopies' \in [Hedges -> Rows]
<1>0. rcopies \in [Hedges -> Rows] /\ rows \in [Hedges -> Rows] /\ NoRow \in Rows
      /\ NoRows \in [Hedges -> Rows]
  BY BlankTyped DEF TypeOK
<1>1. CASE \/ Dispatch \/ Snapshot \/ Look \/ Find \/ SetOut
  BY <1>1, <1>0 DEF Dispatch, Others, Goto, Snapshot, Rest, Look, Find,
     SetOut, refresher
<1>2. CASE \/ KeepRow \/ ExitRow \/ AllRowsSeen \/ LockExitLeg \/ PeekLock
           \/ SquareOff \/ CheckExitOrder \/ MarkFailed
  BY <1>2, <1>0 DEF KeepRow, Others, Goto, ExitRow, AllRowsSeen, LockExitLeg,
     PeekLock, SquareOff, SquareOffPosition, SquareOffLimit, Accept, CallFails,
     Fails, CheckExitOrder, MarkFailed, refresher
<1>3. CASE \/ EndAliceExit \/ SendExit \/ SendExitRaises \/ EndExit
           \/ SaveStrategy \/ SaveRow
  BY <1>3, <1>0 DEF EndAliceExit, Others, Goto, SendExit, Accept, CallFails,
     Fails, SendExitRaises, Rest, EndExit, SaveStrategy, SaveRow, refresher
<1>4. CASE \/ NoEntry \/ Blocked \/ FindExisting \/ SetIn \/ LockEntryGroup
           \/ Attempt \/ LockEntryLeg \/ PlaceEntryOrder
  BY <1>4, <1>0 DEF NoEntry, Others, Goto, Rest, Blocked, MayEnter,
     FindExisting, SetIn, LockEntryGroup, Attempt, LockEntryLeg, NextEntryLeg,
     PlaceEntryOrder, Enter, refresher
<1>5. CASE \/ EntryOrderRaises \/ EntryAccepted \/ EntryRefused \/ QuoteLeg
           \/ InsertRow \/ SettleEntry
  BY <1>5, <1>0 DEF EntryOrderRaises, Others, Goto, Rest, Enter,
     EntryAccepted, MarkEntryLock, EntryRefused, NextEntryLeg, QuoteLeg,
     InsertRow, FindBeforeInsert, InsertNewRow, SettleEntry, refresher
<1>6. CASE \/ Scan \/ RepairPosition \/ WriteBack
           \/ (\E i \in DOMAIN orders : Fill(i))
           \/ (\E i \in DOMAIN orders : Reject(i))
  BY <1>6, <1>0 DEF Scan, Refreshing, RepairPosition, WriteBack, Fill, Reject,
     refresher
<1>7. CASE \/ (\E i \in DOMAIN orders : ReadPostback(i)) \/ SavePostback
           \/ PostbackSettles \/ Retire \/ ReadRequest \/ CommitRequest \/ Crash
           \/ Restart
  BY <1>7, <1>0 DEF ReadPostback, SavePostback, PostbackSettles, Retire,
     Requesting, Upset, ReadRequest, ReadToStart, ReadToReset, ReadToEdit,
     CommitRequest, CommitReset, ResetTo, Committing, CommitEdit, Crash,
     Restart, Others, Goto, refresher
<1>. QED BY <1>1, <1>2, <1>3, <1>4, <1>5, <1>6, <1>7 DEF Next, Round, Exit,
   Entry, Refresher, Market, Postback

-----------------------------------------------------------------------------
(* Types.                                                                  *)

\* What a postback reads: the row with the answers of one order filled in.
LEMMA ReadPostbackIs ==
  ASSUME TypeOK, NEW i \in DOMAIN orders, ReadPostback(i)
  PROVE  /\ account.broker = "dhan" /\ pb.at = "none"
         /\ pb'.at = "row" /\ pb'.h \in Hedges /\ pb'.row \in Rows
         /\ pb' \in [at : {"none", "row", "strategy"}, h : Hedges, row : Rows]
         /\ rows[pb'.h].status \in Unresolved
         /\ pb'.row.status = rows[pb'.h].status /\ pb'.row.legs = rows[pb'.h].legs
         /\ pb'.row.id = rows[pb'.h].id /\ pb'.row.lock = rows[pb'.h].lock
         /\ \E l \in Legs : rows[pb'.h].id[l] = i
         /\ \E said \in {"submitted", "complete", "failed"} :
               /\ said = "complete" => orders[i].state = "traded"
               /\ \A l \in Legs : pb'.row.exit[l] =
                     IF rows[pb'.h].id[l] = i THEN said ELSE rows[pb'.h].exit[l]
<1>1. PICK h \in Hedges, said \in Said(i) :
        /\ rows[h].status \in Unresolved
        /\ \E l \in Legs : rows[h].id[l] = i
        /\ pb' = [at |-> "row", h |-> h,
                  row |-> [rows[h] EXCEPT !.exit = [l \in Legs |->
                             IF rows[h].id[l] = i THEN said ELSE @[l]]]]
  BY DEF ReadPostback
<1>2. said \in {"submitted", "complete", "failed"} /\ (said = "complete" => orders[i].state = "traded")
  <2>1. CASE orders[i].state = "traded"
    BY <2>1 DEF Said
  <2>2. CASE orders[i].state = "rejected"
    BY <2>2 DEF Said
  <2>3. CASE orders[i].state # "traded" /\ orders[i].state # "rejected"
    <3>1. Said(i) = {"submitted"} \cup {}
      BY <2>3 DEF Said
    <3>. QED BY <3>1
  <2>. QED BY <2>1, <2>2, <2>3
<1>. DEFINE e == [l \in Legs |-> IF rows[h].id[l] = i THEN said ELSE rows[h].exit[l]]
            r == [rows[h] EXCEPT !.exit = e]
<1>3. rows[h] \in Rows /\ rows[h].exit \in [Legs -> ExitStates]
  BY DEF TypeOK, Rows
<1>4. e \in [Legs -> ExitStates]
  <2>1. said \in ExitStates
    BY <1>2 DEF ExitStates
  <2>. QED BY <1>3, <2>1
<1>5. \A l \in Legs : e[l] = IF rows[h].id[l] = i THEN said ELSE rows[h].exit[l]
  OBVIOUS
<1>6. pb' = [at |-> "row", h |-> h, row |-> r]
  BY <1>1
<1>. HIDE DEF e
<1>7. r \in Rows /\ r.status = rows[h].status /\ r.legs = rows[h].legs /\ r.exit = e
      /\ r.id = rows[h].id /\ r.lock = rows[h].lock
  BY <1>3, <1>4 DEF Rows
<1>. HIDE DEF r
<1>8. pb'.at = "row" /\ pb'.h = h /\ pb'.row = r
      /\ pb' \in [at : {"none", "row", "strategy"}, h : Hedges, row : Rows]
  BY <1>6, <1>7
<1>9. account.broker = "dhan" /\ pb.at = "none"
  BY DEF ReadPostback
<1>. QED BY <1>1, <1>2, <1>5, <1>7, <1>8, <1>9

\* A postback between two operations is well typed.
LEMMA PostbackStep ==
  ASSUME TypeOK, LegInRange, Next
  PROVE  pb' \in [at : {"none", "row", "strategy"}, h : Hedges, row : Rows]
<1>0. /\ pb \in [at : {"none", "row", "strategy"}, h : Hedges, row : Rows]
      /\ NoPostback \in [at : {"none", "row", "strategy"}, h : Hedges, row : Rows]
  BY BlankTyped, HedgeFacts DEF TypeOK, NoPostback
<1>1. CASE \/ Dispatch \/ Snapshot \/ Look \/ Find \/ SetOut
  BY <1>1, <1>0 DEF Dispatch, Others, Goto, Snapshot, Rest, Look, Find,
     SetOut, web
<1>2. CASE \/ KeepRow \/ ExitRow \/ AllRowsSeen \/ LockExitLeg \/ PeekLock
           \/ SquareOff \/ CheckExitOrder \/ MarkFailed
  BY <1>2, <1>0 DEF KeepRow, Others, Goto, ExitRow, AllRowsSeen, LockExitLeg,
     PeekLock, SquareOff, SquareOffPosition, SquareOffLimit, Accept, CallFails,
     Fails, CheckExitOrder, MarkFailed, web
<1>3. CASE \/ EndAliceExit \/ SendExit \/ SendExitRaises \/ EndExit
           \/ SaveStrategy \/ SaveRow
  BY <1>3, <1>0 DEF EndAliceExit, Others, Goto, SendExit, Accept, CallFails,
     Fails, SendExitRaises, Rest, EndExit, SaveStrategy, SaveRow, web
<1>4. CASE \/ NoEntry \/ Blocked \/ FindExisting \/ SetIn \/ LockEntryGroup
           \/ Attempt \/ LockEntryLeg \/ PlaceEntryOrder
  BY <1>4, <1>0 DEF NoEntry, Others, Goto, Rest, Blocked, MayEnter,
     FindExisting, SetIn, LockEntryGroup, Attempt, LockEntryLeg, NextEntryLeg,
     PlaceEntryOrder, Enter, web
<1>5. CASE \/ EntryOrderRaises \/ EntryAccepted \/ EntryRefused \/ QuoteLeg
           \/ InsertRow \/ SettleEntry
  BY <1>5, <1>0 DEF EntryOrderRaises, Others, Goto, Rest, Enter,
     EntryAccepted, MarkEntryLock, EntryRefused, NextEntryLeg, QuoteLeg,
     InsertRow, FindBeforeInsert, InsertNewRow, SettleEntry, web
<1>6. CASE \/ Scan \/ RepairPosition \/ WriteBack
           \/ (\E i \in DOMAIN orders : Fill(i))
           \/ (\E i \in DOMAIN orders : Reject(i))
  BY <1>6, <1>0 DEF Scan, Refreshing, RepairPosition, WriteBack, Fill, Reject,
     web
<1>7. CASE \E i \in DOMAIN orders : ReadPostback(i)
  BY <1>7, ReadPostbackIs
<1>8. CASE SavePostback \/ PostbackSettles
  BY <1>8, <1>0 DEF SavePostback, PostbackSettles
<1>9. CASE \/ Retire \/ ReadRequest \/ CommitRequest \/ Crash \/ Restart
  <2>1. pb' = pb
    BY <1>9 DEF Retire, Requesting, ReadRequest, ReadToStart, ReadToReset,
       ReadToEdit, CommitRequest, CommitReset, CommitEdit, Committing, Crash,
       Restart, Others, web
  <2>. QED BY <2>1, <1>0
<1>. QED BY <1>1, <1>2, <1>3, <1>4, <1>5, <1>6, <1>7, <1>8, <1>9 DEF Next, Round,
   Exit, Entry, Refresher, Market, Postback

\* A request between two operations is well typed, and upsets are counted.
LEMMA RequestStep ==
  ASSUME TypeOK, LegInRange, Next
  PROVE  /\ req' \in RequestsInHand
         /\ upsets' \in 0 .. MaxUpsets
<1>0. /\ strat.status \in {"opened", "paused", "closed"} /\ upsets \in 0 .. MaxUpsets /\ MaxUpsets \in Nat
      /\ req \in RequestsInHand
      /\ NoRequest \in RequestsInHand /\ strat.position \in {"in", "out"}
  BY HedgeFacts DEF TypeOK, NoRequest, RequestsInHand, Strategies
<1>1. CASE \/ Dispatch \/ Snapshot \/ Look \/ Find \/ SetOut
  BY <1>1, <1>0 DEF Dispatch, Others, Goto, Snapshot, Rest, Look, Find,
     SetOut, web
<1>2. CASE \/ KeepRow \/ ExitRow \/ AllRowsSeen \/ LockExitLeg \/ PeekLock
           \/ SquareOff \/ CheckExitOrder \/ MarkFailed
  BY <1>2, <1>0 DEF KeepRow, Others, Goto, ExitRow, AllRowsSeen, LockExitLeg,
     PeekLock, SquareOff, SquareOffPosition, SquareOffLimit, Accept, CallFails,
     Fails, CheckExitOrder, MarkFailed, web
<1>3. CASE \/ EndAliceExit \/ SendExit \/ SendExitRaises \/ EndExit
           \/ SaveStrategy \/ SaveRow
  BY <1>3, <1>0 DEF EndAliceExit, Others, Goto, SendExit, Accept, CallFails,
     Fails, SendExitRaises, Rest, EndExit, SaveStrategy, SaveRow, web
<1>4. CASE \/ NoEntry \/ Blocked \/ FindExisting \/ SetIn \/ LockEntryGroup
           \/ Attempt \/ LockEntryLeg \/ PlaceEntryOrder
  BY <1>4, <1>0 DEF NoEntry, Others, Goto, Rest, Blocked, MayEnter,
     FindExisting, SetIn, LockEntryGroup, Attempt, LockEntryLeg, NextEntryLeg,
     PlaceEntryOrder, Enter, web
<1>5. CASE \/ EntryOrderRaises \/ EntryAccepted \/ EntryRefused \/ QuoteLeg
           \/ InsertRow \/ SettleEntry
  BY <1>5, <1>0 DEF EntryOrderRaises, Others, Goto, Rest, Enter,
     EntryAccepted, MarkEntryLock, EntryRefused, NextEntryLeg, QuoteLeg,
     InsertRow, FindBeforeInsert, InsertNewRow, SettleEntry, web
<1>6. CASE \/ Scan \/ RepairPosition \/ WriteBack
           \/ (\E i \in DOMAIN orders : Fill(i))
           \/ (\E i \in DOMAIN orders : Reject(i))
  BY <1>6, <1>0 DEF Scan, Refreshing, RepairPosition, WriteBack, Fill, Reject,
     web
<1>7. CASE \/ (\E i \in DOMAIN orders : ReadPostback(i)) \/ SavePostback
           \/ PostbackSettles \/ Retire \/ CommitRequest \/ Crash \/ Restart
  BY <1>7, <1>0 DEF ReadPostback, SavePostback, PostbackSettles, Retire,
     Requesting, Upset, CommitRequest, CommitReset, ResetTo, Committing,
     CommitEdit, Crash, Restart, Others, Goto, web
<1>8. CASE ReadRequest
  <2>1. upsets' \in 0 .. MaxUpsets
    <3>1. upsets' = upsets \/ (upsets < MaxUpsets /\ upsets' = upsets + 1)
      BY <1>8 DEF ReadRequest, ReadToStart, ReadToReset, ReadToEdit, Requesting, Upset
    <3>. QED BY <1>0, <3>1
  <2>2. CASE ReadToStart
    <3>1. PICK failed_entry \in BOOLEAN :
             req' = [NoRequest EXCEPT !.kind = "user", !.failed = failed_entry]
      BY <2>2 DEF ReadToStart
    <3>. QED BY <1>0, <2>1, <3>1 DEF RequestsInHand
  <2>3. CASE ReadToReset
    <3>1. PICK kind \in {"start", "legs"}, open \in BOOLEAN, active \in BOOLEAN,
              status \in {"opened", strat.status} :
             req' = [req EXCEPT !.kind = kind, !.open = open, !.status = status,
                                !.active = active]
      <4>1. HasRow \in BOOLEAN /\ (strat.entry \in {"submitting", "submitted"}) \in BOOLEAN
        BY DEF HasRow
      <4>. QED BY <2>3, <4>1 DEF ReadToReset
    <3>. QED BY <1>0, <2>1, <3>1 DEF RequestsInHand
  <2>4. CASE ReadToEdit
    <3>1. req' = [NoRequest EXCEPT !.kind = "edit", !.status = strat.status,
                                   !.position = strat.position]
      BY <2>4 DEF ReadToEdit
    <3>. QED BY <1>0, <2>1, <3>1 DEF RequestsInHand
  <2>. QED BY <1>8, <2>1, <2>2, <2>3, <2>4 DEF ReadRequest
<1>. QED BY <1>1, <1>2, <1>3, <1>4, <1>5, <1>6, <1>7, <1>8 DEF Next, Round,
   Exit, Entry, Refresher, Market, Postback

\* The account explored never changes.
LEMMA AccountStep ==
  ASSUME Next
  PROVE  account' = account
<1>1. CASE \/ Dispatch \/ Snapshot \/ Look \/ Find \/ SetOut
  BY <1>1 DEF Dispatch, Others, Goto, Snapshot, Rest, Look, Find, SetOut
<1>2. CASE \/ KeepRow \/ ExitRow \/ AllRowsSeen \/ LockExitLeg \/ PeekLock
           \/ SquareOff \/ CheckExitOrder \/ MarkFailed
  BY <1>2 DEF KeepRow, Others, Goto, ExitRow, AllRowsSeen, LockExitLeg,
     PeekLock, SquareOff, SquareOffPosition, SquareOffLimit, Accept, CallFails,
     Fails, CheckExitOrder, MarkFailed
<1>3. CASE \/ EndAliceExit \/ SendExit \/ SendExitRaises \/ EndExit
           \/ SaveStrategy \/ SaveRow
  BY <1>3 DEF EndAliceExit, Others, Goto, SendExit, Accept, CallFails, Fails,
     SendExitRaises, Rest, EndExit, SaveStrategy, SaveRow
<1>4. CASE \/ NoEntry \/ Blocked \/ FindExisting \/ SetIn \/ LockEntryGroup
           \/ Attempt \/ LockEntryLeg \/ PlaceEntryOrder
  BY <1>4 DEF NoEntry, Others, Goto, Rest, Blocked, MayEnter, FindExisting,
     SetIn, LockEntryGroup, Attempt, LockEntryLeg, NextEntryLeg,
     PlaceEntryOrder, Enter
<1>5. CASE \/ EntryOrderRaises \/ EntryAccepted \/ EntryRefused \/ QuoteLeg
           \/ InsertRow \/ SettleEntry
  BY <1>5 DEF EntryOrderRaises, Others, Goto, Rest, Enter, EntryAccepted,
     MarkEntryLock, EntryRefused, NextEntryLeg, QuoteLeg, InsertRow,
     FindBeforeInsert, InsertNewRow, SettleEntry
<1>6. CASE \/ Scan \/ RepairPosition \/ WriteBack
           \/ (\E i \in DOMAIN orders : Fill(i))
           \/ (\E i \in DOMAIN orders : Reject(i))
  BY <1>6 DEF Scan, Refreshing, RepairPosition, WriteBack, Fill, Reject,
     Others
<1>7. CASE \/ (\E i \in DOMAIN orders : ReadPostback(i)) \/ SavePostback
           \/ PostbackSettles \/ Retire \/ ReadRequest \/ CommitRequest \/ Crash
           \/ Restart
  BY <1>7 DEF ReadPostback, SavePostback, PostbackSettles, Retire, Requesting,
     Upset, ReadRequest, ReadToStart, ReadToReset, ReadToEdit, CommitRequest,
     CommitReset, ResetTo, Committing, CommitEdit, Crash, Restart, Others, Goto
<1>. QED BY <1>1, <1>2, <1>3, <1>4, <1>5, <1>6, <1>7 DEF Next, Round, Exit,
   Entry, Refresher, Market, Postback

\* The order loop is at a step of the code.
LEMMA PlaceStep ==
  ASSUME TypeOK, LegInRange, Next
  PROVE  pc' \in PCs
<1>0. pc \in PCs
  BY DEF TypeOK
<1>1. CASE \/ Dispatch \/ Snapshot \/ Look \/ Find \/ SetOut
  BY <1>1, <1>0 DEF Dispatch, Others, Goto, Snapshot, Rest, Look, Find,
     SetOut, engine, PCs
<1>2. CASE \/ KeepRow \/ ExitRow \/ AllRowsSeen \/ LockExitLeg \/ PeekLock
           \/ SquareOff \/ CheckExitOrder \/ MarkFailed
  BY <1>2, <1>0 DEF KeepRow, Others, Goto, ExitRow, AllRowsSeen, LockExitLeg,
     PeekLock, SquareOff, SquareOffPosition, SquareOffLimit, Accept, CallFails,
     Fails, CheckExitOrder, MarkFailed, engine, PCs
<1>3. CASE \/ EndAliceExit \/ SendExit \/ SendExitRaises \/ EndExit
           \/ SaveStrategy \/ SaveRow
  BY <1>3, <1>0 DEF EndAliceExit, Others, Goto, SendExit, Accept, CallFails,
     Fails, SendExitRaises, Rest, EndExit, SaveStrategy, SaveRow, engine, PCs
<1>4. CASE \/ NoEntry \/ Blocked \/ FindExisting \/ SetIn \/ LockEntryGroup
           \/ Attempt \/ LockEntryLeg \/ PlaceEntryOrder
  BY <1>4, <1>0 DEF NoEntry, Others, Goto, Rest, Blocked, MayEnter,
     FindExisting, SetIn, LockEntryGroup, Attempt, LockEntryLeg, NextEntryLeg,
     PlaceEntryOrder, Enter, engine, PCs
<1>5. CASE \/ EntryOrderRaises \/ EntryAccepted \/ EntryRefused \/ QuoteLeg
           \/ InsertRow \/ SettleEntry
  BY <1>5, <1>0 DEF EntryOrderRaises, Others, Goto, Rest, Enter,
     EntryAccepted, MarkEntryLock, EntryRefused, NextEntryLeg, QuoteLeg,
     InsertRow, FindBeforeInsert, InsertNewRow, SettleEntry, engine, PCs
<1>6. CASE \/ Scan \/ RepairPosition \/ WriteBack
           \/ (\E i \in DOMAIN orders : Fill(i))
           \/ (\E i \in DOMAIN orders : Reject(i))
  BY <1>6, <1>0 DEF Scan, Refreshing, RepairPosition, WriteBack, Fill, Reject,
     engine, PCs
<1>7. CASE \/ (\E i \in DOMAIN orders : ReadPostback(i)) \/ SavePostback
           \/ PostbackSettles \/ Retire \/ ReadRequest \/ CommitRequest \/ Crash
           \/ Restart
  BY <1>7, <1>0 DEF ReadPostback, SavePostback, PostbackSettles, Retire,
     Requesting, Upset, ReadRequest, ReadToStart, ReadToReset, ReadToEdit,
     CommitRequest, CommitReset, ResetTo, Committing, CommitEdit, Crash,
     Restart, Others, Goto, engine, PCs
<1>. QED BY <1>1, <1>2, <1>3, <1>4, <1>5, <1>6, <1>7 DEF Next, Round, Exit,
   Entry, Refresher, Market, Postback

\* The row in hand and those to visit are hedges.
LEMMA CurStep ==
  ASSUME TypeOK, LegInRange, Next
  PROVE  cur' \in Hedges /\ todo' \subseteq Hedges
<1>0. cur \in Hedges /\ todo \subseteq Hedges /\ 1 \in Hedges /\ Open \subseteq Hedges
  BY HedgeFacts DEF TypeOK, Open
<1>1. CASE \/ Dispatch \/ Snapshot \/ Look \/ Find \/ SetOut
  BY <1>1, <1>0 DEF Dispatch, Others, Goto, Snapshot, Rest, Look, Find,
     SetOut, engine
<1>2. CASE KeepRow
  BY <1>2, <1>0, FirstIn DEF KeepRow, Others, Goto
<1>3. CASE ExitRow
  BY <1>3, <1>0, ExitRowIs
<1>4. CASE \/ AllRowsSeen \/ LockExitLeg \/ PeekLock \/ SquareOff
           \/ CheckExitOrder \/ MarkFailed \/ EndAliceExit \/ SendExit
  BY <1>4, <1>0 DEF AllRowsSeen, Others, Goto, LockExitLeg, PeekLock, SquareOff,
     SquareOffPosition, SquareOffLimit, Accept, CallFails, Fails,
     CheckExitOrder, MarkFailed, EndAliceExit, SendExit, engine
<1>5. CASE \/ SendExitRaises \/ EndExit \/ SaveStrategy \/ SaveRow
  BY <1>5, <1>0 DEF SendExitRaises, Others, Goto, Rest, Accept, CallFails,
     Fails, EndExit, SaveStrategy, SaveRow, engine
<1>6. CASE \/ NoEntry \/ Blocked \/ SetIn \/ LockEntryGroup \/ Attempt
           \/ LockEntryLeg \/ PlaceEntryOrder \/ EntryOrderRaises
  BY <1>6, <1>0 DEF NoEntry, Others, Goto, Rest, Blocked, MayEnter, SetIn,
     LockEntryGroup, Attempt, LockEntryLeg, NextEntryLeg, PlaceEntryOrder,
     Enter, EntryOrderRaises, engine
<1>7. CASE FindExisting
  <2>1. New \in SUBSET Hedges /\ New # {}
    BY <1>7 DEF FindExisting, MayEnter, New
  <2>2. cur' = First(New) /\ todo' = todo
    BY <1>7 DEF FindExisting
  <2>. QED BY <1>0, <2>1, <2>2, FirstIn
<1>8. CASE \/ EntryAccepted \/ EntryRefused \/ QuoteLeg \/ InsertRow
           \/ SettleEntry
  BY <1>8, <1>0 DEF EntryAccepted, Others, Goto, MarkEntryLock, EntryRefused,
     NextEntryLeg, QuoteLeg, Rest, InsertRow, FindBeforeInsert, InsertNewRow, SettleEntry, engine
<1>9. CASE \/ Scan \/ RepairPosition \/ WriteBack
           \/ (\E i \in DOMAIN orders : Fill(i))
           \/ (\E i \in DOMAIN orders : Reject(i))
  BY <1>9, <1>0 DEF Scan, Refreshing, RepairPosition, WriteBack, Fill, Reject,
     engine
<1>10. CASE \/ (\E i \in DOMAIN orders : ReadPostback(i)) \/ SavePostback
            \/ PostbackSettles \/ Retire \/ ReadRequest \/ CommitRequest
            \/ Crash \/ Restart
  BY <1>10, <1>0 DEF ReadPostback, SavePostback, PostbackSettles, Retire,
     Requesting, Upset, ReadRequest, ReadToStart, ReadToReset, ReadToEdit,
     CommitRequest, CommitReset, ResetTo, Committing, CommitEdit, Crash,
     Restart, Others, Goto, engine
<1>. QED BY <1>1, <1>2, <1>3, <1>4, <1>5, <1>6, <1>7, <1>8, <1>9, <1>10 DEF
   Next, Round, Exit, Entry, Refresher, Market, Postback

\* The counts of the exit or entry loop are well typed.
LEMMA TallyStep ==
  ASSUME TypeOK, LegInRange, Next
  PROVE  tally' \in [sub : Nat, conf : Nat, bad : BOOLEAN, legs : SUBSET Legs]
<1>. DEFINE Tallies == [sub : Nat, conf : Nat, bad : BOOLEAN, legs : SUBSET Legs]
<1>0. tally \in Tallies /\ NoTally \in Tallies
      /\ tally.sub \in Nat /\ tally.conf \in Nat /\ tally.bad \in BOOLEAN /\ tally.legs \in SUBSET Legs
  BY DEF TypeOK, NoTally
<1>a. \A z \in Tallies, n \in Nat, c \in Nat : [z EXCEPT !.sub = n, !.conf = c] \in Tallies
  OBVIOUS
<1>b. \A z \in Tallies, n \in Nat :
         [z EXCEPT !.sub = n] \in Tallies /\ [z EXCEPT !.bad = TRUE] \in Tallies
  OBVIOUS
<1>c. \A z \in Tallies, s \in SUBSET Legs : [z EXCEPT !.legs = s] \in Tallies
  OBVIOUS
<1>1. CASE \/ Dispatch \/ Snapshot \/ Look \/ Find \/ SetOut
  BY <1>1, <1>0 DEF Dispatch, Others, Goto, Snapshot, Rest, Look, Find,
     SetOut, engine
<1>2. CASE \/ KeepRow \/ ExitRow \/ AllRowsSeen \/ LockExitLeg \/ SquareOff
           \/ EndAliceExit \/ SendExitRaises \/ EndExit
  BY <1>2, <1>0 DEF KeepRow, Others, Goto, ExitRow, AllRowsSeen, LockExitLeg,
     SquareOff, SquareOffPosition, SquareOffLimit, Accept, CallFails, Fails,
     EndAliceExit, SendExitRaises, Rest, EndExit, engine
<1>3. CASE PeekLock
  <2>1. PICK n \in Nat, c \in Nat : tally' = [tally EXCEPT !.sub = n, !.conf = c]
    <3>. DEFINE n == IF rows[cur].lock[leg] \in Blocking THEN tally.sub + 1 ELSE tally.sub
                c == IF rows[cur].lock[leg] = "complete" THEN tally.conf + 1 ELSE tally.conf
    <3>1. n \in Nat /\ c \in Nat
      BY <1>0
    <3>2. tally' = [tally EXCEPT !.sub = n, !.conf = c]
      BY <1>3 DEF PeekLock
    <3>. QED BY <3>1, <3>2
  <2>. QED BY <1>0, <1>a, <2>1
<1>4. CASE CheckExitOrder
  <2>1. PICK result \in {"submitted", "complete"} :
           tally' = [tally EXCEPT !.sub = tally.sub + 1,
                                  !.conf = IF result = "complete" THEN tally.conf + 1 ELSE tally.conf]
    BY <1>4 DEF CheckExitOrder
  <2>. DEFINE c == IF result = "complete" THEN tally.conf + 1 ELSE tally.conf
  <2>2. tally.sub + 1 \in Nat /\ c \in Nat
    BY <1>0
  <2>. QED BY <1>0, <1>a, <2>1, <2>2
<1>5. CASE MarkFailed
  BY <1>5, <1>0, <1>b DEF MarkFailed, Others, Goto
<1>6. CASE SendExit
  BY <1>6, <1>0, <1>b DEF SendExit, Others, Goto, Accept, CallFails, Fails
<1>7. CASE \/ SaveStrategy \/ SaveRow
  BY <1>7, <1>0 DEF SaveStrategy, Others, Goto, SaveRow, engine
<1>8. CASE \/ NoEntry \/ Blocked \/ FindExisting \/ SetIn \/ LockEntryGroup
           \/ PlaceEntryOrder \/ EntryOrderRaises \/ EntryAccepted
  BY <1>8, <1>0 DEF NoEntry, Others, Goto, Rest, Blocked, MayEnter,
     FindExisting, SetIn, LockEntryGroup, PlaceEntryOrder, Enter,
     EntryOrderRaises, EntryAccepted, MarkEntryLock, engine
<1>9. CASE Attempt
  BY <1>9, <1>0, <1>c DEF Attempt, Others, Goto
<1>10. CASE LockEntryLeg
  BY <1>10, <1>0, <1>b DEF LockEntryLeg, Others, Goto, NextEntryLeg
<1>11. CASE EntryRefused
  BY <1>11, <1>0, <1>b DEF EntryRefused, Others, Goto, NextEntryLeg,
     MarkEntryLock
<1>12. CASE QuoteLeg
  <2>1. tally' = NoTally \/ tally' = [tally EXCEPT !.legs = tally.legs \cup {leg}]
    BY <1>12 DEF QuoteLeg, Rest
  <2>2. leg \in Legs
    BY <1>12 DEF QuoteLeg, LegInRange
  <2>3. tally.legs \cup {leg} \in SUBSET Legs
    BY <1>0, <2>2
  <2>. QED BY <1>0, <1>c, <2>1, <2>3
<1>13. CASE \/ InsertRow \/ SettleEntry
  BY <1>13, <1>0 DEF InsertRow, FindBeforeInsert, InsertNewRow, Others, Goto,
     Rest, SettleEntry, engine
<1>14. CASE \/ Scan \/ RepairPosition \/ WriteBack
            \/ (\E i \in DOMAIN orders : Fill(i))
            \/ (\E i \in DOMAIN orders : Reject(i))
  BY <1>14, <1>0 DEF Scan, Refreshing, RepairPosition, WriteBack, Fill,
     Reject, engine
<1>15. CASE \/ (\E i \in DOMAIN orders : ReadPostback(i)) \/ SavePostback
            \/ PostbackSettles \/ Retire \/ ReadRequest \/ CommitRequest
            \/ Crash \/ Restart
  BY <1>15, <1>0 DEF ReadPostback, SavePostback, PostbackSettles, Retire,
     Requesting, Upset, ReadRequest, ReadToStart, ReadToReset, ReadToEdit,
     CommitRequest, CommitReset, ResetTo, Committing, CommitEdit, Crash,
     Restart, Others, Goto, engine
<1>. QED BY <1>1, <1>2, <1>3, <1>4, <1>5, <1>6, <1>7, <1>8, <1>9, <1>10,
   <1>11, <1>12, <1>13, <1>14, <1>15 DEF Next, Round, Exit, Entry, Refresher,
   Market, Postback

\* The leg in hand is one where a step is about a leg.
LEMMA LegStep ==
  ASSUME TypeOK, LegInRange, Next
  PROVE  /\ leg' \in 0 .. NLegs + 1
         /\ pc' \in {"lock", "send"} => leg' \in Legs \cup {0}
         /\ pc' \in {"peek", "square_off", "limit", "check", "mark_failed",
                     "buy", "mark_entry", "refuse_entry", "quote"} => leg' \in Legs
         /\ pc' = "lock_entry" => leg' \in 1 .. NLegs + 1
<1>0. /\ leg \in 0 .. NLegs + 1 /\ NLegs \in Nat \ {0}
      /\ pc \in {"lock", "send"} => leg \in Legs \cup {0}
      /\ pc \in {"peek", "square_off", "limit", "check", "mark_failed",
                 "buy", "mark_entry", "refuse_entry", "quote"} => leg \in Legs
      /\ pc = "lock_entry" => leg \in 1 .. NLegs + 1
      /\ Legs = 1 .. NLegs
  BY HedgeFacts DEF TypeOK, LegInRange, Legs
<1>a. After(cur, leg) \in Legs \cup {0}
  <2>1. rows \in [Hedges -> Rows] /\ cur \in Hedges /\ leg \in Int
    BY DEF TypeOK
  <2>. QED BY <2>1, AfterIn
<1>1. CASE \/ Dispatch \/ Snapshot \/ Look \/ Find \/ SetOut
  BY <1>1, <1>0 DEF Dispatch, Others, Goto, Snapshot, Rest, Look, Find,
     SetOut, engine
<1>2. CASE \/ KeepRow \/ AllRowsSeen \/ EndAliceExit \/ SendExitRaises
           \/ EndExit
  BY <1>2, <1>0 DEF KeepRow, Others, Goto, AllRowsSeen, EndAliceExit,
     SendExitRaises, Rest, Accept, CallFails, Fails, EndExit, engine
<1>3. CASE ExitRow
  <2>1. leg' \in Legs \cup {0}
    BY <1>3, ExitRowIs
  <2>2. pc' \in {"lock", "send"}
    BY <1>3 DEF ExitRow, Goto
  <2>. QED BY <1>0, <2>1, <2>2
<1>4. CASE LockExitLeg
  BY <1>4, <1>0 DEF LockExitLeg, Others, Goto
<1>5. CASE PeekLock
  BY <1>5, <1>0, <1>a DEF PeekLock, Others, Goto
<1>6. CASE SquareOff
  BY <1>6, <1>0 DEF SquareOff, SquareOffPosition, SquareOffLimit, Others, Goto,
     Accept, CallFails, Fails
<1>7. CASE CheckExitOrder
  BY <1>7, <1>0, <1>a DEF CheckExitOrder, Others, Goto
<1>8. CASE MarkFailed
  BY <1>8, <1>0, <1>a DEF MarkFailed, Others, Goto
<1>9. CASE SendExit
  BY <1>9, <1>0, <1>a DEF SendExit, Others, Goto, Accept, CallFails, Fails
<1>10. CASE \/ SaveStrategy \/ SaveRow
  BY <1>10, <1>0 DEF SaveStrategy, Others, Goto, SaveRow, engine
<1>11. CASE \/ NoEntry \/ Blocked \/ FindExisting \/ SetIn \/ LockEntryGroup
  BY <1>11, <1>0 DEF NoEntry, Others, Goto, Rest, Blocked, MayEnter,
     FindExisting, SetIn, LockEntryGroup, engine
<1>12. CASE Attempt
  BY <1>12, <1>0 DEF Attempt, Others, Goto
<1>13. CASE LockEntryLeg
  BY <1>13, <1>0 DEF LockEntryLeg, Others, Goto, NextEntryLeg
<1>14. CASE PlaceEntryOrder
  BY <1>14, <1>0 DEF PlaceEntryOrder, Others, Goto, Enter
<1>15. CASE EntryOrderRaises
  BY <1>15, <1>0 DEF EntryOrderRaises, Others, Goto, Rest, Enter
<1>16. CASE EntryAccepted
  BY <1>16, <1>0 DEF EntryAccepted, Others, Goto, MarkEntryLock
<1>17. CASE EntryRefused
  BY <1>17, <1>0 DEF EntryRefused, Others, Goto, NextEntryLeg, MarkEntryLock
<1>18. CASE QuoteLeg
  BY <1>18, <1>0 DEF QuoteLeg, Others, Goto, Rest, NextEntryLeg
<1>19. CASE InsertRow
  BY <1>19, <1>0 DEF InsertRow, FindBeforeInsert, InsertNewRow, Others, Goto, Rest
<1>20. CASE SettleEntry
  BY <1>20, <1>0 DEF SettleEntry, Others, Goto, Rest, engine
<1>21. CASE \/ Scan \/ RepairPosition \/ WriteBack
            \/ (\E i \in DOMAIN orders : Fill(i))
            \/ (\E i \in DOMAIN orders : Reject(i))
  BY <1>21, <1>0 DEF Scan, Refreshing, RepairPosition, WriteBack, Fill,
     Reject, engine
<1>22. CASE \/ (\E i \in DOMAIN orders : ReadPostback(i)) \/ SavePostback
            \/ PostbackSettles \/ Retire \/ ReadRequest
  BY <1>22, <1>0 DEF ReadPostback, SavePostback, PostbackSettles, Retire,
     Requesting, Upset, ReadRequest, ReadToStart, ReadToReset, ReadToEdit, engine
<1>23. CASE \/ CommitRequest \/ Crash \/ Restart
  BY <1>23, <1>0 DEF CommitRequest, CommitReset, ResetTo, Committing,
     CommitEdit, Crash, Upset, Restart, Others, Goto, engine
<1>. QED BY <1>1, <1>2, <1>3, <1>4, <1>5, <1>6, <1>7, <1>8, <1>9, <1>10,
   <1>11, <1>12, <1>13, <1>14, <1>15, <1>16, <1>17, <1>18, <1>19, <1>20,
   <1>21, <1>22, <1>23 DEF Next, Round, Exit, Entry, Refresher, Market,
   Postback

\* The refresher is at a step of its code, with a row to write back.
LEMMA RefresherStep ==
  ASSUME TypeOK, LegInRange, Next
  PROVE  /\ rpc' \in {"idle", "repair", "write"} /\ rtodo' \subseteq Hedges
         /\ rpc' # "idle" => rtodo' # {}
<1>0. /\ rpc \in {"idle", "repair", "write"} /\ rtodo \subseteq Hedges /\ Open \subseteq Hedges
      /\ rpc # "idle" => rtodo # {}
  BY DEF TypeOK, LegInRange, Open
<1>1. CASE \/ Dispatch \/ Snapshot \/ Look \/ Find \/ SetOut
  BY <1>1, <1>0 DEF Dispatch, Others, Goto, Snapshot, Rest, Look, Find,
     SetOut, refresher
<1>2. CASE \/ KeepRow \/ ExitRow \/ AllRowsSeen \/ LockExitLeg \/ PeekLock
           \/ SquareOff \/ CheckExitOrder \/ MarkFailed
  BY <1>2, <1>0 DEF KeepRow, Others, Goto, ExitRow, AllRowsSeen, LockExitLeg,
     PeekLock, SquareOff, SquareOffPosition, SquareOffLimit, Accept, CallFails,
     Fails, CheckExitOrder, MarkFailed, refresher
<1>3. CASE \/ EndAliceExit \/ SendExit \/ SendExitRaises \/ EndExit
           \/ SaveStrategy \/ SaveRow
  BY <1>3, <1>0 DEF EndAliceExit, Others, Goto, SendExit, Accept, CallFails,
     Fails, SendExitRaises, Rest, EndExit, SaveStrategy, SaveRow, refresher
<1>4. CASE \/ NoEntry \/ Blocked \/ FindExisting \/ SetIn \/ LockEntryGroup
           \/ Attempt \/ LockEntryLeg \/ PlaceEntryOrder
  BY <1>4, <1>0 DEF NoEntry, Others, Goto, Rest, Blocked, MayEnter,
     FindExisting, SetIn, LockEntryGroup, Attempt, LockEntryLeg, NextEntryLeg,
     PlaceEntryOrder, Enter, refresher
<1>5. CASE \/ EntryOrderRaises \/ EntryAccepted \/ EntryRefused \/ QuoteLeg
           \/ InsertRow \/ SettleEntry
  BY <1>5, <1>0 DEF EntryOrderRaises, Others, Goto, Rest, Enter,
     EntryAccepted, MarkEntryLock, EntryRefused, NextEntryLeg, QuoteLeg,
     InsertRow, FindBeforeInsert, InsertNewRow, SettleEntry, refresher
<1>6. CASE \/ Scan \/ RepairPosition \/ WriteBack
           \/ (\E i \in DOMAIN orders : Fill(i))
           \/ (\E i \in DOMAIN orders : Reject(i))
  BY <1>6, <1>0 DEF Scan, Refreshing, RepairPosition, WriteBack, Fill, Reject,
     refresher
<1>7. CASE \/ (\E i \in DOMAIN orders : ReadPostback(i)) \/ SavePostback
           \/ PostbackSettles \/ Retire \/ ReadRequest \/ CommitRequest \/ Crash
           \/ Restart
  BY <1>7, <1>0 DEF ReadPostback, SavePostback, PostbackSettles, Retire,
     Requesting, Upset, ReadRequest, ReadToStart, ReadToReset, ReadToEdit,
     CommitRequest, CommitReset, ResetTo, Committing, CommitEdit, Crash,
     Restart, Others, Goto, refresher
<1>. QED BY <1>1, <1>2, <1>3, <1>4, <1>5, <1>6, <1>7 DEF Next, Round, Exit,
   Entry, Refresher, Market, Postback

\* Exits that failed are of legs.
LEMMA FailedStep ==
  ASSUME TypeOK, LegInRange, Next
  PROVE  failed' \subseteq Hedges \X Legs
<1>0. failed \subseteq Hedges \X Legs /\ cur \in Hedges
  BY DEF TypeOK
<1>a. pc \in {"square_off", "limit", "send"} /\ leg > 0 => {<<cur, leg>>} \subseteq Hedges \X Legs
  BY <1>0, HedgeFacts DEF LegInRange, Legs
<1>1. CASE \/ Dispatch \/ Snapshot \/ Look \/ Find \/ SetOut
  BY <1>1, <1>0 DEF Dispatch, Others, Goto, Snapshot, Rest, Look, Find,
     SetOut, market
<1>2. CASE \/ KeepRow \/ ExitRow \/ AllRowsSeen \/ LockExitLeg \/ PeekLock
           \/ CheckExitOrder \/ MarkFailed \/ EndAliceExit
  BY <1>2, <1>0 DEF KeepRow, Others, Goto, ExitRow, AllRowsSeen, LockExitLeg,
     PeekLock, CheckExitOrder, MarkFailed, EndAliceExit, market
<1>3. CASE SquareOff
  <2>1. leg > 0 /\ pc \in {"square_off", "limit"}
    BY <1>3, HedgeFacts DEF SquareOff, SquareOffPosition, SquareOffLimit, LegInRange, Legs
  <2>2. failed' = failed \/ failed' = failed \cup {<<cur, leg>>}
    BY <1>3 DEF SquareOff, SquareOffPosition, SquareOffLimit, CallFails, Fails
  <2>. QED BY <1>0, <1>a, <2>1, <2>2
<1>4. CASE SendExit
  BY <1>4, <1>0, <1>a DEF SendExit, Others, Goto, Accept, CallFails, Fails
<1>5. CASE SendExitRaises
  BY <1>5, <1>0, <1>a DEF SendExitRaises, Others, Goto, Rest, Accept,
     CallFails, Fails
<1>6. CASE \/ EndExit \/ SaveStrategy \/ SaveRow
  BY <1>6, <1>0 DEF EndExit, Others, Goto, SaveStrategy, SaveRow, market
<1>7. CASE \/ NoEntry \/ Blocked \/ FindExisting \/ SetIn \/ LockEntryGroup
           \/ Attempt \/ LockEntryLeg \/ PlaceEntryOrder
  BY <1>7, <1>0 DEF NoEntry, Others, Goto, Rest, Blocked, MayEnter,
     FindExisting, SetIn, LockEntryGroup, Attempt, LockEntryLeg, NextEntryLeg,
     PlaceEntryOrder, Enter, market
<1>8. CASE \/ EntryOrderRaises \/ EntryAccepted \/ EntryRefused \/ QuoteLeg
           \/ InsertRow \/ SettleEntry
  BY <1>8, <1>0 DEF EntryOrderRaises, Others, Goto, Rest, Enter,
     EntryAccepted, MarkEntryLock, EntryRefused, NextEntryLeg, QuoteLeg,
     InsertRow, FindBeforeInsert, InsertNewRow, SettleEntry, market
<1>9. CASE \/ Scan \/ RepairPosition \/ WriteBack
           \/ (\E i \in DOMAIN orders : Fill(i))
           \/ (\E i \in DOMAIN orders : Reject(i))
  BY <1>9, <1>0 DEF Scan, Refreshing, RepairPosition, WriteBack, Fill, Reject,
     market
<1>10. CASE \/ (\E i \in DOMAIN orders : ReadPostback(i)) \/ SavePostback
            \/ PostbackSettles \/ Retire \/ ReadRequest \/ CommitRequest
            \/ Restart
  BY <1>10, <1>0 DEF ReadPostback, SavePostback, PostbackSettles, Retire,
     Requesting, Upset, ReadRequest, ReadToStart, ReadToReset, ReadToEdit,
     CommitRequest, CommitReset, ResetTo, Committing, CommitEdit, Restart,
     Others, Goto, market
<1>11. CASE Crash
  <2>1. InExit => leg \in Legs \cup {0}
    BY DEF InExit, LegInRange
  <2>2. InExit => {cur} \X (1 .. leg) \subseteq Hedges \X Legs
    BY <1>0, <2>1, HedgeFacts DEF Legs
  <2>3. failed' = failed \cup (IF InExit THEN {cur} \X (1 .. leg) ELSE {})
    BY <1>11 DEF Crash, Fails
  <2>. QED BY <1>0, <2>2, <2>3
<1>. QED BY <1>1, <1>2, <1>3, <1>4, <1>5, <1>6, <1>7, <1>8, <1>9, <1>10, <1>11
   DEF Next, Round, Exit, Entry, Refresher, Market, Postback

\* A row once reopened counts as such from then on.
LEMMA ReopenedStep ==
  ASSUME TypeOK, LegInRange, Next
  PROVE  reopened \subseteq reopened' /\ reopened' \subseteq Hedges
<1>0. reopened \subseteq Hedges
  BY DEF TypeOK
<1>1. CASE \/ Dispatch \/ Snapshot \/ Look \/ Find \/ SetOut
  BY <1>1, <1>0 DEF Dispatch, Others, Goto, Snapshot, Rest, Look, Find,
     SetOut, market
<1>2. CASE \/ KeepRow \/ ExitRow \/ AllRowsSeen \/ LockExitLeg \/ PeekLock
           \/ SquareOff \/ CheckExitOrder \/ MarkFailed
  BY <1>2, <1>0 DEF KeepRow, Others, Goto, ExitRow, AllRowsSeen, LockExitLeg,
     PeekLock, SquareOff, SquareOffPosition, SquareOffLimit, Accept, CallFails,
     Fails, CheckExitOrder, MarkFailed, market
<1>3. CASE \/ EndAliceExit \/ SendExit \/ SendExitRaises \/ EndExit
           \/ SaveStrategy
  BY <1>3, <1>0 DEF EndAliceExit, Others, Goto, SendExit, Accept, CallFails,
     Fails, SendExitRaises, Rest, EndExit, SaveStrategy, market
<1>4. CASE SaveRow
  BY <1>4, <1>0, SaveRowIs
<1>5. CASE \/ NoEntry \/ Blocked \/ FindExisting \/ SetIn \/ LockEntryGroup
           \/ Attempt \/ LockEntryLeg \/ PlaceEntryOrder
  BY <1>5, <1>0 DEF NoEntry, Others, Goto, Rest, Blocked, MayEnter,
     FindExisting, SetIn, LockEntryGroup, Attempt, LockEntryLeg, NextEntryLeg,
     PlaceEntryOrder, Enter, market
<1>6. CASE \/ EntryOrderRaises \/ EntryAccepted \/ EntryRefused \/ QuoteLeg
           \/ InsertRow \/ SettleEntry
  BY <1>6, <1>0 DEF EntryOrderRaises, Others, Goto, Rest, Enter,
     EntryAccepted, MarkEntryLock, EntryRefused, NextEntryLeg, QuoteLeg,
     InsertRow, FindBeforeInsert, InsertNewRow, SettleEntry, market
<1>7. CASE \/ Scan \/ RepairPosition \/ (\E i \in DOMAIN orders : Fill(i))
           \/ (\E i \in DOMAIN orders : Reject(i))
  BY <1>7, <1>0 DEF Scan, Refreshing, RepairPosition, Fill, Reject, market
<1>8. CASE WriteBack
  BY <1>8, <1>0, WriteBackIs
<1>9. CASE \/ (\E i \in DOMAIN orders : ReadPostback(i)) \/ SavePostback
           \/ PostbackSettles \/ Retire \/ ReadRequest \/ CommitRequest \/ Crash
           \/ Restart
  BY <1>9, <1>0 DEF ReadPostback, SavePostback, PostbackSettles, Retire,
     Requesting, Upset, ReadRequest, ReadToStart, ReadToReset, ReadToEdit,
     CommitRequest, CommitReset, ResetTo, Committing, CommitEdit, Crash,
     Restart, Others, Goto, market
<1>. QED BY <1>1, <1>2, <1>3, <1>4, <1>5, <1>6, <1>7, <1>8, <1>9 DEF Next,
   Round, Exit, Entry, Refresher, Market, Postback

\* The type invariant is kept.
LEMMA TypeStep ==
  ASSUME TypeOK, LegInRange, Next
  PROVE  TypeOK' /\ LegInRange'
<1>1. account' = account /\ account \in Accounts
  BY AccountStep DEF TypeOK
<1>. QED BY <1>1, StrategyStep, MemStep, RowsStep, HeldIs, OrdersGrow, CopiesStep, SnapshotStep,
            PostbackStep, RequestStep, PlaceStep, CurStep, TallyStep, LegStep, RefresherStep,
            FailedStep, ReopenedStep
         DEF TypeOK, LegInRange

-----------------------------------------------------------------------------
(* Copies say what was so, and stays so.                                   *)

\* An executed exit stays executed.
LEMMA TradedGrows ==
  ASSUME TypeOK, LegInRange, Next
  PROVE  \A h, l : TradedIn(orders, h, l) => TradedIn(orders', h, l)
BY OrdersGrow DEF TradedIn

\* What a copy says of the orders stays true.
LEMMA MatchedGrows ==
  ASSUME TypeOK, LegInRange, Next
  PROVE  \A h, r : MatchedIn(orders, h, r) => MatchedIn(orders', h, r)
<1>1. SUFFICES ASSUME NEW h, NEW r, MatchedIn(orders, h, r), NEW l \in Legs
      PROVE  /\ r.id[l] > 0 => r.id[l] \in DOMAIN orders' /\ orders'[r.id[l]].h = h /\ orders'[r.id[l]].l = l
             /\ r.exit[l] = "complete" => TradedIn(orders', h, l)
             /\ r.lock[l] = "complete" => TradedIn(orders', h, l)
  BY DEF MatchedIn
<1>2. /\ r.id[l] > 0 => r.id[l] \in DOMAIN orders /\ orders[r.id[l]].h = h /\ orders[r.id[l]].l = l
      /\ r.exit[l] = "complete" => TradedIn(orders, h, l)
      /\ r.lock[l] = "complete" => TradedIn(orders, h, l)
  BY <1>1 DEF MatchedIn
<1>. QED BY <1>2, TradedGrows, OrdersGrow

\* The row of a hedge stays, with its legs; a hedge gets one when its entry
\* ends.
LEMMA KnownStep ==
  ASSUME IInv, Next
  PROVE  \A h \in Hedges :
            /\ rows[h].status # "none" => rows'[h].status # "none" /\ rows'[h].legs = rows[h].legs
            /\ rows[h].status = "none" =>
                  \/ rows'[h] = rows[h]
                  \/ /\ InsertRow /\ h = cur /\ pc = "insert" /\ pc' = "settle"
                     /\ rows'[h].status = "open" /\ rows'[h].legs = tally.legs
<1>. DEFINE Goal == \A h \in Hedges :
            /\ rows[h].status # "none" => rows'[h].status # "none" /\ rows'[h].legs = rows[h].legs
            /\ rows[h].status = "none" =>
                  \/ rows'[h] = rows[h]
                  \/ /\ InsertRow /\ h = cur /\ pc = "insert" /\ pc' = "settle"
                     /\ rows'[h].status = "open" /\ rows'[h].legs = tally.legs
<1>. SUFFICES Goal
  OBVIOUS
<1>0. TypeOK /\ LegInRange /\ cur \in Hedges
  BY DEF IInv, TypeOK
<1>u. rows' = rows => Goal
  OBVIOUS
<1>1. CASE \/ Dispatch \/ Snapshot \/ Look \/ Find \/ SetOut
  BY <1>1, <1>u DEF Dispatch, Others, Goto, Snapshot, Rest, Look, Find,
     SetOut, market
<1>2. CASE \/ KeepRow \/ ExitRow \/ AllRowsSeen \/ PeekLock \/ SquareOff
           \/ EndAliceExit \/ SendExit \/ SendExitRaises
  BY <1>2, <1>u DEF KeepRow, Others, Goto, ExitRow, AllRowsSeen, PeekLock,
     SquareOff, SquareOffPosition, SquareOffLimit, Accept, CallFails, Fails,
     EndAliceExit, SendExit, SendExitRaises, Rest, market
<1>3. CASE \/ LockExitLeg \/ CheckExitOrder \/ MarkFailed
  <2>1. Exiting
    BY <1>3 DEF Exiting, LockExitLeg, CheckExitOrder, MarkFailed
  <2>2. rows[cur].status # "none"
    BY <1>0, <2>1 DEF IInv, EngineHolds, CopiesHold, CopyOf
  <2>. QED BY <1>3, <1>0, <1>u, <2>2, LocksAre DEF Rewrites
<1>4. CASE \/ EndExit \/ SaveStrategy
  BY <1>4, <1>u DEF EndExit, Others, Goto, SaveStrategy, market
<1>5. CASE SaveRow
  <2>1. copies[cur].status # "none" /\ rows[cur].status # "none" /\ copies[cur].legs = rows[cur].legs
    BY <1>5, <1>0 DEF SaveRow, IInv, EngineHolds, CopiesHold, CopyOf
  <2>. QED BY <1>5, <1>0, <2>1, SaveRowIs DEF Rewrites
<1>6. CASE \/ NoEntry \/ Blocked \/ FindExisting \/ SetIn \/ LockEntryGroup
           \/ Attempt \/ LockEntryLeg \/ PlaceEntryOrder
  BY <1>6, <1>u DEF NoEntry, Others, Goto, Rest, Blocked, MayEnter,
     FindExisting, SetIn, LockEntryGroup, Attempt, LockEntryLeg, NextEntryLeg,
     PlaceEntryOrder, Enter, market
<1>7. CASE \/ EntryOrderRaises \/ EntryAccepted \/ EntryRefused \/ QuoteLeg
           \/ SettleEntry
  BY <1>7, <1>u DEF EntryOrderRaises, Others, Goto, Rest, Enter,
     EntryAccepted, MarkEntryLock, EntryRefused, NextEntryLeg, QuoteLeg,
     SettleEntry, market
<1>8. CASE InsertRow
  <2>1. rows[cur].status = "none" /\ pc \in {"lock_entry", "insert"}
    BY <1>8, <1>0 DEF InsertRow, FindBeforeInsert, InsertNewRow, IInv, EngineHolds, Entering
  <2>. QED BY <1>8, <1>0, <1>u, <2>1, InsertRowIs DEF Rewrites
<1>9. CASE \/ Scan \/ RepairPosition \/ (\E i \in DOMAIN orders : Fill(i))
           \/ (\E i \in DOMAIN orders : Reject(i))
  BY <1>9, <1>u DEF Scan, Refreshing, RepairPosition, Fill, Reject, market
<1>10. CASE WriteBack
  <2>. DEFINE h == First(rtodo)
  <2>1. h \in rtodo /\ h \in Hedges
    BY <1>10, <1>0, WriteBackIs
  <2>2. rcopies[h].status = "open" /\ rows[h].status # "none" /\ rcopies[h].legs = rows[h].legs
    BY <2>1 DEF IInv, RCopiesHold, CopyOf
  <2>3. \/ rows' = rows
        \/ Rewrites(h) /\ rows'[h].status = rcopies[h].status /\ rows'[h].legs = rcopies[h].legs
    BY <1>10, <1>0, WriteBackIs
  <2>. HIDE DEF h
  <2>. QED BY <1>u, <2>1, <2>2, <2>3 DEF Rewrites
<1>11. CASE \/ (\E i \in DOMAIN orders : ReadPostback(i)) \/ PostbackSettles
            \/ Retire \/ ReadRequest \/ CommitRequest \/ Crash \/ Restart
  BY <1>11, <1>u DEF ReadPostback, PostbackSettles, Retire, Requesting, Upset,
     ReadRequest, ReadToStart, ReadToReset, ReadToEdit, CommitRequest,
     CommitReset, ResetTo, Committing, CommitEdit, Crash, Restart, Others, Goto,
     market
<1>12. CASE SavePostback
  <2>1. rows[pb.h].status # "none"
    BY <1>12 DEF SavePostback, IInv, PostbackHolds
  <2>. QED BY <1>12, <1>0, <2>1, SavePostbackIs, OutcomeIs DEF Rewrites
<1>. QED BY <1>1, <1>2, <1>3, <1>4, <1>5, <1>6, <1>7, <1>8, <1>9, <1>10,
   <1>11, <1>12 DEF Next, Round, Exit, Entry, Refresher, Market, Postback

\* RowsHold is kept.
LEMMA RowsHoldStep ==
  ASSUME IInv, Next
  PROVE  RowsHold'
<1>. DEFINE Goal == \A h \in Hedges : MatchedIn(orders', h, rows'[h]) /\ Fresh(rows'[h])
<1>0. TypeOK /\ LegInRange /\ cur \in Hedges
  BY DEF IInv, TypeOK
<1>m. \A h \in Hedges : MatchedIn(orders', h, rows[h]) /\ Fresh(rows[h])
  BY <1>0, MatchedGrows DEF IInv, RowsHold, Matched
<1>u. rows' = rows => Goal
  BY <1>m
<1>a. \A h \in Hedges : rows'[h].status = "none" => rows'[h] = NoRow
  BY KnownStep DEF IInv, RowsHold
<1>b. \A i \in DOMAIN orders' : rows'[orders'[i].h].status # "none"
  <2>1. SUFFICES ASSUME NEW i \in DOMAIN orders'
                 PROVE  rows'[orders'[i].h].status # "none"
    OBVIOUS
  <2>2. CASE i \in DOMAIN orders
    <3>1. orders \in Seq(Orders) /\ orders[i] \in Orders
      BY <1>0, <2>2 DEF TypeOK
    <3>2. orders[i].h \in Hedges /\ rows[orders[i].h].status # "none"
      BY <2>2, <3>1 DEF IInv, RowsHold, Orders
    <3>. QED BY <1>0, <2>2, <3>2, KnownStep, OrdersGrow
  <2>3. CASE i \notin DOMAIN orders
    <3>1. pc \in {"square_off", "limit", "send"} /\ orders'[i].h = cur
      BY <1>0, <2>1, <2>3, OrdersGrow
    <3>2. rows[cur].status # "none"
      BY <1>0, <3>1 DEF IInv, EngineHolds, CopiesHold, CopyOf, Exiting
    <3>. QED BY <1>0, <3>1, <3>2, KnownStep
  <2>. QED BY <2>2, <2>3
<1>c. SUFFICES Goal
  BY <1>a, <1>b DEF RowsHold, Matched, Fresh
<1>1. CASE \/ Dispatch \/ Snapshot \/ Look \/ Find \/ SetOut
  BY <1>1, <1>u DEF Dispatch, Others, Goto, Snapshot, Rest, Look, Find,
     SetOut, market
<1>2. CASE \/ KeepRow \/ ExitRow \/ AllRowsSeen \/ PeekLock \/ SquareOff
           \/ EndAliceExit \/ SendExit \/ SendExitRaises
  BY <1>2, <1>u DEF KeepRow, Others, Goto, ExitRow, AllRowsSeen, PeekLock,
     SquareOff, SquareOffPosition, SquareOffLimit, Accept, CallFails, Fails,
     EndAliceExit, SendExit, SendExitRaises, Rest, market
<1>3. CASE \/ LockExitLeg \/ CheckExitOrder \/ MarkFailed
  <2>0. CASE rows' = rows
    BY <1>u, <2>0
  <2>1. CASE rows' # rows
    <3>1. PICK x \in LockStates : /\ rows'[cur].lock = [rows[cur].lock EXCEPT ![leg] = x]
                                  /\ x = "complete" => Traded(cur, leg)
      BY <1>3, <1>0, <2>1, LocksAre
    <3>2. /\ rows'[cur].exit = rows[cur].exit /\ rows'[cur].id = rows[cur].id
          /\ rows'[cur].status = rows[cur].status \/ rows'[cur].status = "exit_pending"
          /\ Rewrites(cur)
      BY <1>3, <1>0, <2>1, LocksAre
    <3>3. rows[cur].lock \in [Legs -> LockStates]
      BY <1>0 DEF TypeOK, Rows
    <3>4. x = "complete" => TradedIn(orders', cur, leg)
      <4>1. TradedIn(orders, cur, leg) => TradedIn(orders', cur, leg)
        BY <1>0, TradedGrows
      <4>. QED BY <3>1, <4>1 DEF Traded
    <3>5. \A l \in Legs : rows'[cur].lock[l] = "complete" => TradedIn(orders', cur, l)
      <4>1. \A l \in Legs : rows[cur].lock[l] = "complete" => TradedIn(orders', cur, l)
        BY <1>0, <1>m DEF MatchedIn
      <4>2. \A l \in Legs : rows'[cur].lock[l] = IF l = leg THEN x ELSE rows[cur].lock[l]
        BY <3>1, <3>3
      <4>. QED BY <3>4, <4>1, <4>2
    <3>6. MatchedIn(orders', cur, rows'[cur])
      BY <1>0, <1>m, <3>2, <3>5 DEF MatchedIn
    <3>7. Fresh(rows'[cur])
      BY <1>0, <1>m, <3>2 DEF Fresh
    <3>. QED BY <1>m, <3>2, <3>6, <3>7 DEF Rewrites
  <2>. QED BY <2>0, <2>1
<1>4. CASE \/ EndExit \/ SaveStrategy
  BY <1>4, <1>u DEF EndExit, Others, Goto, SaveStrategy, market
<1>5. CASE SaveRow
  <2>1. MatchedIn(orders', cur, copies[cur]) /\ Fresh(copies[cur])
    BY <1>0, MatchedGrows DEF IInv, CopiesHold, Matched
  <2>2. \A l \in Legs : rows'[cur].lock[l] = "complete" => TradedIn(orders', cur, l)
    BY <1>5, <1>0, <1>m, <2>1, SaveRowIs DEF MatchedIn
  <2>3. MatchedIn(orders', cur, rows'[cur])
    BY <1>5, <1>0, <2>1, <2>2, SaveRowIs DEF MatchedIn
  <2>4. Fresh(rows'[cur])
    BY <1>5, <1>0, <2>1, SaveRowIs DEF Fresh
  <2>. QED BY <1>5, <1>0, <1>m, <2>3, <2>4, SaveRowIs DEF Rewrites
<1>6. CASE \/ NoEntry \/ Blocked \/ FindExisting \/ SetIn \/ LockEntryGroup
           \/ Attempt \/ LockEntryLeg \/ PlaceEntryOrder
  BY <1>6, <1>u DEF NoEntry, Others, Goto, Rest, Blocked, MayEnter,
     FindExisting, SetIn, LockEntryGroup, Attempt, LockEntryLeg, NextEntryLeg,
     PlaceEntryOrder, Enter, market
<1>7. CASE \/ EntryOrderRaises \/ EntryAccepted \/ EntryRefused \/ QuoteLeg
           \/ SettleEntry
  BY <1>7, <1>u DEF EntryOrderRaises, Others, Goto, Rest, Enter,
     EntryAccepted, MarkEntryLock, EntryRefused, NextEntryLeg, QuoteLeg,
     SettleEntry, market
<1>8. CASE InsertRow
  <2>0. CASE rows' = rows
    BY <1>u, <2>0
  <2>1. CASE rows' # rows
    <3>1. /\ Rewrites(cur)
          /\ \A l \in Legs : /\ rows'[cur].exit[l] = "none" /\ rows'[cur].id[l] = 0
                             /\ rows'[cur].lock[l] = "none"
      BY <1>8, <1>0, <2>1, InsertRowIs
    <3>. QED BY <1>m, <3>1 DEF Rewrites, MatchedIn, Fresh
  <2>. QED BY <2>0, <2>1
<1>9. CASE \/ Scan \/ RepairPosition \/ (\E i \in DOMAIN orders : Fill(i))
           \/ (\E i \in DOMAIN orders : Reject(i))
  BY <1>9, <1>u DEF Scan, Refreshing, RepairPosition, Fill, Reject, market
<1>10. CASE WriteBack
  <2>. DEFINE h == First(rtodo)
  <2>1. h \in Hedges
    BY <1>10, <1>0, WriteBackIs
  <2>2. MatchedIn(orders', h, rcopies[h]) /\ Fresh(rcopies[h])
    BY <1>0, <2>1, MatchedGrows DEF IInv, RCopiesHold, Matched
  <2>3. \/ rows' = rows
        \/ /\ Rewrites(h) /\ rows'[h].status = rcopies[h].status
           /\ rows'[h].exit = rcopies[h].exit /\ rows'[h].id = rcopies[h].id
           /\ rows'[h].lock \in {rcopies[h].lock, rows[h].lock}
    BY <1>10, <1>0, WriteBackIs
  <2>. HIDE DEF h
  <2>4. CASE rows' = rows
    BY <1>u, <2>4
  <2>5. CASE rows' # rows
    <3>2. \A l \in Legs : rows'[h].lock[l] = "complete" => TradedIn(orders', h, l)
      BY <1>m, <2>1, <2>2, <2>3, <2>5 DEF MatchedIn
    <3>3. MatchedIn(orders', h, rows'[h])
      BY <2>2, <2>3, <2>5, <3>2 DEF MatchedIn
    <3>4. Fresh(rows'[h])
      BY <2>2, <2>3, <2>5 DEF Fresh
    <3>. QED BY <1>m, <2>3, <2>5, <3>3, <3>4 DEF Rewrites
  <2>. QED BY <2>4, <2>5
<1>11. CASE \/ (\E i \in DOMAIN orders : ReadPostback(i)) \/ PostbackSettles
            \/ Retire \/ ReadRequest \/ CommitRequest \/ Crash \/ Restart
  BY <1>11, <1>u DEF ReadPostback, PostbackSettles, Retire, Requesting, Upset,
     ReadRequest, ReadToStart, ReadToReset, ReadToEdit, CommitRequest,
     CommitReset, ResetTo, Committing, CommitEdit, Crash, Restart, Others, Goto,
     market
<1>12. CASE SavePostback
  <2>1. MatchedIn(orders', pb.h, pb.row)
    BY <1>12, <1>0, MatchedGrows DEF SavePostback, IInv, PostbackHolds, Matched
  <2>2. pb.h \in Hedges /\ Rewrites(pb.h) /\ rows'[pb.h].status # "open"
        /\ rows'[pb.h].exit = pb.row.exit /\ rows'[pb.h].id = pb.row.id
        /\ rows'[pb.h].lock = rows[pb.h].lock
    BY <1>12, <1>0, SavePostbackIs, OutcomeIs
  <2>3. MatchedIn(orders', pb.h, rows'[pb.h])
    BY <1>m, <2>1, <2>2 DEF MatchedIn
  <2>. QED BY <1>m, <2>2, <2>3 DEF Rewrites, Fresh
<1>. QED BY <1>1, <1>2, <1>3, <1>4, <1>5, <1>6, <1>7, <1>8, <1>9, <1>10,
   <1>11, <1>12 DEF Next, Round, Exit, Entry, Refresher, Market, Postback

\* CopiesHold is kept.
LEMMA CopiesHoldStep ==
  ASSUME IInv, Next
  PROVE  CopiesHold'
<1>. DEFINE Good(h, r) == /\ MatchedIn(orders', h, r) /\ Fresh(r)
                          /\ r.status # "none" => rows'[h].status # "none" /\ r.legs = rows'[h].legs
            Goal == /\ \A h \in Hedges : Good(h, copies'[h])
                    /\ \A h \in todo' : copies'[h].status = "open"
<1>. SUFFICES Goal
  BY DEF CopiesHold, Matched, CopyOf
<1>0. TypeOK /\ LegInRange /\ cur \in Hedges /\ todo \subseteq Hedges
  BY DEF IInv, TypeOK
<1>m. \A h \in Hedges : Good(h, copies[h])
  BY <1>0, MatchedGrows, KnownStep DEF IInv, CopiesHold, CopyOf, Matched
<1>r. \A h \in Hedges : Good(h, rows[h])
  BY <1>0, MatchedGrows, KnownStep DEF IInv, RowsHold, Matched
<1>n. \A h \in Hedges : Good(h, NoRow)
  BY BlankTyped DEF MatchedIn, Fresh, Absent
<1>o. \A h \in todo : copies[h].status = "open"
  BY DEF IInv, CopiesHold
<1>. HIDE DEF Good
<1>u. copies' = copies /\ todo' \subseteq todo => Goal
  BY <1>m, <1>o
<1>k. copies' = NoRows /\ todo' = {} => Goal
  BY <1>n DEF NoRows
<1>f. copies' = [h \in Hedges |-> IF h \in Open THEN rows[h] ELSE NoRow] /\ todo' = Open => Goal
  BY <1>r, <1>n DEF Open
<1>1. CASE \/ Dispatch \/ Snapshot \/ Look \/ Find \/ SetOut
  BY <1>1, <1>u, <1>k, <1>f DEF Dispatch, Others, Goto, Snapshot, Rest, Look,
     Find, SetOut, engine
<1>2. CASE \/ KeepRow \/ AllRowsSeen \/ LockExitLeg \/ PeekLock \/ SquareOff
           \/ CheckExitOrder \/ MarkFailed \/ SendExitRaises
  BY <1>2, <1>u, <1>k, <1>f DEF KeepRow, Others, Goto, AllRowsSeen, LockExitLeg,
     PeekLock, SquareOff, SquareOffPosition, SquareOffLimit, Accept, CallFails,
     Fails, CheckExitOrder, MarkFailed, SendExitRaises, Rest, engine
<1>3. CASE ExitRow
  <2>. DEFINE h == First(todo)
  <2>1. h \in Hedges /\ Recopies(h) /\ todo' \subseteq todo \ {h}
        /\ copies'[h].status = "exit_pending" /\ copies'[h].legs = copies[h].legs
        /\ copies'[h].exit = copies[h].exit /\ copies'[h].id = copies[h].id
        /\ copies'[h].lock = copies[h].lock
    BY <1>3, <1>0, ExitRowIs
  <2>2. h \in todo
    BY <1>3, <1>0, ExitRowIs
  <2>. HIDE DEF h
  <2>3. Good(h, copies'[h])
    BY <1>m, <1>o, <2>1, <2>2 DEF Good, MatchedIn, Fresh
  <2>4. \A g \in Hedges : Good(g, copies'[g])
    BY <1>m, <2>1, <2>3 DEF Recopies
  <2>5. \A g \in todo' : copies'[g].status = "open"
    BY <1>0, <1>o, <2>1 DEF Recopies
  <2>. QED BY <2>4, <2>5
<1>4. CASE \/ EndExit \/ EndAliceExit
  <2>1. cur \in Hedges /\ Recopies(cur)
        /\ copies'[cur].status \in {"close", "exit_failed", "exit_pending"}
        /\ copies'[cur].legs = copies[cur].legs
        /\ copies'[cur].exit = copies[cur].exit /\ copies'[cur].id = copies[cur].id
        /\ copies'[cur].lock = copies[cur].lock
    BY <1>4, <1>0, EndExitIs
  <2>2. copies[cur].status = "exit_pending" /\ todo' = todo
    BY <1>4 DEF IInv, EngineHolds, Exiting, EndExit, EndAliceExit
  <2>3. Good(cur, copies'[cur])
    BY <1>m, <2>1, <2>2 DEF Good, MatchedIn, Fresh
  <2>4. \A g \in Hedges : Good(g, copies'[g])
    BY <1>m, <2>1, <2>3 DEF Recopies
  <2>5. \A g \in todo' : copies'[g].status = "open"
    BY <1>0, <1>o, <2>1, <2>2 DEF Recopies
  <2>. QED BY <2>4, <2>5
<1>5. CASE SendExit
  <2>1. cur \in Hedges /\ leg \in Legs /\ Recopies(cur)
        /\ copies'[cur].status = copies[cur].status /\ copies'[cur].legs = copies[cur].legs
        /\ copies'[cur].lock = copies[cur].lock
    BY <1>5, <1>0, SendExitIs
  <2>2. copies[cur].status = "exit_pending" /\ todo' = todo
    BY <1>5 DEF IInv, EngineHolds, SendExit
  <2>3. PICK x \in {"submitted", "refused"} : \E d \in 0 .. MaxOrders :
           /\ copies'[cur].exit = [copies[cur].exit EXCEPT ![leg] = x]
           /\ copies'[cur].id = [copies[cur].id EXCEPT ![leg] = d]
           /\ \/ x = "submitted" /\ Accept /\ d = Len(orders) + 1
              \/ x = "refused" /\ d = 0
    BY <1>5, <1>0, SendExitIs
  <2>4. PICK d \in 0 .. MaxOrders :
           /\ copies'[cur].exit = [copies[cur].exit EXCEPT ![leg] = x]
           /\ copies'[cur].id = [copies[cur].id EXCEPT ![leg] = d]
           /\ \/ x = "submitted" /\ Accept /\ d = Len(orders) + 1
              \/ x = "refused" /\ d = 0
    BY <2>3
  <2>5. d > 0 => d \in DOMAIN orders' /\ orders'[d].h = cur /\ orders'[d].l = leg
    <3>. DEFINE y == [h |-> cur, l |-> leg, state |-> "working"]
    <3>1. y \in Orders /\ y.h = cur /\ y.l = leg
      BY <2>1 DEF Orders
    <3>2. d > 0 => orders' = Append(orders, y) /\ d = Len(orders) + 1
      BY <2>4 DEF Accept
    <3>3. orders \in Seq(Orders)
      BY <1>0 DEF TypeOK
    <3>. HIDE DEF y
    <3>. QED BY <3>1, <3>2, <3>3, AppendIs
  <2>6. copies[cur].exit \in [Legs -> ExitStates] /\ copies[cur].id \in [Legs -> 0 .. MaxOrders]
    BY <1>0 DEF TypeOK, Rows
  <2>7. \A l \in Legs : /\ copies'[cur].exit[l] = IF l = leg THEN x ELSE copies[cur].exit[l]
                        /\ copies'[cur].id[l] = IF l = leg THEN d ELSE copies[cur].id[l]
    BY <2>4, <2>6
  <2>8. MatchedIn(orders', cur, copies[cur])
    BY <1>m, <2>1 DEF Good
  <2>9. MatchedIn(orders', cur, copies'[cur])
    BY <2>1, <2>5, <2>7, <2>8 DEF MatchedIn
  <2>10. Good(cur, copies'[cur])
    BY <1>m, <2>1, <2>2, <2>9 DEF Good, Fresh
  <2>11. \A g \in Hedges : Good(g, copies'[g])
    BY <1>m, <2>1, <2>10 DEF Recopies
  <2>12. \A g \in todo' : copies'[g].status = "open"
    BY <1>0, <1>o, <2>1, <2>2 DEF Recopies
  <2>. QED BY <2>11, <2>12
<1>6. CASE \/ SaveStrategy \/ SaveRow
  BY <1>6, <1>u, <1>k, <1>f DEF SaveStrategy, Others, Goto, SaveRow, engine
<1>7. CASE \/ NoEntry \/ Blocked \/ FindExisting \/ SetIn \/ LockEntryGroup
           \/ Attempt \/ LockEntryLeg \/ PlaceEntryOrder
  BY <1>7, <1>u, <1>k, <1>f DEF NoEntry, Others, Goto, Rest, Blocked,
     MayEnter, FindExisting, SetIn, LockEntryGroup, Attempt, LockEntryLeg,
     NextEntryLeg, PlaceEntryOrder, Enter, engine
<1>8. CASE \/ EntryOrderRaises \/ EntryAccepted \/ EntryRefused \/ QuoteLeg
           \/ InsertRow \/ SettleEntry
  BY <1>8, <1>u, <1>k, <1>f DEF EntryOrderRaises, Others, Goto, Rest, Enter,
     EntryAccepted, MarkEntryLock, EntryRefused, NextEntryLeg, QuoteLeg,
     InsertRow, FindBeforeInsert, InsertNewRow, SettleEntry, engine
<1>9. CASE \/ Scan \/ RepairPosition \/ WriteBack
           \/ (\E i \in DOMAIN orders : Fill(i))
           \/ (\E i \in DOMAIN orders : Reject(i))
  BY <1>9, <1>u, <1>k, <1>f DEF Scan, Refreshing, RepairPosition, WriteBack,
     Fill, Reject, engine
<1>10. CASE \/ (\E i \in DOMAIN orders : ReadPostback(i)) \/ SavePostback
            \/ PostbackSettles \/ Retire \/ ReadRequest \/ CommitRequest
            \/ Crash \/ Restart
  BY <1>10, <1>u, <1>k, <1>f DEF ReadPostback, SavePostback, PostbackSettles,
     Retire, Requesting, Upset, ReadRequest, ReadToStart, ReadToReset,
     ReadToEdit, CommitRequest, CommitReset, ResetTo, Committing, CommitEdit,
     Crash, Restart, Others, Goto, engine
<1>. QED BY <1>1, <1>2, <1>3, <1>4, <1>5, <1>6, <1>7, <1>8, <1>9, <1>10 DEF
   Next, Round, Exit, Entry, Refresher, Market, Postback

\* RCopiesHold is kept.
LEMMA RCopiesHoldStep ==
  ASSUME IInv, Next
  PROVE  RCopiesHold'
<1>. DEFINE Good(h, r) == /\ MatchedIn(orders', h, r) /\ Fresh(r)
                          /\ r.status # "none" => rows'[h].status # "none" /\ r.legs = rows'[h].legs
            Goal == /\ \A h \in Hedges : Good(h, rcopies'[h])
                    /\ \A h \in rtodo' : rcopies'[h].status = "open"
<1>. SUFFICES Goal
  BY DEF RCopiesHold, Matched, CopyOf
<1>0. TypeOK /\ LegInRange /\ cur \in Hedges /\ rtodo \subseteq Hedges
  BY DEF IInv, TypeOK
<1>m. \A h \in Hedges : Good(h, rcopies[h])
  BY <1>0, MatchedGrows, KnownStep DEF IInv, RCopiesHold, CopyOf, Matched
<1>r. \A h \in Hedges : Good(h, rows[h])
  BY <1>0, MatchedGrows, KnownStep DEF IInv, RowsHold, Matched
<1>n. \A h \in Hedges : Good(h, NoRow)
  BY BlankTyped DEF MatchedIn, Fresh, Absent
<1>o. \A h \in rtodo : rcopies[h].status = "open"
  BY DEF IInv, RCopiesHold
<1>. HIDE DEF Good
<1>u. rcopies' = rcopies /\ rtodo' \subseteq rtodo => Goal
  BY <1>m, <1>o
<1>k. rcopies' = NoRows /\ rtodo' = {} => Goal
  BY <1>n DEF NoRows
<1>f. rcopies' = [h \in Hedges |-> IF h \in Open THEN rows[h] ELSE NoRow] /\ rtodo' = Open => Goal
  BY <1>r, <1>n DEF Open
<1>w. rcopies' = NoRows /\ rtodo' = {} => Goal
  BY <1>n DEF NoRows
<1>1. CASE \/ Dispatch \/ Snapshot \/ Look \/ Find \/ SetOut
  BY <1>1, <1>u, <1>k, <1>f DEF Dispatch, Others, Goto, Snapshot, Rest, Look,
     Find, SetOut, refresher
<1>2. CASE \/ KeepRow \/ ExitRow \/ AllRowsSeen \/ LockExitLeg \/ PeekLock
           \/ SquareOff \/ CheckExitOrder \/ MarkFailed
  BY <1>2, <1>u, <1>k, <1>f DEF KeepRow, Others, Goto, ExitRow, AllRowsSeen,
     LockExitLeg, PeekLock, SquareOff, SquareOffPosition, SquareOffLimit,
     Accept, CallFails, Fails, CheckExitOrder, MarkFailed, refresher
<1>3. CASE \/ EndAliceExit \/ SendExit \/ SendExitRaises \/ EndExit
           \/ SaveStrategy \/ SaveRow
  BY <1>3, <1>u, <1>k, <1>f DEF EndAliceExit, Others, Goto, SendExit, Accept,
     CallFails, Fails, SendExitRaises, Rest, EndExit, SaveStrategy, SaveRow,
     refresher
<1>4. CASE \/ NoEntry \/ Blocked \/ FindExisting \/ SetIn \/ LockEntryGroup
           \/ Attempt \/ LockEntryLeg \/ PlaceEntryOrder
  BY <1>4, <1>u, <1>k, <1>f DEF NoEntry, Others, Goto, Rest, Blocked,
     MayEnter, FindExisting, SetIn, LockEntryGroup, Attempt, LockEntryLeg,
     NextEntryLeg, PlaceEntryOrder, Enter, refresher
<1>5. CASE \/ EntryOrderRaises \/ EntryAccepted \/ EntryRefused \/ QuoteLeg
           \/ InsertRow \/ SettleEntry
  BY <1>5, <1>u, <1>k, <1>f DEF EntryOrderRaises, Others, Goto, Rest, Enter,
     EntryAccepted, MarkEntryLock, EntryRefused, NextEntryLeg, QuoteLeg,
     InsertRow, FindBeforeInsert, InsertNewRow, SettleEntry, refresher
<1>6. CASE \/ Scan \/ RepairPosition \/ WriteBack
           \/ (\E i \in DOMAIN orders : Fill(i))
           \/ (\E i \in DOMAIN orders : Reject(i))
  BY <1>6, <1>u, <1>k, <1>f DEF Scan, Refreshing, RepairPosition, WriteBack,
     Fill, Reject, refresher
<1>7. CASE \/ (\E i \in DOMAIN orders : ReadPostback(i)) \/ SavePostback
           \/ PostbackSettles \/ Retire \/ ReadRequest \/ CommitRequest \/ Crash
           \/ Restart
  BY <1>7, <1>u, <1>k, <1>f DEF ReadPostback, SavePostback, PostbackSettles,
     Retire, Requesting, Upset, ReadRequest, ReadToStart, ReadToReset,
     ReadToEdit, CommitRequest, CommitReset, ResetTo, Committing, CommitEdit,
     Crash, Restart, Others, Goto, refresher
<1>. QED BY <1>1, <1>2, <1>3, <1>4, <1>5, <1>6, <1>7 DEF Next, Round, Exit,
   Entry, Refresher, Market, Postback

\* PostbackHolds is kept.
LEMMA PostbackHoldsStep ==
  ASSUME IInv, Next
  PROVE  PostbackHolds'
<1>0. TypeOK /\ LegInRange /\ cur \in Hedges /\ pb.h \in Hedges
  BY DEF IInv, TypeOK
<1>b. pb'.at = "none" => PostbackHolds'
  BY DEF PostbackHolds
<1>u. account' = account /\ pb'.h = pb.h /\ pb'.row = pb.row /\ pb.at # "none" => PostbackHolds'
  BY <1>0, MatchedGrows, KnownStep DEF IInv, PostbackHolds, Matched
<1>1. CASE \/ Dispatch \/ Snapshot \/ Look \/ Find \/ SetOut
  BY <1>1, <1>u, <1>b DEF Dispatch, Others, Goto, Snapshot, Rest, Look, Find,
     SetOut, web, NoPostback
<1>2. CASE \/ KeepRow \/ ExitRow \/ AllRowsSeen \/ LockExitLeg \/ PeekLock
           \/ SquareOff \/ CheckExitOrder \/ MarkFailed
  BY <1>2, <1>u, <1>b DEF KeepRow, Others, Goto, ExitRow, AllRowsSeen,
     LockExitLeg, PeekLock, SquareOff, SquareOffPosition, SquareOffLimit,
     Accept, CallFails, Fails, CheckExitOrder, MarkFailed, web, NoPostback
<1>3. CASE \/ EndAliceExit \/ SendExit \/ SendExitRaises \/ EndExit
           \/ SaveStrategy \/ SaveRow
  BY <1>3, <1>u, <1>b DEF EndAliceExit, Others, Goto, SendExit, Accept,
     CallFails, Fails, SendExitRaises, Rest, EndExit, SaveStrategy, SaveRow,
     web, NoPostback
<1>4. CASE \/ NoEntry \/ Blocked \/ FindExisting \/ SetIn \/ LockEntryGroup
           \/ Attempt \/ LockEntryLeg \/ PlaceEntryOrder
  BY <1>4, <1>u, <1>b DEF NoEntry, Others, Goto, Rest, Blocked, MayEnter,
     FindExisting, SetIn, LockEntryGroup, Attempt, LockEntryLeg, NextEntryLeg,
     PlaceEntryOrder, Enter, web, NoPostback
<1>5. CASE \/ EntryOrderRaises \/ EntryAccepted \/ EntryRefused \/ QuoteLeg
           \/ InsertRow \/ SettleEntry
  BY <1>5, <1>u, <1>b DEF EntryOrderRaises, Others, Goto, Rest, Enter,
     EntryAccepted, MarkEntryLock, EntryRefused, NextEntryLeg, QuoteLeg,
     InsertRow, FindBeforeInsert, InsertNewRow, SettleEntry, web, NoPostback
<1>6. CASE \/ Scan \/ RepairPosition \/ WriteBack
           \/ (\E i \in DOMAIN orders : Fill(i))
           \/ (\E i \in DOMAIN orders : Reject(i))
  BY <1>6, <1>u, <1>b DEF Scan, Refreshing, RepairPosition, WriteBack, Fill,
     Reject, web, NoPostback
<1>7. CASE \E i \in DOMAIN orders : ReadPostback(i)
  <2>1. PICK i \in DOMAIN orders : ReadPostback(i)
    BY <1>7
  <2>2. /\ account.broker = "dhan" /\ pb'.at = "row" /\ pb'.h \in Hedges
        /\ rows[pb'.h].status \in Unresolved
        /\ pb'.row.id = rows[pb'.h].id /\ pb'.row.lock = rows[pb'.h].lock
    BY <1>0, <2>1, ReadPostbackIs
  <2>3. PICK said \in {"submitted", "complete", "failed"} :
           /\ said = "complete" => orders[i].state = "traded"
           /\ \A l \in Legs : pb'.row.exit[l] =
                 IF rows[pb'.h].id[l] = i THEN said ELSE rows[pb'.h].exit[l]
    BY <1>0, <2>1, ReadPostbackIs
  <2>4. i > 0
    BY <1>0 DEF TypeOK
  <2>5. MatchedIn(orders, pb'.h, rows[pb'.h])
    BY <2>2 DEF IInv, RowsHold, Matched
  <2>6. \A l \in Legs : pb'.row.exit[l] = "complete" => TradedIn(orders, pb'.h, l)
    BY <2>3, <2>4, <2>5 DEF MatchedIn, TradedIn
  <2>7. MatchedIn(orders, pb'.h, pb'.row)
    BY <2>2, <2>5, <2>6 DEF MatchedIn
  <2>8. orders' = orders /\ rows' = rows /\ account' = account
    BY <2>1 DEF ReadPostback, market
  <2>9. rows'[pb'.h].status # "none"
    BY <2>2, <2>8 DEF Unresolved
  <2>. QED BY <2>2, <2>7, <2>8, <2>9 DEF PostbackHolds, Matched
<1>8. CASE SavePostback
  <2>1. \/ pb'.at = "none"
        \/ pb' = [pb EXCEPT !.at = "strategy"] /\ pb.at # "none" /\ account' = account
    BY <1>8 DEF SavePostback, NoPostback
  <2>2. pb \in [at : {"none", "row", "strategy"}, h : Hedges, row : Rows]
    BY <1>0 DEF TypeOK
  <2>3. CASE pb' = [pb EXCEPT !.at = "strategy"] /\ pb.at # "none" /\ account' = account
    <3>1. pb'.h = pb.h /\ pb'.row = pb.row
      BY <2>2, <2>3
    <3>. QED BY <2>3, <3>1, <1>u
  <2>. QED BY <2>1, <2>3, <1>b
<1>9. CASE PostbackSettles
  BY <1>9, <1>b DEF PostbackSettles, NoPostback
<1>10. CASE \/ Retire \/ ReadRequest \/ CommitRequest \/ Crash \/ Restart
  <2>1. pb' = pb /\ account' = account
    BY <1>10 DEF Retire, Requesting, ReadRequest, ReadToStart, ReadToReset,
       ReadToEdit, CommitRequest, CommitReset, CommitEdit, Committing, Crash,
       Restart, Others, web
  <2>. QED BY <2>1, <1>u, <1>b
<1>. QED BY <1>1, <1>2, <1>3, <1>4, <1>5, <1>6, <1>7, <1>8, <1>9, <1>10 DEF Next,
   Round, Exit, Entry, Refresher, Market, Postback

-----------------------------------------------------------------------------
(* The order loop, and the account.                                        *)

\* The hedge an entry takes is one without a row, and with nothing held.
LEMMA FindExistingIs ==
  ASSUME FindExisting
  PROVE  /\ cur' \in Hedges /\ rows[cur'].status = "none" /\ \A l \in Legs : held[cur'][l] = 0
         /\ rows' = rows /\ held' = held /\ pc' \in {"set_in", "group"}
         /\ pc' = "set_in" <=> Open # {}
         /\ pc' = "group" <=> Open = {}
<1>1. New \in SUBSET Hedges /\ New # {}
  BY DEF FindExisting, MayEnter, New
<1>2. First(New) \in New
  BY <1>1, FirstIn
<1>3. cur' = First(New)
  BY DEF FindExisting
<1>4. cur' \in Hedges /\ rows[cur'].status = "none" /\ held[cur'] = [l \in Legs |-> 0]
  BY <1>2, <1>3 DEF New
<1>5. rows' = rows /\ held' = held /\ pc' = IF Open # {} THEN "set_in" ELSE "group"
  BY DEF FindExisting, Goto, market
<1>. QED BY <1>4, <1>5

\* EngineHolds is kept.
LEMMA EngineHoldsStep ==
  ASSUME IInv, Next
  PROVE  EngineHolds'
<1>0. TypeOK /\ LegInRange /\ cur \in Hedges /\ todo \in SUBSET Hedges /\ leg \in Int
      /\ rows \in [Hedges -> Rows]
  BY HedgeFacts DEF IInv, TypeOK
<1>i. EngineHolds
  BY DEF IInv
<1>a. account' = account
  BY AccountStep
<1>l. copies[cur].status # "none" => rows[cur].status # "none" /\ rows'[cur].legs = rows[cur].legs
  BY <1>0, KnownStep DEF IInv, CopiesHold, CopyOf
<1>q. pc' \in {"idle", "snapshot", "look", "find", "set_out", "row", "entry", "set_in",
               "settle", "down"} => EngineHolds'
  BY DEF EngineHolds, Exiting, Entering
<1>n. rows[cur].status = "none" /\ pc' = pc => rows'[cur].status = "none" \/ pc' = "settle"
  BY <1>0, KnownStep
<1>u. pc' = pc /\ copies' = copies /\ todo' = todo /\ cur' = cur /\ leg' = leg => EngineHolds'
  BY <1>a, <1>i, <1>l, <1>n DEF EngineHolds, Exiting, Entering
<1>1. CASE Dispatch
  BY <1>1, <1>q DEF Dispatch, Others, Goto
<1>2. CASE Snapshot
  BY <1>2, <1>q DEF Snapshot, Others, Goto, Rest
<1>3. CASE Look
  BY <1>3, <1>q DEF Look, Others, Goto
<1>4. CASE Find
  BY <1>4, <1>q DEF Find, Others, Goto
<1>5. CASE SetOut
  BY <1>5, <1>q DEF SetOut, Others, Goto, Rest
<1>6. CASE KeepRow
  <2>1. First(todo) \in todo
    BY <1>6, <1>0, FirstIn DEF KeepRow
  <2>2. copies[First(todo)].status = "open"
    BY <2>1 DEF IInv, CopiesHold
  <2>. QED BY <1>6, <2>2 DEF KeepRow, Goto, EngineHolds, Exiting, Entering
<1>7. CASE ExitRow
  <2>. DEFINE h == First(todo)
  <2>1. h \in Hedges /\ cur' = h /\ copies'[h].status = "exit_pending" /\ leg' \in rows[h].legs \cup {0}
    BY <1>7, <1>0, ExitRowIs
  <2>2. rows' = rows /\ (IF account.broker = "aliceblue" THEN pc' = "lock" /\ todo' = {} ELSE pc' = "send")
    BY <1>7 DEF ExitRow, Goto
  <2>. HIDE DEF h
  <2>. QED BY <1>a, <2>1, <2>2 DEF EngineHolds, Exiting, Entering
<1>8. CASE AllRowsSeen
  BY <1>8, <1>q DEF AllRowsSeen, Others, Goto
<1>9. CASE \/ LockExitLeg \/ PeekLock \/ SquareOff \/ CheckExitOrder
           \/ MarkFailed
  <2>1. Exiting /\ (leg' = leg \/ leg' = After(cur, leg))
    BY <1>9 DEF Exiting, LockExitLeg, PeekLock, SquareOff, SquareOffPosition,
       SquareOffLimit, CheckExitOrder, MarkFailed, Accept, CallFails, Goto
  <2>2. /\ pc' \in {"lock", "peek", "square_off", "limit", "check", "mark_failed"}
        /\ cur' = cur /\ copies' = copies /\ todo' = todo
    BY <1>9 DEF LockExitLeg, PeekLock, SquareOff, SquareOffPosition,
       SquareOffLimit, CheckExitOrder, MarkFailed, Accept, CallFails, Goto
  <2>3. /\ account.broker = "aliceblue" /\ copies[cur].status = "exit_pending" /\ todo = {}
        /\ leg # 0 => leg \in rows[cur].legs
    BY <2>1, <1>i DEF EngineHolds
  <2>4. rows'[cur].legs = rows[cur].legs
    BY <2>3, <1>l
  <2>5. leg' # 0 => leg' \in rows[cur].legs
    BY <1>0, <2>1, <2>3, AfterIn DEF TypeOK
  <2>. QED BY <1>a, <2>2, <2>3, <2>4, <2>5 DEF EngineHolds, Exiting, Entering
<1>10. CASE \/ EndAliceExit \/ EndExit
  <2>1. pc' = "save_strategy" /\ cur' = cur
    BY <1>10 DEF EndExit, EndAliceExit, Goto
  <2>2. copies'[cur].status \in {"close", "exit_failed", "exit_pending"}
    BY <1>10, <1>0, EndExitIs
  <2>. QED BY <2>1, <2>2 DEF EngineHolds, Exiting, Entering
<1>11. CASE SendExit
  <2>1. pc = "send" /\ pc' = "send" /\ cur' = cur /\ leg' = After(cur, leg) /\ rows' = rows
    BY <1>11 DEF SendExit
  <2>2. account.broker # "aliceblue" /\ copies[cur].status = "exit_pending"
    BY <2>1, <1>i DEF EngineHolds
  <2>3. copies'[cur].status = copies[cur].status
    BY <1>11, <1>0, SendExitIs
  <2>4. leg' # 0 => leg' \in rows[cur].legs
    BY <1>0, <2>1, AfterIn DEF TypeOK
  <2>. QED BY <1>a, <2>1, <2>2, <2>3, <2>4 DEF EngineHolds, Exiting, Entering
<1>12. CASE SendExitRaises
  BY <1>12, <1>q DEF SendExitRaises, Others, Goto, Rest, Accept, CallFails,
     Fails
<1>13. CASE SaveStrategy
  <2>1. pc = "save_strategy" /\ pc' = "save_row" /\ cur' = cur /\ copies' = copies
    BY <1>13 DEF SaveStrategy, Goto
  <2>. QED BY <2>1, <1>i DEF EngineHolds, Exiting, Entering
<1>14. CASE SaveRow
  BY <1>14, <1>q DEF SaveRow, Others, Goto
<1>15. CASE NoEntry
  BY <1>15, <1>q DEF NoEntry, Others, Goto, Rest
<1>16. CASE Blocked
  BY <1>16, <1>q DEF Blocked, Others, Goto, Rest, MayEnter
<1>17. CASE FindExisting
  <2>1. pc' \in {"set_in", "group"} /\ rows'[cur'].status = "none"
    BY <1>17, FindExistingIs
  <2>. QED BY <2>1 DEF EngineHolds, Exiting, Entering
<1>18. CASE SetIn
  BY <1>18, <1>q DEF SetIn, Others, Goto, Rest
<1>19. CASE LockEntryGroup
  <2>1. pc = "group" /\ rows' = rows /\ (pc' = "idle" \/ (pc' = "attempt" /\ cur' = cur))
    BY <1>19 DEF LockEntryGroup, Goto, Rest
  <2>. QED BY <2>1, <1>i DEF EngineHolds, Exiting, Entering
<1>20. CASE Attempt
  <2>1. pc = "attempt" /\ rows' = rows /\ pc' = "lock_entry" /\ cur' = cur
        /\ (account.live \/ leg' = NLegs + 1)
    BY <1>20 DEF Attempt, Goto
  <2>2. ~(NLegs + 1 <= NLegs)
    BY HedgeFacts
  <2>. QED BY <2>1, <2>2, <1>a, <1>i DEF EngineHolds, Exiting, Entering
<1>21. CASE LockEntryLeg
  <2>1. pc = "lock_entry" /\ leg <= NLegs /\ rows' = rows /\ pc' \in {"lock_entry", "buy"} /\ cur' = cur
    BY <1>21 DEF LockEntryLeg, NextEntryLeg, Goto
  <2>. QED BY <2>1, <1>a, <1>i DEF EngineHolds, Exiting, Entering
<1>22. CASE \/ PlaceEntryOrder \/ EntryOrderRaises
  <2>1. pc = "buy" /\ rows' = rows /\ (pc' = "idle" \/ (pc' \in {"mark_entry", "refuse_entry"} /\ cur' = cur))
    BY <1>22 DEF PlaceEntryOrder, EntryOrderRaises, Goto, Rest
  <2>. QED BY <2>1, <1>a, <1>i DEF EngineHolds, Exiting, Entering
<1>23. CASE \/ EntryAccepted \/ EntryRefused \/ QuoteLeg
  <2>1. pc \in {"mark_entry", "refuse_entry", "quote"} /\ rows' = rows
        /\ (pc' = "idle" \/ (pc' \in {"quote", "lock_entry"} /\ cur' = cur))
    BY <1>23 DEF EntryAccepted, EntryRefused, QuoteLeg, NextEntryLeg,
       MarkEntryLock, market, Goto, Rest
  <2>. QED BY <2>1, <1>a, <1>i DEF EngineHolds, Exiting, Entering
<1>24. CASE InsertRow
  <2>1. \/ pc' \in {"settle", "idle"}
        \/ pc = "lock_entry" /\ pc' = "insert" /\ rows' = rows /\ cur' = cur
    BY <1>24 DEF InsertRow, FindBeforeInsert, InsertNewRow, Goto, Rest
  <2>. QED BY <2>1, <1>q, <1>i DEF EngineHolds, Exiting, Entering
<1>25. CASE SettleEntry
  BY <1>25, <1>q DEF SettleEntry, Others, Goto, Rest
<1>26. CASE Scan
  BY <1>26, <1>u DEF Scan, Refreshing, engine
<1>27. CASE RepairPosition
  BY <1>27, <1>u DEF RepairPosition, Refreshing, engine
<1>28. CASE WriteBack
  BY <1>28, <1>u DEF WriteBack, engine
<1>29. CASE \E i \in DOMAIN orders : Fill(i)
  BY <1>29, <1>u DEF Fill, engine
<1>30. CASE \E i \in DOMAIN orders : Reject(i)
  BY <1>30, <1>u DEF Reject, engine
<1>31. CASE \E i \in DOMAIN orders : ReadPostback(i)
  BY <1>31, <1>u DEF ReadPostback, engine
<1>32. CASE SavePostback
  BY <1>32, <1>u DEF SavePostback, engine
<1>33. CASE PostbackSettles
  BY <1>33, <1>u DEF PostbackSettles, engine
<1>34. CASE Retire
  BY <1>34, <1>u DEF Retire, Requesting, Upset, engine
<1>35. CASE ReadRequest
  BY <1>35, <1>u DEF ReadRequest, ReadToStart, ReadToReset, ReadToEdit, Requesting, Upset, engine
<1>36. CASE CommitRequest
  BY <1>36, <1>u DEF CommitRequest, CommitReset, ResetTo, Committing, CommitEdit, engine
<1>37. CASE Crash
  BY <1>37, <1>q DEF Crash, Upset
<1>38. CASE Restart
  BY <1>38, <1>q DEF Restart, Others, Goto
<1>. QED BY <1>1, <1>2, <1>3, <1>4, <1>5, <1>6, <1>7, <1>8, <1>9, <1>10,
   <1>11, <1>12, <1>13, <1>14, <1>15, <1>16, <1>17, <1>18, <1>19, <1>20,
   <1>21, <1>22, <1>23, <1>24, <1>25, <1>26, <1>27, <1>28, <1>29, <1>30,
   <1>31, <1>32, <1>33, <1>34, <1>35, <1>36, <1>37, <1>38 DEF Next, Round,
   Exit, Entry, Refresher, Market, Postback

\* No leg is bought twice, and none after its exit was executed.
LEMMA FlatLegs ==
  ASSUME IInv, Next
  PROVE  /\ \A h \in Hedges, l \in Legs : held'[h][l] <= 1 /\ (TradedIn(orders', h, l) => held'[h][l] <= 0)
         /\ ~account.live => \A h \in Hedges, l \in Legs : held'[h][l] <= 0
<1>0. TypeOK /\ LegInRange /\ cur \in Hedges /\ held \in [Hedges -> [Legs -> Int]]
  BY DEF IInv, TypeOK
<1>1. SUFFICES ASSUME NEW h \in Hedges, NEW l \in Legs
               PROVE  /\ held'[h][l] <= 1 /\ (TradedIn(orders', h, l) => held'[h][l] <= 0)
                      /\ ~account.live => held'[h][l] <= 0
  OBVIOUS
<1>2. held[h][l] <= 1 /\ (Traded(h, l) => held[h][l] <= 0) /\ (~account.live => held[h][l] <= 0)
  BY DEF IInv, HeldHolds
<1>3. held[h][l] \in Int /\ held'[h][l] \in Int
  BY <1>0, HeldIs
<1>4. \/ held'[h][l] <= held[h][l]
      \/ pc = "buy" /\ h = cur /\ l = leg /\ held'[h][l] = held[h][l] + 1
  BY <1>0, HeldIs
<1>5. pc = "buy" /\ h = cur /\ l = leg => held[h][l] <= 0 /\ account.live /\ rows[h].status = "none"
  BY <1>0, HedgeFacts DEF IInv, HeldHolds, EngineHolds, Entering, LegInRange
<1>6. held'[h][l] <= 1 /\ (~account.live => held'[h][l] <= 0)
  BY <1>2, <1>3, <1>4, <1>5
<1>7. TradedIn(orders', h, l) => held'[h][l] <= 0
  <2>1. SUFFICES ASSUME NEW i \in DOMAIN orders', orders'[i].h = h, orders'[i].l = l,
                        orders'[i].state = "traded"
                 PROVE  held'[h][l] <= 0
    BY DEF TradedIn
  <2>2. i \in DOMAIN orders /\ orders[i].h = h /\ orders[i].l = l
    BY <1>0, <2>1, OrdersGrow
  <2>3. rows[h].status # "none"
    BY <2>2 DEF IInv, RowsHold
  <2>4. held'[h][l] <= held[h][l]
    BY <1>4, <1>5, <2>3
  <2>5. CASE orders[i].state = "traded"
    <3>1. Traded(h, l)
      BY <2>2, <2>5 DEF Traded, TradedIn
    <3>. QED BY <1>2, <1>3, <2>4, <3>1
  <2>6. CASE Fill(i)
    BY <1>0, <1>2, <1>3, <2>2, <2>6, FillIs
  <2>. QED BY <1>0, <2>1, <2>2, <2>5, <2>6, OrdersGrow
<1>. QED BY <1>6, <1>7

\* HeldHolds is kept.
LEMMA HeldHoldsStep ==
  ASSUME IInv, Next
  PROVE  HeldHolds'
<1>. DEFINE Goal ==
        /\ pc' \in {"group", "attempt"} => \A l \in Legs : held'[cur'][l] <= 0
        /\ pc' \in {"lock_entry", "buy"} => \A l \in Legs : l >= leg' => held'[cur'][l] <= 0
        /\ pc' \in {"mark_entry", "refuse_entry", "quote"} => \A l \in Legs : l > leg' => held'[cur'][l] <= 0
<1>0. TypeOK /\ LegInRange /\ cur \in Hedges /\ held \in [Hedges -> [Legs -> Int]] /\ leg \in Int
      /\ Legs \subseteq Int
  BY HedgeFacts DEF IInv, TypeOK
<1>i. HeldHolds
  BY DEF IInv
<1>a. account' = account
  BY AccountStep
<1>g. SUFFICES Goal
  BY <1>a, FlatLegs DEF HeldHolds, Traded
<1>. HIDE DEF Goal
<1>q. pc' \notin {"group", "attempt", "lock_entry", "buy", "mark_entry", "refuse_entry", "quote"} => Goal
  BY DEF Goal
<1>u. pc' = pc /\ cur' = cur /\ leg' = leg /\ held' = held => Goal
  BY <1>i DEF Goal, HeldHolds
<1>1. CASE \/ Dispatch \/ Snapshot \/ Look \/ Find \/ SetOut \/ KeepRow
  BY <1>1, <1>q DEF Dispatch, Others, Goto, Snapshot, Rest, Look, Find,
     SetOut, KeepRow
<1>2. CASE \/ ExitRow \/ AllRowsSeen \/ LockExitLeg \/ PeekLock \/ SquareOff
           \/ CheckExitOrder
  BY <1>2, <1>q DEF ExitRow, Others, Goto, AllRowsSeen, LockExitLeg, PeekLock,
     SquareOff, SquareOffPosition, SquareOffLimit, Accept, CallFails, Fails, CheckExitOrder
<1>3. CASE \/ MarkFailed \/ EndAliceExit \/ SendExit \/ SendExitRaises
           \/ EndExit \/ SaveStrategy
  BY <1>3, <1>q DEF MarkFailed, Others, Goto, EndAliceExit, SendExit, Accept,
     CallFails, Fails, SendExitRaises, Rest, EndExit, SaveStrategy
<1>4. CASE \/ SaveRow \/ NoEntry \/ Blocked \/ SetIn \/ InsertRow
           \/ SettleEntry
  BY <1>4, <1>q DEF SaveRow, Others, Goto, NoEntry, Rest, Blocked, MayEnter,
     SetIn, InsertRow, FindBeforeInsert, InsertNewRow, SettleEntry
<1>5. CASE FindExisting
  <2>1. pc' \in {"set_in", "group"} /\ \A l \in Legs : held'[cur'][l] = 0
    BY <1>5, FindExistingIs
  <2>. QED BY <2>1 DEF Goal
<1>6. CASE LockEntryGroup
  <2>1. pc = "group" /\ held' = held /\ (pc' = "idle" \/ (pc' = "attempt" /\ cur' = cur))
    BY <1>6 DEF LockEntryGroup, Goto, Rest, market
  <2>. QED BY <2>1, <1>i DEF Goal, HeldHolds
<1>7. CASE Attempt
  <2>1. pc = "attempt" /\ held' = held /\ pc' = "lock_entry" /\ cur' = cur
    BY <1>7 DEF Attempt, Goto, market
  <2>. QED BY <2>1, <1>i DEF Goal, HeldHolds
<1>8. CASE LockEntryLeg
  <2>1. pc = "lock_entry" /\ held' = held /\ cur' = cur
        /\ ((pc' = "buy" /\ leg' = leg) \/ (pc' = "lock_entry" /\ leg' = leg + 1))
    BY <1>8 DEF LockEntryLeg, NextEntryLeg, Goto, market
  <2>. QED BY <2>1, <1>0, <1>i DEF Goal, HeldHolds
<1>9. CASE \/ PlaceEntryOrder \/ EntryOrderRaises
  <2>1. pc = "buy" /\ (pc' = "idle" \/ (pc' \in {"mark_entry", "refuse_entry"} /\ cur' = cur /\ leg' = leg))
    BY <1>9 DEF PlaceEntryOrder, EntryOrderRaises, Goto, Rest
  <2>2. \A l \in Legs : l > leg => held'[cur][l] <= 0
    <3>1. \A l \in Legs : l > leg => held[cur][l] <= 0 /\ held'[cur][l] <= held[cur][l]
                                     /\ held[cur][l] \in Int /\ held'[cur][l] \in Int
      BY <1>0, <1>i, <2>1, HeldIs DEF HeldHolds
    <3>. QED BY <3>1
  <2>. QED BY <2>1, <2>2 DEF Goal
<1>10. CASE \/ EntryAccepted \/ EntryRefused \/ QuoteLeg
  <2>1. pc \in {"mark_entry", "refuse_entry", "quote"} /\ held' = held
        /\ \/ pc' = "idle"
           \/ (pc' = "quote" /\ leg' = leg /\ cur' = cur)
           \/ (pc' = "lock_entry" /\ leg' = leg + 1 /\ cur' = cur)
    BY <1>10 DEF EntryAccepted, EntryRefused, QuoteLeg, NextEntryLeg,
       MarkEntryLock, market, Goto, Rest
  <2>. QED BY <2>1, <1>0, <1>i DEF Goal, HeldHolds
<1>11. CASE Scan
  BY <1>11, <1>u DEF Scan, Refreshing, market, engine
<1>12. CASE RepairPosition
  BY <1>12, <1>u DEF RepairPosition, Refreshing, market, engine
<1>13. CASE WriteBack
  BY <1>13, <1>u DEF WriteBack, market, engine
<1>14. CASE \E i \in DOMAIN orders : Fill(i)
  <2>1. PICK i \in DOMAIN orders : Fill(i)
    BY <1>14
  <2>2. \A l \in Legs : held'[cur][l] <= held[cur][l] /\ held[cur][l] \in Int /\ held'[cur][l] \in Int
    <3>1. /\ orders[i].h \in Hedges /\ orders[i].l \in Legs
          /\ held' \in [Hedges -> [Legs -> Int]]
          /\ held'[orders[i].h][orders[i].l] = held[orders[i].h][orders[i].l] - 1
          /\ \A g \in Hedges, k \in Legs : g # orders[i].h \/ k # orders[i].l => held'[g][k] = held[g][k]
      BY <1>0, <2>1, FillIs
    <3>. DEFINE h == orders[i].h
                k == orders[i].l
    <3>. HIDE DEF h, k
    <3>2. /\ held'[h][k] = held[h][k] - 1 /\ h \in Hedges /\ k \in Legs
          /\ \A g \in Hedges, l \in Legs : g # h \/ l # k => held'[g][l] = held[g][l]
      BY <3>1 DEF h, k
    <3>3. \A l \in Legs : held[cur][l] \in Int
      BY <1>0
    <3>4. \A l \in Legs : held'[cur][l] = held[cur][l] \/ held'[cur][l] = held[cur][l] - 1
      BY <1>0, <3>2
    <3>. QED BY <3>3, <3>4
  <2>3. pc' = pc /\ cur' = cur /\ leg' = leg
    BY <2>1 DEF Fill, engine
  <2>4. \A l \in Legs : held[cur][l] <= 0 => held'[cur][l] <= 0
    BY <2>2
  <2>. QED BY <1>i, <2>3, <2>4 DEF Goal, HeldHolds
<1>15. CASE \E i \in DOMAIN orders : Reject(i)
  BY <1>15, <1>u DEF Reject, market, engine
<1>16. CASE \E i \in DOMAIN orders : ReadPostback(i)
  BY <1>16, <1>u DEF ReadPostback, market, engine
<1>17. CASE SavePostback
  BY <1>17, <1>u DEF SavePostback, market, engine
<1>18. CASE PostbackSettles
  BY <1>18, <1>u DEF PostbackSettles, market, engine
<1>19. CASE Retire
  BY <1>19, <1>u DEF Retire, Requesting, Upset, market, engine
<1>20. CASE ReadRequest
  BY <1>20, <1>u DEF ReadRequest, ReadToStart, ReadToReset, ReadToEdit,
     Requesting, Upset, market, engine
<1>21. CASE CommitRequest
  BY <1>21, <1>u DEF CommitRequest, CommitReset, ResetTo, Committing, CommitEdit, market, engine
<1>22. CASE \/ Crash \/ Restart
  BY <1>22, <1>q DEF Crash, Upset, Restart, Others, Goto
<1>. QED BY <1>1, <1>2, <1>3, <1>4, <1>5, <1>6, <1>7, <1>8, <1>9, <1>10,
   <1>11, <1>12, <1>13, <1>14, <1>15, <1>16, <1>17, <1>18, <1>19, <1>20,
   <1>21, <1>22 DEF Next, Round, Exit, Entry, Refresher, Market, Postback

-----------------------------------------------------------------------------
(* A closed row.                                                           *)

\* Legs are numbers above zero.
LEMMA LegNumbers == 0 \in Int /\ \A l \in Legs : l \in Int /\ l > 0
BY HedgeFacts

\* Counting legs.
LEMMA LegSets ==
  /\ \A S \in SUBSET Legs : IsFiniteSet(S) /\ Cardinality(S) \in Nat
  /\ \A S, R \in SUBSET Legs : S \subseteq R => Cardinality(S) <= Cardinality(R)
  /\ \A S, R \in SUBSET Legs : S \subseteq R /\ Cardinality(R) <= Cardinality(S) => S = R
  /\ \A S, R \in SUBSET Legs, l \in Legs :
        S \subseteq R /\ l \in R /\ l \notin S => Cardinality(S) + 1 <= Cardinality(R)
<1>1. IsFiniteSet(Legs)
  BY HedgeFacts, FS_Interval DEF Legs
<1>2. \A S \in SUBSET Legs : IsFiniteSet(S) /\ Cardinality(S) \in Nat
  BY <1>1, FS_Subset, FS_CardinalityType
<1>3. \A S, R \in SUBSET Legs : S \subseteq R => Cardinality(S) <= Cardinality(R)
  BY <1>2, FS_Subset
<1>4. \A S, R \in SUBSET Legs : S \subseteq R /\ Cardinality(R) <= Cardinality(S) => S = R
  <2>1. SUFFICES ASSUME NEW S \in SUBSET Legs, NEW R \in SUBSET Legs, S \subseteq R,
                        Cardinality(R) <= Cardinality(S)
                 PROVE  S = R
    OBVIOUS
  <2>2. Cardinality(S) <= Cardinality(R) /\ Cardinality(S) \in Nat /\ Cardinality(R) \in Nat /\ IsFiniteSet(R)
    BY <1>2, <1>3, <2>1
  <2>3. Cardinality(S) = Cardinality(R)
    BY <2>1, <2>2
  <2>. QED BY <2>1, <2>2, <2>3, FS_Subset
<1>5. \A S, R \in SUBSET Legs, l \in Legs :
         S \subseteq R /\ l \in R /\ l \notin S => Cardinality(S) + 1 <= Cardinality(R)
  <2>1. SUFFICES ASSUME NEW S \in SUBSET Legs, NEW R \in SUBSET Legs, NEW l \in Legs,
                        S \subseteq R, l \in R, l \notin S
                 PROVE  Cardinality(S) + 1 <= Cardinality(R)
    OBVIOUS
  <2>2. Cardinality(S \cup {l}) = Cardinality(S) + 1
    BY <1>2, <2>1, FS_AddElement
  <2>3. S \cup {l} \in SUBSET Legs /\ S \cup {l} \subseteq R
    BY <2>1
  <2>4. Cardinality(S \cup {l}) <= Cardinality(R)
    BY <1>3, <2>3
  <2>. QED BY <2>2, <2>4
<1>. QED BY <1>2, <1>3, <1>4, <1>5

\* What the exit loop counts as executed, leg by leg, was executed.
LEMMA ConfirmedStep ==
  ASSUME IInv, Next
  PROVE  Exiting' => tally'.conf <= Cardinality(Executed(cur, leg)')
<1>. DEFINE Goal == Exiting' => tally'.conf <= Cardinality(Executed(cur, leg)')
<1>. SUFFICES Goal
  OBVIOUS
<1>0. /\ TypeOK /\ LegInRange /\ cur \in Hedges /\ leg \in Int /\ rows \in [Hedges -> Rows]
      /\ cur' \in Hedges /\ rows' \in [Hedges -> Rows] /\ Legs \subseteq Int
  <2>1. TypeOK /\ LegInRange
    BY DEF IInv
  <2>2. cur \in Hedges /\ leg \in 0 .. NLegs + 1 /\ rows \in [Hedges -> Rows]
    BY <2>1 DEF TypeOK
  <2>3. cur' \in Hedges /\ rows' \in [Hedges -> Rows]
    BY <2>1, CurStep, RowsStep
  <2>4. leg \in Int /\ Legs \subseteq Int
    BY <2>2, HedgeFacts
  <2>. QED BY <2>1, <2>2, <2>3, <2>4
<1>t. tally \in [sub : Nat, conf : Nat, bad : BOOLEAN, legs : SUBSET Legs]
  BY <1>0 DEF TypeOK
<1>g. \A h, l : TradedIn(orders, h, l) => TradedIn(orders', h, l)
  BY <1>0, TradedGrows
<1>l. copies[cur].status # "none" => rows[cur].status # "none" /\ rows'[cur].legs = rows[cur].legs
  BY <1>0, KnownStep DEF IInv, CopiesHold, CopyOf
<1>e. Executed(cur, leg) \in SUBSET Legs /\ Executed(cur, leg)' \in SUBSET Legs
  BY <1>0 DEF Executed, Rows
<1>f. Cardinality(Executed(cur, leg)') \in Nat
  <2>. DEFINE R == Executed(cur, leg)'
  <2>1. R \in SUBSET Legs
    BY <1>e
  <2>. HIDE DEF R
  <2>2. Cardinality(R) \in Nat
    BY <2>1, LegSets
  <2>. QED BY <2>2 DEF R
<1>q. pc' \notin {"lock", "peek", "square_off", "limit", "check", "mark_failed"} => Goal
  BY DEF Exiting
<1>u. Exiting /\ cur' = cur /\ leg' = leg /\ tally' = tally => Goal
  <2>1. SUFFICES ASSUME Exiting, cur' = cur, leg' = leg, tally' = tally
                 PROVE  tally.conf <= Cardinality(Executed(cur, leg)')
    OBVIOUS
  <2>2. rows'[cur].legs = rows[cur].legs
    BY <1>l, <2>1 DEF IInv, EngineHolds
  <2>3. Executed(cur, leg) \subseteq Executed(cur, leg)'
    BY <1>g, <2>1, <2>2 DEF Executed, Traded
  <2>4. tally.conf <= Cardinality(Executed(cur, leg)) /\ tally.conf \in Nat
    BY <1>t, <2>1 DEF IInv, CloseHolds
  <2>. DEFINE R == Executed(cur, leg)'
              S == Executed(cur, leg)
  <2>5. R \in SUBSET Legs /\ S \in SUBSET Legs /\ S \subseteq R /\ tally.conf <= Cardinality(S)
    BY <1>e, <2>3, <2>4
  <2>. HIDE DEF R, S
  <2>6. Cardinality(S) <= Cardinality(R) /\ Cardinality(S) \in Nat /\ Cardinality(R) \in Nat
    BY <2>5, LegSets
  <2>7. tally.conf <= Cardinality(R)
    BY <2>4, <2>5, <2>6
  <2>. QED BY <2>7 DEF R
<1>v. pc' = pc /\ cur' = cur /\ leg' = leg /\ tally' = tally => Goal
  BY <1>u DEF Exiting
<1>1. CASE Dispatch
  BY <1>1, <1>q DEF Dispatch, Others, Goto
<1>2. CASE Snapshot
  BY <1>2, <1>q DEF Snapshot, Others, Goto, Rest
<1>3. CASE Look
  BY <1>3, <1>q DEF Look, Others, Goto
<1>4. CASE Find
  BY <1>4, <1>q DEF Find, Others, Goto
<1>5. CASE SetOut
  BY <1>5, <1>q DEF SetOut, Others, Goto, Rest
<1>6. CASE KeepRow
  BY <1>6, <1>q DEF KeepRow, Others, Goto
<1>7. CASE ExitRow
  <2>1. tally' = NoTally
    BY <1>7 DEF ExitRow
  <2>2. tally'.conf = 0
    BY <2>1 DEF NoTally
  <2>. QED BY <1>f, <2>2
<1>8. CASE AllRowsSeen
  BY <1>8, <1>q DEF AllRowsSeen, Others, Goto
<1>9. CASE \/ LockExitLeg \/ SquareOff
  <2>1. Exiting /\ cur' = cur /\ leg' = leg /\ tally' = tally
    BY <1>9 DEF LockExitLeg, SquareOff, SquareOffPosition, SquareOffLimit,
       Accept, CallFails, Exiting
  <2>. QED BY <1>u, <2>1
<1>10. CASE \/ PeekLock \/ CheckExitOrder \/ MarkFailed
  <2>1. Exiting /\ cur' = cur /\ leg' = After(cur, leg) /\ leg \in Legs /\ leg # 0
    BY <1>10, <1>0, HedgeFacts DEF PeekLock, CheckExitOrder, MarkFailed, Exiting, LegInRange
  <2>2. copies[cur].status = "exit_pending" /\ leg \in rows[cur].legs
    BY <2>1 DEF IInv, EngineHolds
  <2>3. rows[cur].status # "none" /\ rows'[cur].legs = rows[cur].legs
    BY <1>l, <2>2
  <2>4. leg' \in Int /\ leg' < leg
    <3>1. /\ After(cur, leg) \in rows[cur].legs \cup {0} /\ rows[cur].legs \subseteq Legs
          /\ After(cur, leg) # 0 => After(cur, leg) < leg
      BY <1>0, AfterIn
    <3>2. leg > 0 /\ leg \in Nat
      BY <2>1, HedgeFacts
    <3>. DEFINE n == After(cur, leg)
    <3>3. n \in Legs \cup {0} /\ (n # 0 => n < leg)
      BY <3>1
    <3>. HIDE DEF n
    <3>4. n \in Int /\ n < leg
      BY <1>0, <3>2, <3>3
    <3>. QED BY <2>1, <3>4 DEF n
  <2>5. tally'.conf = tally.conf \/ (tally'.conf = tally.conf + 1 /\ Traded(cur, leg))
    <3>1. CASE PeekLock
      <4>1. rows[cur].lock[leg] = "complete" => Traded(cur, leg)
        BY <1>0, <2>1 DEF IInv, RowsHold, Matched, MatchedIn, Traded
      <4>. QED BY <3>1, <4>1, <1>t DEF PeekLock
    <3>2. CASE CheckExitOrder
      <4>1. PICK result \in {"submitted", "complete"} :
               /\ result = "complete" => \E i \in OrdersOf(cur, leg) : orders[i].state = "traded"
               /\ tally' = [tally EXCEPT !.sub = tally.sub + 1,
                            !.conf = IF result = "complete" THEN tally.conf + 1 ELSE tally.conf]
        BY <3>2 DEF CheckExitOrder
      <4>2. result = "complete" => Traded(cur, leg)
        BY <4>1 DEF OrdersOf, Traded, TradedIn
      <4>. QED BY <4>1, <4>2, <1>t
    <3>3. CASE MarkFailed
      BY <3>3, <1>t DEF MarkFailed
    <3>4. PeekLock \/ CheckExitOrder \/ MarkFailed
      BY <1>10
    <3>. QED BY <3>1, <3>2, <3>3, <3>4
  <2>6. Executed(cur, leg) \subseteq Executed(cur, leg)'
    <3>1. SUFFICES ASSUME NEW l \in rows[cur].legs, l > leg, TradedIn(orders, cur, l)
                   PROVE  l \in rows'[cur].legs /\ l > leg' /\ TradedIn(orders', cur, l)
      BY <2>1 DEF Executed, Traded
    <3>2. l \in Int
      BY <1>0, AfterIn
    <3>3. l > leg'
      BY <1>0, <2>4, <3>1, <3>2
    <3>. QED BY <1>g, <2>3, <3>1, <3>3
  <2>7. Traded(cur, leg) => leg \in Executed(cur, leg)' /\ leg \notin Executed(cur, leg)
    BY <1>0, <1>g, <2>1, <2>2, <2>3, <2>4 DEF Executed, Traded
  <2>8. Executed(cur, leg) \in SUBSET Legs /\ Executed(cur, leg)' \in SUBSET Legs
    BY <1>e
  <2>9. tally.conf <= Cardinality(Executed(cur, leg))
    BY <2>1 DEF IInv, CloseHolds
  <2>10. /\ Cardinality(Executed(cur, leg)) \in Nat /\ Cardinality(Executed(cur, leg)') \in Nat
         /\ Cardinality(Executed(cur, leg)) <= Cardinality(Executed(cur, leg)')
         /\ Traded(cur, leg) => Cardinality(Executed(cur, leg)) + 1 <= Cardinality(Executed(cur, leg)')
    <3>. DEFINE R == Executed(cur, leg)'
                S == Executed(cur, leg)
    <3>1. /\ R \in SUBSET Legs /\ S \in SUBSET Legs /\ S \subseteq R
          /\ Traded(cur, leg) => leg \in R /\ leg \notin S
      BY <2>6, <2>7, <2>8
    <3>. HIDE DEF R, S
    <3>2. /\ Cardinality(S) \in Nat /\ Cardinality(R) \in Nat /\ Cardinality(S) <= Cardinality(R)
          /\ Traded(cur, leg) => Cardinality(S) + 1 <= Cardinality(R)
      BY <2>1, <3>1, LegSets
    <3>. QED BY <3>2 DEF R, S
  <2>. QED BY <1>t, <2>5, <2>9, <2>10
<1>11. CASE EndAliceExit
  BY <1>11, <1>q DEF EndAliceExit, Others, Goto
<1>12. CASE SendExit
  BY <1>12, <1>q DEF SendExit, Others, Goto, Accept, CallFails, Fails
<1>13. CASE SendExitRaises
  BY <1>13, <1>q DEF SendExitRaises, Others, Goto, Rest, Accept, CallFails,
     Fails
<1>14. CASE EndExit
  BY <1>14, <1>q DEF EndExit, Others, Goto
<1>15. CASE SaveStrategy
  BY <1>15, <1>q DEF SaveStrategy, Others, Goto
<1>16. CASE SaveRow
  BY <1>16, <1>q DEF SaveRow, Others, Goto
<1>17. CASE NoEntry
  BY <1>17, <1>q DEF NoEntry, Others, Goto, Rest
<1>18. CASE Blocked
  BY <1>18, <1>q DEF Blocked, Others, Goto, Rest, MayEnter
<1>19. CASE FindExisting
  BY <1>19, <1>q DEF FindExisting, Others, Goto, MayEnter
<1>20. CASE SetIn
  BY <1>20, <1>q DEF SetIn, Others, Goto, Rest
<1>21. CASE LockEntryGroup
  BY <1>21, <1>q DEF LockEntryGroup, Others, Goto, Rest
<1>22. CASE Attempt
  BY <1>22, <1>q DEF Attempt, Others, Goto
<1>23. CASE LockEntryLeg
  BY <1>23, <1>q DEF LockEntryLeg, Others, Goto, NextEntryLeg
<1>24. CASE PlaceEntryOrder
  BY <1>24, <1>q DEF PlaceEntryOrder, Others, Goto, Enter
<1>25. CASE EntryOrderRaises
  BY <1>25, <1>q DEF EntryOrderRaises, Others, Goto, Rest, Enter
<1>26. CASE EntryAccepted
  BY <1>26, <1>q DEF EntryAccepted, Others, Goto, MarkEntryLock
<1>27. CASE EntryRefused
  BY <1>27, <1>q DEF EntryRefused, Others, Goto, NextEntryLeg, MarkEntryLock
<1>28. CASE QuoteLeg
  BY <1>28, <1>q DEF QuoteLeg, Others, Goto, Rest, NextEntryLeg
<1>29. CASE InsertRow
  BY <1>29, <1>q DEF InsertRow, FindBeforeInsert, InsertNewRow, Others, Goto, Rest
<1>30. CASE SettleEntry
  BY <1>30, <1>q DEF SettleEntry, Others, Goto, Rest
<1>31. CASE \/ Scan \/ RepairPosition \/ WriteBack
            \/ (\E i \in DOMAIN orders : Fill(i))
            \/ (\E i \in DOMAIN orders : Reject(i))
  BY <1>31, <1>v DEF Scan, Refreshing, RepairPosition, WriteBack, Fill,
     Reject, engine
<1>32. CASE \/ (\E i \in DOMAIN orders : ReadPostback(i)) \/ SavePostback
            \/ PostbackSettles \/ Retire \/ ReadRequest \/ CommitRequest
  BY <1>32, <1>v DEF ReadPostback, SavePostback, PostbackSettles, Retire,
     Requesting, Upset, ReadRequest, ReadToStart, ReadToReset, ReadToEdit,
     CommitRequest, CommitReset, ResetTo, Committing, CommitEdit, engine
<1>33. CASE Crash
  BY <1>33, <1>q DEF Crash, Upset
<1>34. CASE Restart
  BY <1>34, <1>q DEF Restart, Others, Goto
<1>. QED BY <1>1, <1>2, <1>3, <1>4, <1>5, <1>6, <1>7, <1>8, <1>9, <1>10,
   <1>11, <1>12, <1>13, <1>14, <1>15, <1>16, <1>17, <1>18, <1>19, <1>20,
   <1>21, <1>22, <1>23, <1>24, <1>25, <1>26, <1>27, <1>28, <1>29, <1>30,
   <1>31, <1>32, <1>33, <1>34 DEF Next, Round, Exit, Entry, Refresher, Market,
   Postback

\* A copy is closed only over executed exits, or on paper.
LEMMA ClosingStep ==
  ASSUME IInv, Next
  PROVE  \A h \in Hedges : copies'[h].status = "close" => AllTraded(h)' \/ ~account.live
<1>. DEFINE Done(h) == \A l \in rows'[h].legs : TradedIn(orders', h, l)
            Goal == \A h \in Hedges : copies'[h].status = "close" => Done(h) \/ ~account.live
<1>. SUFFICES Goal
  BY DEF AllTraded, Traded
<1>0. TypeOK /\ LegInRange /\ cur \in Hedges
  BY DEF IInv, TypeOK
<1>g. \A h, l : TradedIn(orders, h, l) => TradedIn(orders', h, l)
  BY <1>0, TradedGrows
<1>m. \A h \in Hedges : copies[h].status = "close" => Done(h) \/ ~account.live
  <2>1. SUFFICES ASSUME NEW h \in Hedges, copies[h].status = "close", account.live
                 PROVE  Done(h)
    BY AccountFacts, <1>0
  <2>2. rows[h].status # "none" /\ \A l \in rows[h].legs : TradedIn(orders, h, l)
    BY <2>1 DEF IInv, CloseHolds, CopiesHold, CopyOf, AllTraded, Traded
  <2>3. rows'[h].legs = rows[h].legs
    BY <2>2, KnownStep
  <2>. QED BY <1>g, <2>2, <2>3
<1>. HIDE DEF Done
<1>u. copies' = copies => Goal
  BY <1>m
<1>k. copies' = NoRows \/ copies' = [h \in Hedges |-> IF h \in Open THEN rows[h] ELSE NoRow] => Goal
  BY BlankTyped DEF NoRows, Open
<1>1. CASE \/ Dispatch \/ Snapshot \/ Look \/ Find \/ SetOut
  BY <1>1, <1>u, <1>k DEF Dispatch, Others, Goto, Snapshot, Rest, Look, Find,
     SetOut, engine
<1>2. CASE \/ KeepRow \/ AllRowsSeen \/ LockExitLeg \/ PeekLock \/ SquareOff
           \/ CheckExitOrder \/ MarkFailed \/ SendExitRaises
  BY <1>2, <1>u, <1>k DEF KeepRow, Others, Goto, AllRowsSeen, LockExitLeg,
     PeekLock, SquareOff, SquareOffPosition, SquareOffLimit, Accept, CallFails,
     Fails, CheckExitOrder, MarkFailed, SendExitRaises, Rest, engine
<1>3. CASE ExitRow
  <2>. DEFINE h == First(todo)
  <2>1. h \in Hedges /\ Recopies(h) /\ copies'[h].status = "exit_pending"
    BY <1>3, <1>0, ExitRowIs
  <2>. HIDE DEF h
  <2>. QED BY <1>m, <2>1 DEF Recopies
<1>4. CASE \/ EndExit \/ EndAliceExit
  <2>1. /\ cur \in Hedges /\ Recopies(cur)
        /\ copies'[cur].status = "close" => ~account.live \/ (EndAliceExit /\ Confirmed)
    BY <1>4, <1>0, EndExitIs
  <2>2. ASSUME EndAliceExit, Confirmed
        PROVE  Done(cur)
    <3>1. pc = "lock" /\ leg = 0 /\ Exiting
      BY <2>2 DEF EndAliceExit, Exiting
    <3>2. copies[cur].status = "exit_pending" /\ tally.conf <= Cardinality(Executed(cur, 0))
      BY <3>1 DEF IInv, EngineHolds, CloseHolds
    <3>3. rows[cur].status # "none" /\ copies[cur].legs = rows[cur].legs /\ rows'[cur].legs = rows[cur].legs
      BY <1>0, <3>2, KnownStep DEF IInv, CopiesHold, CopyOf
    <3>4. tally.conf >= Cardinality(rows[cur].legs) /\ tally.conf \in Nat
      BY <1>0, <2>2, <3>3 DEF Confirmed, TypeOK
    <3>5. rows[cur].legs \in SUBSET Legs
      BY <1>0 DEF TypeOK, Rows
    <3>. DEFINE S == Executed(cur, 0)
                R == rows[cur].legs
    <3>6. S \in SUBSET Legs /\ R \in SUBSET Legs /\ S \subseteq R
      BY <3>5 DEF Executed
    <3>7. tally.conf <= Cardinality(S) /\ tally.conf >= Cardinality(R)
      BY <3>2, <3>4
    <3>. HIDE DEF S, R
    <3>8. Cardinality(S) \in Nat /\ Cardinality(R) \in Nat
      BY <3>6, LegSets
    <3>9. Cardinality(R) <= Cardinality(S)
      BY <3>4, <3>7, <3>8
    <3>10. S = R
      BY <3>6, <3>9, LegSets
    <3>11. \A l \in rows[cur].legs : TradedIn(orders, cur, l)
      BY <3>10 DEF S, R, Executed, Traded
    <3>. QED BY <1>g, <3>3, <3>11 DEF Done
  <2>. QED BY <1>m, <2>1, <2>2 DEF Recopies
<1>5. CASE SendExit
  <2>1. cur \in Hedges /\ Recopies(cur) /\ copies'[cur].status = copies[cur].status
    BY <1>5, <1>0, SendExitIs
  <2>. QED BY <1>m, <2>1 DEF Recopies
<1>6. CASE \/ SaveStrategy \/ SaveRow
  BY <1>6, <1>u, <1>k DEF SaveStrategy, Others, Goto, SaveRow, engine
<1>7. CASE \/ NoEntry \/ Blocked \/ FindExisting \/ SetIn \/ LockEntryGroup
           \/ Attempt \/ LockEntryLeg \/ PlaceEntryOrder
  BY <1>7, <1>u, <1>k DEF NoEntry, Others, Goto, Rest, Blocked, MayEnter,
     FindExisting, SetIn, LockEntryGroup, Attempt, LockEntryLeg, NextEntryLeg,
     PlaceEntryOrder, Enter, engine
<1>8. CASE \/ EntryOrderRaises \/ EntryAccepted \/ EntryRefused \/ QuoteLeg
           \/ InsertRow \/ SettleEntry
  BY <1>8, <1>u, <1>k DEF EntryOrderRaises, Others, Goto, Rest, Enter,
     EntryAccepted, MarkEntryLock, EntryRefused, NextEntryLeg, QuoteLeg,
     InsertRow, FindBeforeInsert, InsertNewRow, SettleEntry, engine
<1>9. CASE \/ Scan \/ RepairPosition \/ WriteBack
           \/ (\E i \in DOMAIN orders : Fill(i))
           \/ (\E i \in DOMAIN orders : Reject(i))
  BY <1>9, <1>u, <1>k DEF Scan, Refreshing, RepairPosition, WriteBack, Fill,
     Reject, engine
<1>10. CASE \/ (\E i \in DOMAIN orders : ReadPostback(i)) \/ SavePostback
            \/ PostbackSettles \/ Retire \/ ReadRequest \/ CommitRequest
            \/ Crash \/ Restart
  BY <1>10, <1>u, <1>k DEF ReadPostback, SavePostback, PostbackSettles, Retire,
     Requesting, Upset, ReadRequest, ReadToStart, ReadToReset, ReadToEdit,
     CommitRequest, CommitReset, ResetTo, Committing, CommitEdit, Crash,
     Restart, Others, Goto, engine
<1>. QED BY <1>1, <1>2, <1>3, <1>4, <1>5, <1>6, <1>7, <1>8, <1>9, <1>10 DEF
   Next, Round, Exit, Entry, Refresher, Market, Postback

\* A row is closed only over executed exits, on paper, or by a postback that
\* passes over legs Dhan refused at once.
LEMMA ClosedStep ==
  ASSUME IInv, Next
  PROVE  \A h \in Hedges : rows'[h].status = "close" =>
            ~account.live \/ \A l \in rows'[h].legs : Traded(h, l)' \/ LeftByRefusal(h, l)'
<1>. DEFINE Left(h) == \A l \in rows'[h].legs :
               \/ TradedIn(orders', h, l)
               \/ account'.broker = "dhan" /\ rows'[h].exit[l] = "refused"
            Goal == \A h \in Hedges : rows'[h].status = "close" => ~account.live \/ Left(h)
<1>. SUFFICES Goal
  BY DEF Traded, LeftByRefusal
<1>0. TypeOK /\ LegInRange /\ cur \in Hedges
  BY DEF IInv, TypeOK
<1>a. account' = account
  BY AccountStep
<1>g. \A h, l : TradedIn(orders, h, l) => TradedIn(orders', h, l)
  BY <1>0, TradedGrows
<1>m. \A h \in Hedges :
         rows[h].status = "close" /\ rows'[h].exit = rows[h].exit => ~account.live \/ Left(h)
  <2>1. SUFFICES ASSUME NEW h \in Hedges, rows[h].status = "close", rows'[h].exit = rows[h].exit, account.live
                 PROVE  Left(h)
    BY AccountFacts, <1>0
  <2>2. \A l \in rows[h].legs :
           TradedIn(orders, h, l) \/ (account.broker = "dhan" /\ rows[h].exit[l] = "refused")
    BY <2>1 DEF IInv, CloseHolds, Traded, LeftByRefusal
  <2>3. rows'[h].legs = rows[h].legs
    BY <2>1, KnownStep
  <2>. QED BY <1>a, <1>g, <2>1, <2>2, <2>3
<1>. HIDE DEF Left
<1>u. rows' = rows => Goal
  BY <1>m
<1>1. CASE \/ Dispatch \/ Snapshot \/ Look \/ Find \/ SetOut
  BY <1>1, <1>u DEF Dispatch, Others, Goto, Snapshot, Rest, Look, Find,
     SetOut, market
<1>2. CASE \/ KeepRow \/ ExitRow \/ AllRowsSeen \/ PeekLock \/ SquareOff
           \/ EndAliceExit \/ SendExit \/ SendExitRaises
  BY <1>2, <1>u DEF KeepRow, Others, Goto, ExitRow, AllRowsSeen, PeekLock,
     SquareOff, SquareOffPosition, SquareOffLimit, Accept, CallFails, Fails,
     EndAliceExit, SendExit, SendExitRaises, Rest, market
<1>3. CASE \/ LockExitLeg \/ CheckExitOrder \/ MarkFailed
  <2>1. \/ rows' = rows
        \/ /\ Rewrites(cur) /\ rows'[cur].exit = rows[cur].exit
           /\ rows'[cur].status \in {"exit_pending", rows[cur].status}
    BY <1>3, <1>0, LocksAre
  <2>. QED BY <1>u, <1>m, <2>1 DEF Rewrites
<1>4. CASE \/ EndExit \/ SaveStrategy
  BY <1>4, <1>u DEF EndExit, Others, Goto, SaveStrategy, market
<1>5. CASE SaveRow
  <2>1. Rewrites(cur) /\ rows'[cur].status = copies[cur].status /\ rows'[cur].legs = copies[cur].legs
    BY <1>5, <1>0, SaveRowIs
  <2>2. rows'[cur].status = "close" => ~account.live \/ Left(cur)
    <3>1. SUFFICES ASSUME copies[cur].status = "close", account.live
                   PROVE  Left(cur)
      BY <2>1, AccountFacts, <1>0
    <3>2. \A l \in rows[cur].legs : TradedIn(orders, cur, l)
      BY <1>0, <3>1 DEF IInv, CloseHolds, AllTraded, Traded
    <3>3. rows'[cur].legs = rows[cur].legs
      BY <1>0, <2>1, <3>1 DEF IInv, CopiesHold, CopyOf
    <3>. QED BY <1>g, <3>2, <3>3 DEF Left
  <2>. QED BY <1>m, <2>1, <2>2 DEF Rewrites
<1>6. CASE \/ NoEntry \/ Blocked \/ FindExisting \/ SetIn \/ LockEntryGroup
           \/ Attempt \/ LockEntryLeg \/ PlaceEntryOrder
  BY <1>6, <1>u DEF NoEntry, Others, Goto, Rest, Blocked, MayEnter,
     FindExisting, SetIn, LockEntryGroup, Attempt, LockEntryLeg, NextEntryLeg,
     PlaceEntryOrder, Enter, market
<1>7. CASE \/ EntryOrderRaises \/ EntryAccepted \/ EntryRefused \/ QuoteLeg
           \/ SettleEntry
  BY <1>7, <1>u DEF EntryOrderRaises, Others, Goto, Rest, Enter,
     EntryAccepted, MarkEntryLock, EntryRefused, NextEntryLeg, QuoteLeg,
     SettleEntry, market
<1>8. CASE InsertRow
  <2>1. rows' = rows \/ (Rewrites(cur) /\ rows'[cur].status = "open")
    BY <1>8, <1>0, InsertRowIs
  <2>. QED BY <1>u, <1>m, <2>1 DEF Rewrites
<1>9. CASE \/ Scan \/ RepairPosition \/ (\E i \in DOMAIN orders : Fill(i))
           \/ (\E i \in DOMAIN orders : Reject(i))
  BY <1>9, <1>u DEF Scan, Refreshing, RepairPosition, Fill, Reject, market
<1>10. CASE WriteBack
  <2>. DEFINE h == First(rtodo)
  <2>1. h \in rtodo /\ (rows' = rows \/ (Rewrites(h) /\ rows'[h].status = rcopies[h].status))
    BY <1>10, <1>0, WriteBackIs
  <2>2. rcopies[h].status = "open"
    BY <2>1 DEF IInv, RCopiesHold
  <2>. HIDE DEF h
  <2>. QED BY <1>u, <1>m, <2>1, <2>2 DEF Rewrites
<1>11. CASE \/ (\E i \in DOMAIN orders : ReadPostback(i)) \/ PostbackSettles
            \/ Retire \/ ReadRequest \/ CommitRequest \/ Crash \/ Restart
  BY <1>11, <1>u DEF ReadPostback, PostbackSettles, Retire, Requesting, Upset,
     ReadRequest, ReadToStart, ReadToReset, ReadToEdit, CommitRequest,
     CommitReset, ResetTo, Committing, CommitEdit, Crash, Restart, Others, Goto,
     market
<1>12. CASE SavePostback
  <2>1. pb.at = "row" /\ account.broker = "dhan" /\ rows[pb.h].status # "none"
        /\ MatchedIn(orders, pb.h, pb.row)
    BY <1>12 DEF SavePostback, IInv, PostbackHolds, Matched
  <2>2. /\ Rewrites(pb.h) /\ pb.h \in Hedges /\ pb.row \in Rows
        /\ rows'[pb.h].status = Outcome(pb.row) /\ rows'[pb.h].legs = rows[pb.h].legs
        /\ rows'[pb.h].exit = pb.row.exit
    BY <1>12, <1>0, SavePostbackIs
  <2>3. rows'[pb.h].status = "close" => ~account.live \/ Left(pb.h)
    <3>0. (\A l \in rows[pb.h].legs : TradedIn(orders, pb.h, l) \/ pb.row.exit[l] = "refused")
             => Left(pb.h)
      <4>1. account'.broker = "dhan" /\ rows'[pb.h].legs = rows[pb.h].legs /\ rows'[pb.h].exit = pb.row.exit
        BY <1>a, <2>1, <2>2
      <4>2. SUFFICES ASSUME NEW l \in rows[pb.h].legs,
                            TradedIn(orders, pb.h, l) \/ pb.row.exit[l] = "refused"
                     PROVE  TradedIn(orders', pb.h, l) \/ rows'[pb.h].exit[l] = "refused"
        BY <4>1 DEF Left
      <4>. QED BY <1>g, <4>1, <4>2
    <3>1. SUFFICES ASSUME Outcome(pb.row) = "close", account.live, NEW l \in rows[pb.h].legs
                   PROVE  TradedIn(orders, pb.h, l) \/ pb.row.exit[l] = "refused"
      BY <3>0, <1>0, <2>2, AccountFacts
    <3>2. l \in Legs
      BY <1>0, <2>2 DEF TypeOK, Rows
    <3>3. pb.row.exit[l] = "refused" \/ pb.row.id[l] > 0
      BY <2>1, <3>1 DEF IInv, SentHolds, Sent
    <3>4. pb.row.id[l] > 0 => pb.row.exit[l] = "complete"
      <4>. DEFINE said == {pb.row.exit[k] : k \in {k \in Legs : pb.row.id[k] > 0}}
      <4>1. said = {"complete"}
        BY <3>1 DEF Outcome
      <4>2. pb.row.id[l] > 0 => pb.row.exit[l] \in said
        BY <3>2
      <4>. HIDE DEF said
      <4>. QED BY <4>1, <4>2
    <3>. QED BY <2>1, <3>2, <3>3, <3>4 DEF MatchedIn
  <2>. QED BY <1>m, <2>2, <2>3 DEF Rewrites
<1>. QED BY <1>1, <1>2, <1>3, <1>4, <1>5, <1>6, <1>7, <1>8, <1>9, <1>10,
   <1>11, <1>12 DEF Next, Round, Exit, Entry, Refresher, Market, Postback

\* CloseHolds is kept.
LEMMA CloseHoldsStep ==
  ASSUME IInv, Next
  PROVE  CloseHolds'
<1>1. account' = account
  BY AccountStep
<1>2. Exiting' => tally'.conf <= Cardinality(Executed(cur, leg)')
  BY ConfirmedStep
<1>3. \A h \in Hedges : copies'[h].status = "close" => AllTraded(h)' \/ ~account'.live
  BY <1>1, ClosingStep
<1>4. \A h \in Hedges : rows'[h].status = "close" =>
         ~account'.live \/ \A l \in rows'[h].legs : Traded(h, l)' \/ LeftByRefusal(h, l)'
  BY <1>1, ClosedStep
<1>. QED BY <1>2, <1>3, <1>4 DEF CloseHolds

\* SentHolds is kept.
LEMMA SentHoldsStep ==
  ASSUME IInv, Next
  PROVE  SentHolds'
<1>. DEFINE SentIn(h, r) == \A l \in rows'[h].legs : r.exit[l] = "refused" \/ r.id[l] > 0
            Recorded == \A h \in Hedges : rows'[h].status \in Exited => SentIn(h, rows'[h])
            Loop == /\ pc' \in {"save_strategy", "save_row"} /\ copies'[cur'].status \in Exited
                          => SentIn(cur', copies'[cur'])
                    /\ pc' = "send" => \A l \in rows'[cur'].legs :
                          l > leg' => copies'[cur'].exit[l] = "refused" \/ copies'[cur'].id[l] > 0
            Told == pb'.at = "row" => SentIn(pb'.h, pb'.row)
<1>a. account' = account
  BY AccountStep
<1>s. SUFFICES ASSUME account.broker = "dhan", account.live
               PROVE  Recorded /\ Loop /\ Told
  BY <1>a DEF SentHolds, Sent
<1>0. /\ TypeOK /\ LegInRange /\ cur \in Hedges /\ todo \in SUBSET Hedges
      /\ rows \in [Hedges -> Rows] /\ pb.h \in Hedges
  BY DEF IInv, TypeOK
<1>e. \A s \in Exited : s # "none" /\ s # "open"
  BY DEF Exited
<1>t. \A h \in Hedges : rows[h].status \in Exited => rows'[h].legs = rows[h].legs /\ SentIn(h, rows[h])
  BY <1>s, <1>e, KnownStep DEF IInv, SentHolds, Sent
<1>r. rows' = rows => Recorded
  BY <1>t
<1>l. pc' = pc /\ cur' = cur /\ copies' = copies /\ leg' = leg => Loop
  <2>1. copies[cur].status # "none" => rows'[cur].legs = rows[cur].legs
    BY <1>0, KnownStep DEF IInv, CopiesHold, CopyOf
  <2>2. pc = "send" => copies[cur].status = "exit_pending"
    BY DEF IInv, EngineHolds
  <2>3. pc \in {"save_strategy", "save_row"} /\ copies[cur].status \in Exited => SentIn(cur, copies[cur])
    BY <1>s, <1>e, <2>1 DEF IInv, SentHolds, Sent
  <2>4. pc = "send" => \A l \in rows'[cur].legs :
           l > leg => copies[cur].exit[l] = "refused" \/ copies[cur].id[l] > 0
    BY <1>s, <2>1, <2>2 DEF IInv, SentHolds
  <2>. QED BY <2>3, <2>4
<1>p. (pb' = pb \/ pb'.at # "row") => Told
  BY <1>s, KnownStep, <1>0 DEF IInv, SentHolds, Sent, PostbackHolds
<1>v. rows' = rows /\ pb' = pb /\ pc' \notin {"save_strategy", "save_row", "send"} => Recorded /\ Loop /\ Told
  BY <1>r, <1>p
<1>. HIDE DEF SentIn, Recorded, Loop, Told
<1>1. CASE Dispatch
  BY <1>1, <1>v DEF Dispatch, Others, Goto, market, web
<1>2. CASE Snapshot
  BY <1>2, <1>v DEF Snapshot, Others, Goto, Rest, market, web
<1>3. CASE Look
  BY <1>3, <1>v DEF Look, Others, Goto, market, web
<1>4. CASE Find
  BY <1>4, <1>v DEF Find, Others, Goto, market, web
<1>5. CASE SetOut
  BY <1>5, <1>v DEF SetOut, Others, Goto, Rest, market, web
<1>6. CASE KeepRow
  <2>1. First(todo) \in todo
    BY <1>6, <1>0, FirstIn DEF KeepRow
  <2>2. copies[First(todo)].status = "open"
    BY <2>1 DEF IInv, CopiesHold
  <2>3. pc' = "save_row" /\ cur' = First(todo) /\ copies' = copies /\ rows' = rows /\ pb' = pb
    BY <1>6 DEF KeepRow, Goto, Others, market, web
  <2>. QED BY <1>r, <1>p, <2>2, <2>3 DEF Loop, Exited
<1>7. CASE ExitRow
  <2>. DEFINE h == First(todo)
  <2>1. h \in Hedges /\ cur' = h /\ rows[h].legs \subseteq Legs /\ leg' \in Legs \cup {0}
        /\ \A l \in rows[h].legs : l <= leg'
    BY <1>7, <1>0, <1>s, ExitRowIs
  <2>2. rows' = rows /\ pb' = pb /\ pc' \in {"lock", "send"}
    BY <1>7 DEF ExitRow, Goto, Others, market, web
  <2>. HIDE DEF h
  <2>3. \A l \in rows[h].legs : ~(l > leg')
    <3>1. leg' \in Int /\ \A l \in rows[h].legs : l \in Int
      BY <2>1, LegNumbers
    <3>. QED BY <2>1, <3>1
  <2>. QED BY <1>r, <1>p, <2>1, <2>2, <2>3 DEF Loop
<1>8. CASE AllRowsSeen
  BY <1>8, <1>v DEF AllRowsSeen, Others, Goto, market, web
<1>9. CASE \/ LockExitLeg \/ PeekLock \/ SquareOff \/ CheckExitOrder
           \/ MarkFailed \/ EndAliceExit
  <2>1. Exiting
    BY <1>9 DEF LockExitLeg, PeekLock, SquareOff, SquareOffPosition,
       SquareOffLimit, CheckExitOrder, MarkFailed, EndAliceExit, Exiting
  <2>. QED BY <1>s, <2>1 DEF IInv, EngineHolds
<1>10. CASE SendExit
  <2>1. pc = "send" /\ pc' = "send" /\ cur' = cur /\ leg' = After(cur, leg) /\ rows' = rows /\ pb' = pb
    BY <1>10 DEF SendExit, Others, web
  <2>2. PICK x \in {"submitted", "refused"} : \E d \in 0 .. MaxOrders :
           /\ copies'[cur].exit = [copies[cur].exit EXCEPT ![leg] = x]
           /\ copies'[cur].id = [copies[cur].id EXCEPT ![leg] = d]
           /\ \/ x = "submitted" /\ Accept /\ d = Len(orders) + 1
              \/ x = "refused" /\ d = 0
    BY <1>10, <1>0, SendExitIs
  <2>3. PICK d \in 0 .. MaxOrders :
           /\ copies'[cur].exit = [copies[cur].exit EXCEPT ![leg] = x]
           /\ copies'[cur].id = [copies[cur].id EXCEPT ![leg] = d]
           /\ \/ x = "submitted" /\ Accept /\ d = Len(orders) + 1
              \/ x = "refused" /\ d = 0
    BY <2>2
  <2>4. leg \in Legs /\ copies[cur].exit \in [Legs -> ExitStates] /\ copies[cur].id \in [Legs -> 0 .. MaxOrders]
        /\ Len(orders) \in Nat
    <3>1. leg \in Legs
      BY <1>10, <1>0, SendExitIs
    <3>2. copies[cur] \in Rows
      BY <1>0 DEF TypeOK
    <3>3. Len(orders) \in Nat
      BY <1>0 DEF TypeOK
    <3>. QED BY <3>1, <3>2, <3>3 DEF Rows
  <2>5. x = "refused" \/ d > 0
    BY <2>3, <2>4
  <2>6. \A l \in Legs : /\ copies'[cur].exit[l] = IF l = leg THEN x ELSE copies[cur].exit[l]
                        /\ copies'[cur].id[l] = IF l = leg THEN d ELSE copies[cur].id[l]
    BY <2>3, <2>4
  <2>7. \A l \in rows[cur].legs : l > leg => copies[cur].exit[l] = "refused" \/ copies[cur].id[l] > 0
    BY <1>s, <2>1 DEF IInv, SentHolds
  <2>8. /\ rows[cur].legs \subseteq Legs /\ leg \in Int /\ After(cur, leg) \in Int
        /\ \A l \in rows[cur].legs : l < leg => l <= After(cur, leg)
    <3>1. leg \in Int
      BY <2>4, HedgeFacts
    <3>2. /\ After(cur, leg) \in rows[cur].legs \cup {0} /\ rows[cur].legs \subseteq Legs
          /\ \A l \in rows[cur].legs : l < leg => l <= After(cur, leg)
      BY <1>0, <3>1, AfterIn
    <3>3. After(cur, leg) \in Legs \cup {0}
      BY <3>2
    <3>4. After(cur, leg) \in Int
      BY <3>3, LegNumbers
    <3>. QED BY <3>1, <3>2, <3>4
  <2>9. ASSUME NEW l \in rows[cur].legs, l > leg'
        PROVE  copies'[cur].exit[l] = "refused" \/ copies'[cur].id[l] > 0
    <3>0. l \in Legs /\ l \in Int
      BY <2>8, LegNumbers
    <3>1. ~(l < leg)
      BY <2>1, <2>8, <2>9, <3>0
    <3>2. l = leg \/ l > leg
      BY <2>8, <3>0, <3>1
    <3>. QED BY <2>5, <2>6, <2>7, <2>9, <3>0, <3>2
  <2>. QED BY <1>r, <1>p, <2>1, <2>9 DEF Loop
<1>11. CASE SendExitRaises
  BY <1>11, <1>v DEF SendExitRaises, Others, Goto, Rest, Accept, CallFails,
     Fails, market, web
<1>12. CASE EndExit
  <2>1. pc = "send" /\ leg = 0 /\ pc' = "save_strategy" /\ cur' = cur /\ rows' = rows /\ pb' = pb
    BY <1>12 DEF EndExit, Goto, Others, market, web
  <2>2. \A l \in rows[cur].legs : l > 0 => copies[cur].exit[l] = "refused" \/ copies[cur].id[l] > 0
    BY <1>s, <2>1 DEF IInv, SentHolds
  <2>3. copies'[cur].exit = copies[cur].exit /\ copies'[cur].id = copies[cur].id
    BY <1>12, <1>0, EndExitIs
  <2>4. \A l \in rows[cur].legs : l > 0
    BY <1>0, HedgeFacts DEF Rows
  <2>. QED BY <1>r, <1>p, <2>1, <2>2, <2>3, <2>4 DEF Loop, SentIn
<1>13. CASE SaveStrategy
  <2>1. pc = "save_strategy" /\ pc' = "save_row" /\ cur' = cur /\ copies' = copies /\ rows' = rows /\ pb' = pb
    BY <1>13 DEF SaveStrategy, Goto, Others, market, web
  <2>2. copies[cur].status \in Exited => Sent(cur, copies[cur])
    BY <1>s, <2>1 DEF IInv, SentHolds
  <2>. QED BY <1>r, <1>p, <2>1, <2>2 DEF Loop, SentIn, Sent
<1>14. CASE SaveRow
  <2>1. pc = "save_row" /\ pc' = "row" /\ pb' = pb
    BY <1>14 DEF SaveRow, Goto, Others, web
  <2>2. copies[cur].status \in Exited => Sent(cur, copies[cur])
    BY <1>s, <2>1 DEF IInv, SentHolds
  <2>3. /\ Rewrites(cur) /\ rows'[cur].status = copies[cur].status
        /\ rows'[cur].exit = copies[cur].exit /\ rows'[cur].id = copies[cur].id
    BY <1>14, <1>0, SaveRowIs
  <2>4. copies[cur].status \in Exited => rows'[cur].legs = rows[cur].legs
    BY <1>0, <1>e, KnownStep DEF IInv, CopiesHold, CopyOf
  <2>5. rows'[cur].status \in Exited => SentIn(cur, rows'[cur])
    BY <2>2, <2>3, <2>4 DEF Sent, SentIn
  <2>6. Recorded
    BY <1>t, <2>3, <2>5 DEF Rewrites, Recorded
  <2>. QED BY <1>p, <2>1, <2>6 DEF Loop
<1>15. CASE NoEntry
  BY <1>15, <1>v DEF NoEntry, Others, Goto, Rest, market, web
<1>16. CASE Blocked
  BY <1>16, <1>v DEF Blocked, Others, Goto, Rest, MayEnter, market, web
<1>17. CASE FindExisting
  <2>1. pc' \in {"set_in", "group"} /\ rows' = rows
    BY <1>17, FindExistingIs
  <2>2. pb' = pb
    BY <1>17 DEF FindExisting, Others, web
  <2>. QED BY <1>r, <1>p, <2>1, <2>2 DEF Loop
<1>18. CASE SetIn
  BY <1>18, <1>v DEF SetIn, Others, Goto, Rest, market, web
<1>19. CASE LockEntryGroup
  BY <1>19, <1>v DEF LockEntryGroup, Others, Goto, Rest, market, web
<1>20. CASE Attempt
  BY <1>20, <1>v DEF Attempt, Others, Goto, market, web
<1>21. CASE LockEntryLeg
  BY <1>21, <1>v DEF LockEntryLeg, Others, Goto, NextEntryLeg, market, web
<1>22. CASE PlaceEntryOrder
  BY <1>22, <1>v DEF PlaceEntryOrder, Others, Goto, Enter, market, web
<1>23. CASE EntryOrderRaises
  BY <1>23, <1>v DEF EntryOrderRaises, Others, Goto, Rest, Enter, market, web
<1>24. CASE EntryAccepted
  BY <1>24, <1>v DEF EntryAccepted, Others, Goto, MarkEntryLock, market, web
<1>25. CASE EntryRefused
  BY <1>25, <1>v DEF EntryRefused, Others, Goto, NextEntryLeg, MarkEntryLock,
     market, web
<1>26. CASE QuoteLeg
  BY <1>26, <1>v DEF QuoteLeg, Others, Goto, Rest, NextEntryLeg, market, web
<1>27. CASE InsertRow
  <2>1. pc' \in {"insert", "settle", "idle"} /\ pb' = pb
    BY <1>27 DEF InsertRow, FindBeforeInsert, InsertNewRow, Goto, Others, Rest, web
  <2>2. rows' = rows \/ (Rewrites(cur) /\ rows'[cur].status = "open")
    BY <1>27, <1>0, InsertRowIs
  <2>3. Recorded
    BY <1>e, <1>t, <1>r, <2>2 DEF Rewrites, Recorded
  <2>. QED BY <1>p, <2>1, <2>3 DEF Loop
<1>28. CASE SettleEntry
  BY <1>28, <1>v DEF SettleEntry, Others, Goto, Rest, market, web
<1>29. CASE Scan
  BY <1>29, <1>l, <1>r, <1>p DEF Scan, Refreshing, engine, market, web,
     NoPostback
<1>30. CASE RepairPosition
  BY <1>30, <1>l, <1>r, <1>p DEF RepairPosition, Refreshing, engine, market,
     web, NoPostback
<1>31. CASE WriteBack
  <2>. DEFINE h == First(rtodo)
  <2>1. h \in rtodo /\ (rows' = rows \/ (Rewrites(h) /\ rows'[h].status = rcopies[h].status))
    BY <1>31, <1>0, WriteBackIs
  <2>2. rcopies[h].status = "open"
    BY <2>1 DEF IInv, RCopiesHold
  <2>. HIDE DEF h
  <2>3. Recorded
    BY <1>e, <1>t, <1>r, <2>1, <2>2 DEF Rewrites, Recorded
  <2>4. pc' = pc /\ cur' = cur /\ copies' = copies /\ leg' = leg /\ pb' = pb
    BY <1>31 DEF WriteBack, engine, web
  <2>. QED BY <1>l, <1>p, <2>3, <2>4
<1>32. CASE \E i \in DOMAIN orders : Fill(i)
  BY <1>32, <1>l, <1>r, <1>p DEF Fill, engine, market, web, NoPostback
<1>33. CASE \E i \in DOMAIN orders : Reject(i)
  BY <1>33, <1>l, <1>r, <1>p DEF Reject, engine, market, web, NoPostback
<1>34. CASE \E i \in DOMAIN orders : ReadPostback(i)
  <2>1. PICK i \in DOMAIN orders : ReadPostback(i)
    BY <1>34
  <2>2. rows' = rows /\ pc' = pc /\ cur' = cur /\ copies' = copies /\ leg' = leg
    BY <2>1 DEF ReadPostback, market, engine
  <2>3. /\ pb'.h \in Hedges /\ rows[pb'.h].status \in Unresolved
        /\ pb'.row.id = rows[pb'.h].id
        /\ \E l \in Legs : rows[pb'.h].id[l] = i
    BY <1>0, <2>1, ReadPostbackIs
  <2>4. PICK said \in {"submitted", "complete", "failed"} :
           \A l \in Legs : pb'.row.exit[l] = IF rows[pb'.h].id[l] = i THEN said ELSE rows[pb'.h].exit[l]
    BY <1>0, <2>1, ReadPostbackIs
  <2>5. i > 0
    BY <1>0 DEF TypeOK
  <2>6. rows[pb'.h].status \in Exited
    BY <2>3, <2>5 DEF IInv, RowsHold, Fresh, Unresolved, Exited
  <2>7. SentIn(pb'.h, rows[pb'.h])
    BY <1>t, <2>2, <2>3, <2>6
  <2>8. rows'[pb'.h].legs \subseteq Legs
    BY <1>0, <2>2, <2>3 DEF Rows
  <2>9. SentIn(pb'.h, pb'.row)
    BY <2>3, <2>4, <2>5, <2>7, <2>8 DEF SentIn
  <2>. QED BY <1>l, <1>r, <2>2, <2>9 DEF Told
<1>35. CASE SavePostback
  <2>1. pb.at = "row" /\ pc' = pc /\ cur' = cur /\ copies' = copies /\ leg' = leg
    BY <1>35 DEF SavePostback, engine
  <2>2. /\ Rewrites(pb.h) /\ rows'[pb.h].legs = rows[pb.h].legs
        /\ rows'[pb.h].exit = pb.row.exit /\ rows'[pb.h].id = pb.row.id
    BY <1>35, <1>0, SavePostbackIs
  <2>3. SentIn(pb.h, rows'[pb.h])
    BY <1>s, <2>1, <2>2 DEF IInv, SentHolds, Sent, SentIn
  <2>4. Recorded
    BY <1>t, <2>2, <2>3 DEF Rewrites, Recorded
  <2>5. pb'.at # "row"
    <3>1. pb \in [at : {"none", "row", "strategy"}, h : Hedges, row : Rows]
      BY <1>0 DEF TypeOK
    <3>2. pb' = [pb EXCEPT !.at = "strategy"] \/ pb' = NoPostback
      BY <1>35 DEF SavePostback
    <3>. QED BY <3>1, <3>2 DEF NoPostback
  <2>. QED BY <1>l, <2>1, <2>4, <2>5 DEF Told
<1>36. CASE PostbackSettles
  BY <1>36, <1>l, <1>r, <1>p DEF PostbackSettles, engine, market, web,
     NoPostback
<1>37. CASE Retire
  BY <1>37, <1>l, <1>r, <1>p DEF Retire, Requesting, Upset, engine, market,
     web, NoPostback
<1>38. CASE ReadRequest
  BY <1>38, <1>l, <1>r, <1>p DEF ReadRequest, ReadToStart, ReadToReset,
     ReadToEdit, Requesting, Upset, engine, market, web, NoPostback
<1>39. CASE CommitRequest
  BY <1>39, <1>l, <1>r, <1>p DEF CommitRequest, CommitReset, ResetTo,
     Committing, CommitEdit, engine, market, web, NoPostback
<1>40. CASE Crash
  BY <1>40, <1>v DEF Crash, Upset, market, web
<1>41. CASE Restart
  BY <1>41, <1>v DEF Restart, Others, Goto, market, web
<1>. QED BY <1>1, <1>2, <1>3, <1>4, <1>5, <1>6, <1>7, <1>8, <1>9, <1>10,
   <1>11, <1>12, <1>13, <1>14, <1>15, <1>16, <1>17, <1>18, <1>19, <1>20,
   <1>21, <1>22, <1>23, <1>24, <1>25, <1>26, <1>27, <1>28, <1>29, <1>30,
   <1>31, <1>32, <1>33, <1>34, <1>35, <1>36, <1>37, <1>38, <1>39, <1>40, <1>41
   DEF Next, Round, Exit, Entry, Refresher, Market, Postback

-----------------------------------------------------------------------------
(* One exit order for a leg.                                               *)

\* A row becomes open when an entry inserts it, or an old copy reopens it.
LEMMA OpenStep ==
  ASSUME IInv, Next
  PROVE  \A h \in Hedges : rows'[h].status = "open" =>
            \/ rows[h].status = "open" \/ h \in reopened'
            \/ /\ InsertRow /\ h = cur /\ rows[h].status = "none" /\ pc' = "settle"
<1>. DEFINE Goal == \A h \in Hedges : rows'[h].status = "open" =>
            \/ rows[h].status = "open" \/ h \in reopened'
            \/ /\ InsertRow /\ h = cur /\ rows[h].status = "none" /\ pc' = "settle"
<1>. SUFFICES Goal
  OBVIOUS
<1>0. TypeOK /\ LegInRange /\ cur \in Hedges
  BY DEF IInv, TypeOK
<1>u. rows' = rows => Goal
  OBVIOUS
<1>1. CASE \/ Dispatch \/ Snapshot \/ Look \/ Find \/ SetOut
  BY <1>1, <1>u DEF Dispatch, Others, Goto, Snapshot, Rest, Look, Find,
     SetOut, market
<1>2. CASE \/ KeepRow \/ ExitRow \/ AllRowsSeen \/ PeekLock \/ SquareOff
           \/ EndAliceExit \/ SendExit \/ SendExitRaises
  BY <1>2, <1>u DEF KeepRow, Others, Goto, ExitRow, AllRowsSeen, PeekLock,
     SquareOff, SquareOffPosition, SquareOffLimit, Accept, CallFails, Fails,
     EndAliceExit, SendExit, SendExitRaises, Rest, market
<1>3. CASE \/ LockExitLeg \/ CheckExitOrder \/ MarkFailed
  <2>1. \/ rows' = rows
        \/ Rewrites(cur) /\ rows'[cur].status \in {"exit_pending", rows[cur].status}
    BY <1>3, <1>0, LocksAre
  <2>. QED BY <1>u, <2>1 DEF Rewrites
<1>4. CASE \/ EndExit \/ SaveStrategy
  BY <1>4, <1>u DEF EndExit, Others, Goto, SaveStrategy, market
<1>5. CASE SaveRow
  <2>1. /\ Rewrites(cur) /\ rows'[cur].status = copies[cur].status
        /\ copies[cur].status = "open" /\ rows[cur].status # "open" => cur \in reopened'
    BY <1>5, <1>0, SaveRowIs
  <2>. QED BY <1>u, <2>1 DEF Rewrites
<1>6. CASE \/ NoEntry \/ Blocked \/ FindExisting \/ SetIn \/ LockEntryGroup
           \/ Attempt \/ LockEntryLeg \/ PlaceEntryOrder
  BY <1>6, <1>u DEF NoEntry, Others, Goto, Rest, Blocked, MayEnter,
     FindExisting, SetIn, LockEntryGroup, Attempt, LockEntryLeg, NextEntryLeg,
     PlaceEntryOrder, Enter, market
<1>7. CASE \/ EntryOrderRaises \/ EntryAccepted \/ EntryRefused \/ QuoteLeg
           \/ SettleEntry
  BY <1>7, <1>u DEF EntryOrderRaises, Others, Goto, Rest, Enter,
     EntryAccepted, MarkEntryLock, EntryRefused, NextEntryLeg, QuoteLeg,
     SettleEntry, market
<1>8. CASE InsertRow
  <2>1. \/ rows' = rows
        \/ /\ Rewrites(cur) /\ pc' = "settle"
    BY <1>8, <1>0, InsertRowIs
  <2>2. rows[cur].status = "none"
    BY <1>8 DEF InsertRow, FindBeforeInsert, InsertNewRow, IInv, EngineHolds, Entering
  <2>. QED BY <1>8, <1>u, <2>1, <2>2 DEF Rewrites
<1>9. CASE \/ Scan \/ RepairPosition \/ (\E i \in DOMAIN orders : Fill(i))
           \/ (\E i \in DOMAIN orders : Reject(i))
  BY <1>9, <1>u DEF Scan, Refreshing, RepairPosition, Fill, Reject, market
<1>10. CASE WriteBack
  <2>. DEFINE h == First(rtodo)
  <2>1. \/ rows' = rows
        \/ /\ Rewrites(h) /\ h \in Hedges /\ rows'[h].status = rcopies[h].status
           /\ rcopies[h].status = "open" /\ rows[h].status # "open" => h \in reopened'
    BY <1>10, <1>0, WriteBackIs
  <2>. HIDE DEF h
  <2>. QED BY <1>u, <2>1 DEF Rewrites
<1>11. CASE \/ (\E i \in DOMAIN orders : ReadPostback(i)) \/ PostbackSettles
            \/ Retire \/ ReadRequest \/ CommitRequest \/ Crash \/ Restart
  BY <1>11, <1>u DEF ReadPostback, PostbackSettles, Retire, Requesting, Upset,
     ReadRequest, ReadToStart, ReadToReset, ReadToEdit, CommitRequest,
     CommitReset, ResetTo, Committing, CommitEdit, Crash, Restart, Others, Goto,
     market
<1>12. CASE SavePostback
  <2>1. Rewrites(pb.h) /\ rows'[pb.h].status # "open"
    BY <1>12, <1>0, SavePostbackIs, OutcomeIs
  <2>. QED BY <1>u, <2>1 DEF Rewrites
<1>. QED BY <1>1, <1>2, <1>3, <1>4, <1>5, <1>6, <1>7, <1>8, <1>9, <1>10,
   <1>11, <1>12 DEF Next, Round, Exit, Entry, Refresher, Market, Postback

\* An open row leaves that status by a lock, an exit or a postback.
LEMMA LeaveStep ==
  ASSUME IInv, Next
  PROVE  \A h \in Hedges : rows[h].status = "open" =>
            \/ rows'[h].status = "open"
            \/ h = cur /\ LockExitLeg /\ pc' = "square_off" /\ rows'[h].status = "exit_pending"
            \/ h = cur /\ SaveRow /\ copies[h].status # "open"
            \/ h = pb.h /\ SavePostback
<1>. DEFINE Goal == \A h \in Hedges : rows[h].status = "open" =>
            \/ rows'[h].status = "open"
            \/ h = cur /\ LockExitLeg /\ pc' = "square_off" /\ rows'[h].status = "exit_pending"
            \/ h = cur /\ SaveRow /\ copies[h].status # "open"
            \/ h = pb.h /\ SavePostback
<1>. SUFFICES Goal
  OBVIOUS
<1>0. TypeOK /\ LegInRange /\ cur \in Hedges
  BY DEF IInv, TypeOK
<1>u. rows' = rows => Goal
  OBVIOUS
<1>1. CASE \/ Dispatch \/ Snapshot \/ Look \/ Find \/ SetOut
  BY <1>1, <1>u DEF Dispatch, Others, Goto, Snapshot, Rest, Look, Find,
     SetOut, market
<1>2. CASE \/ KeepRow \/ ExitRow \/ AllRowsSeen \/ PeekLock \/ SquareOff
           \/ EndAliceExit \/ SendExit \/ SendExitRaises
  BY <1>2, <1>u DEF KeepRow, Others, Goto, ExitRow, AllRowsSeen, PeekLock,
     SquareOff, SquareOffPosition, SquareOffLimit, Accept, CallFails, Fails,
     EndAliceExit, SendExit, SendExitRaises, Rest, market
<1>3. CASE \/ LockExitLeg \/ CheckExitOrder \/ MarkFailed
  <2>1. \/ rows' = rows
        \/ /\ Rewrites(cur)
           /\ IF LockExitLeg THEN rows'[cur].status = "exit_pending" /\ pc' = "square_off"
              ELSE rows'[cur].status = rows[cur].status
    BY <1>3, <1>0, LocksAre
  <2>. QED BY <1>u, <2>1 DEF Rewrites
<1>4. CASE \/ EndExit \/ SaveStrategy
  BY <1>4, <1>u DEF EndExit, Others, Goto, SaveStrategy, market
<1>5. CASE SaveRow
  <2>1. Rewrites(cur) /\ rows'[cur].status = copies[cur].status
    BY <1>5, <1>0, SaveRowIs
  <2>. QED BY <1>5, <1>u, <2>1 DEF Rewrites
<1>6. CASE \/ NoEntry \/ Blocked \/ FindExisting \/ SetIn \/ LockEntryGroup
           \/ Attempt \/ LockEntryLeg \/ PlaceEntryOrder
  BY <1>6, <1>u DEF NoEntry, Others, Goto, Rest, Blocked, MayEnter,
     FindExisting, SetIn, LockEntryGroup, Attempt, LockEntryLeg, NextEntryLeg,
     PlaceEntryOrder, Enter, market
<1>7. CASE \/ EntryOrderRaises \/ EntryAccepted \/ EntryRefused \/ QuoteLeg
           \/ SettleEntry
  BY <1>7, <1>u DEF EntryOrderRaises, Others, Goto, Rest, Enter,
     EntryAccepted, MarkEntryLock, EntryRefused, NextEntryLeg, QuoteLeg,
     SettleEntry, market
<1>8. CASE InsertRow
  <2>1. rows' = rows \/ (Rewrites(cur) /\ rows'[cur].status = "open")
    BY <1>8, <1>0, InsertRowIs
  <2>. QED BY <1>u, <2>1 DEF Rewrites
<1>9. CASE \/ Scan \/ RepairPosition \/ (\E i \in DOMAIN orders : Fill(i))
           \/ (\E i \in DOMAIN orders : Reject(i))
  BY <1>9, <1>u DEF Scan, Refreshing, RepairPosition, Fill, Reject, market
<1>10. CASE WriteBack
  <2>. DEFINE h == First(rtodo)
  <2>1. h \in rtodo /\ (rows' = rows \/ (Rewrites(h) /\ rows'[h].status = rcopies[h].status))
    BY <1>10, <1>0, WriteBackIs
  <2>2. rcopies[h].status = "open"
    BY <2>1 DEF IInv, RCopiesHold
  <2>. HIDE DEF h
  <2>. QED BY <1>u, <2>1, <2>2 DEF Rewrites
<1>11. CASE \/ (\E i \in DOMAIN orders : ReadPostback(i)) \/ PostbackSettles
            \/ Retire \/ ReadRequest \/ CommitRequest \/ Crash \/ Restart
  BY <1>11, <1>u DEF ReadPostback, PostbackSettles, Retire, Requesting, Upset,
     ReadRequest, ReadToStart, ReadToReset, ReadToEdit, CommitRequest,
     CommitReset, ResetTo, Committing, CommitEdit, Crash, Restart, Others, Goto,
     market
<1>12. CASE SavePostback
  <2>1. Rewrites(pb.h)
    BY <1>12, <1>0, SavePostbackIs
  <2>. QED BY <1>12, <1>u, <2>1 DEF Rewrites
<1>. QED BY <1>1, <1>2, <1>3, <1>4, <1>5, <1>6, <1>7, <1>8, <1>9, <1>10,
   <1>11, <1>12 DEF Next, Round, Exit, Entry, Refresher, Market, Postback

\* The exit orders of a leg grow only while it is being sent.
LEMMA OrdersOfStep ==
  ASSUME TypeOK, LegInRange, Next
  PROVE  /\ \A h, l : \A i \in OrdersIn(orders', h, l) :
               \/ i \in OrdersOf(h, l)
               \/ pc \in {"square_off", "limit", "send"} /\ h = cur /\ l = leg /\ i = Len(orders) + 1
         /\ orders' = orders \/ (\E i \in DOMAIN orders : Fill(i) \/ Reject(i)) =>
               \A h, l : OrdersIn(orders', h, l) \subseteq OrdersOf(h, l)
<1>1. \A h, l : \A i \in OrdersIn(orders', h, l) :
         \/ i \in OrdersOf(h, l)
         \/ pc \in {"square_off", "limit", "send"} /\ h = cur /\ l = leg /\ i = Len(orders) + 1
  BY OrdersGrow DEF OrdersOf, OrdersIn
<1>2. ASSUME orders' = orders
      PROVE  \A h, l : OrdersIn(orders', h, l) \subseteq OrdersOf(h, l)
  BY <1>2 DEF OrdersOf, OrdersIn
<1>3. ASSUME NEW i \in DOMAIN orders, Fill(i) \/ Reject(i)
      PROVE  \A h, l : OrdersIn(orders', h, l) \subseteq OrdersOf(h, l)
  <2>1. PICK x \in {"traded", "rejected"} : orders' = [orders EXCEPT ![i].state = x]
    BY <1>3 DEF Fill, Reject
  <2>2. orders \in Seq(Orders)
    BY DEF TypeOK
  <2>3. DOMAIN orders' = DOMAIN orders
        /\ \A k \in DOMAIN orders : orders'[k].h = orders[k].h /\ orders'[k].l = orders[k].l
    BY <2>1, <2>2, StateSet
  <2>. QED BY <2>3 DEF OrdersOf, OrdersIn
<1>. QED BY <1>1, <1>2, <1>3

\* The first part of OnceHolds, about the rows, is kept.
LEMMA OnceRowsStep ==
  ASSUME IInv, Next, Alice
  PROVE  /\ \A h \in Hedges \ reopened', l \in Legs : \A i, j \in OrdersIn(orders', h, l) : i = j
         /\ \A h \in Hedges \ reopened' :
               rows'[h].status = "open" => \A l \in Legs : OrdersIn(orders', h, l) = {}
<1>0. TypeOK /\ LegInRange /\ reopened \subseteq reopened'
  BY ReopenedStep DEF IInv
<1>1. pc \in {"square_off", "limit", "send"} =>
         pc \in {"square_off", "limit"} /\ (cur \notin reopened => rows[cur].status # "open")
  BY DEF IInv, EngineHolds, OnceHolds, Alice
<1>2. pc \in {"square_off", "limit"} /\ cur \notin reopened => NoOrder(cur, leg)
  BY <1>0, LegNumbers DEF IInv, OnceHolds, LegInRange
<1>3. ASSUME NEW h \in Hedges \ reopened', NEW l \in Legs,
             NEW i \in OrdersIn(orders', h, l), NEW j \in OrdersIn(orders', h, l)
      PROVE  i = j
  <2>1. \/ i \in OrdersOf(h, l)
        \/ pc \in {"square_off", "limit", "send"} /\ h = cur /\ l = leg /\ i = Len(orders) + 1
    BY <1>0, OrdersOfStep
  <2>2. \/ j \in OrdersOf(h, l)
        \/ pc \in {"square_off", "limit", "send"} /\ h = cur /\ l = leg /\ j = Len(orders) + 1
    BY <1>0, OrdersOfStep
  <2>3. \A m, n \in OrdersOf(h, l) : m = n
    BY <1>0 DEF IInv, OnceHolds
  <2>. QED BY <1>0, <1>1, <1>2, <2>1, <2>2, <2>3 DEF NoOrder
<1>4. ASSUME NEW h \in Hedges \ reopened', rows'[h].status = "open", NEW l \in Legs
      PROVE  OrdersIn(orders', h, l) = {}
  <2>1. \A i \in OrdersIn(orders', h, l) : i \in OrdersOf(h, l) \/ (pc \in {"square_off", "limit"} /\ h = cur)
    BY <1>0, <1>1, OrdersOfStep
  <2>2. rows[h].status \in {"open", "none"}
    BY <1>4, OpenStep
  <2>3. ~(pc \in {"square_off", "limit"} /\ h = cur)
    BY <1>0, <1>1, <2>2 DEF IInv, EngineHolds, Exiting, CopiesHold, CopyOf
  <2>4. NoOrder(h, l)
    BY <1>0, <2>2 DEF IInv, OnceHolds, RowsHold, NoOrder, OrdersOf
  <2>. QED BY <2>1, <2>3, <2>4 DEF NoOrder
<1>. QED BY <1>3, <1>4

\* Rows that the loop has still to visit stay open.
LEMMA OnceTodoStep ==
  ASSUME IInv, Next, Alice
  PROVE  \A h \in todo' \ reopened' : rows'[h].status = "open"
<1>. DEFINE Goal == \A h \in todo' \ reopened' : rows'[h].status = "open"
<1>. SUFFICES Goal
  OBVIOUS
<1>0. TypeOK /\ LegInRange /\ reopened \subseteq reopened' /\ todo \subseteq Hedges
  BY ReopenedStep DEF IInv, TypeOK
<1>x. ~SavePostback
  BY DEF IInv, PostbackHolds, Alice, SavePostback
<1>y. \A h \in todo \ reopened' : rows[h].status = "open" /\ copies[h].status = "open"
  BY <1>0 DEF IInv, OnceHolds, CopiesHold
<1>c. \A h \in todo \ reopened' : rows'[h].status = "open" \/ LockExitLeg
  BY <1>0, <1>x, <1>y, LeaveStep
<1>u. todo' \subseteq todo /\ rows' = rows => Goal
  BY <1>y
<1>1. CASE Dispatch
  BY <1>1, <1>u DEF Dispatch, Others, Goto, market
<1>2. CASE Snapshot
  BY <1>2, <1>u DEF Snapshot, Others, Goto, Rest, market
<1>3. CASE Look
  BY <1>3, <1>u DEF Look, Others, Goto, market
<1>4. CASE Find
  <2>1. todo' = Open /\ rows' = rows
    BY <1>4 DEF Find, market
  <2>. QED BY <2>1 DEF Open
<1>5. CASE SetOut
  BY <1>5, <1>u DEF SetOut, Others, Goto, Rest, market
<1>6. CASE KeepRow
  BY <1>6, <1>u DEF KeepRow, Others, Goto, market
<1>7. CASE ExitRow
  <2>1. todo' = {}
    BY <1>7 DEF ExitRow, Alice
  <2>. QED BY <2>1
<1>8. CASE AllRowsSeen
  BY <1>8, <1>u DEF AllRowsSeen, Others, Goto, market
<1>9. CASE \/ LockExitLeg \/ PeekLock \/ SquareOff \/ CheckExitOrder
           \/ MarkFailed \/ EndAliceExit
  <2>1. Exiting /\ todo' = todo
    BY <1>9 DEF LockExitLeg, PeekLock, SquareOff, SquareOffPosition,
       SquareOffLimit, CheckExitOrder, MarkFailed, EndAliceExit, Exiting
  <2>2. todo = {}
    BY <2>1 DEF IInv, EngineHolds
  <2>. QED BY <2>1, <2>2
<1>10. CASE SendExit
  BY <1>10, <1>u DEF SendExit, Others, Goto, Accept, CallFails, Fails, market
<1>11. CASE SendExitRaises
  BY <1>11, <1>u DEF SendExitRaises, Others, Goto, Rest, Accept, CallFails,
     Fails, market
<1>12. CASE EndExit
  BY <1>12, <1>u DEF EndExit, Others, Goto, market
<1>13. CASE SaveStrategy
  BY <1>13, <1>u DEF SaveStrategy, Others, Goto, market
<1>14. CASE SaveRow
  <2>1. todo' = todo /\ ~LockExitLeg /\ ~SavePostback
    BY <1>14, <1>x DEF SaveRow, LockExitLeg
  <2>. QED BY <1>c, <2>1
<1>15. CASE NoEntry
  BY <1>15, <1>u DEF NoEntry, Others, Goto, Rest, market
<1>16. CASE Blocked
  BY <1>16, <1>u DEF Blocked, Others, Goto, Rest, MayEnter, market
<1>17. CASE FindExisting
  BY <1>17, <1>u DEF FindExisting, Others, Goto, MayEnter, market
<1>18. CASE SetIn
  BY <1>18, <1>u DEF SetIn, Others, Goto, Rest, market
<1>19. CASE LockEntryGroup
  BY <1>19, <1>u DEF LockEntryGroup, Others, Goto, Rest, market
<1>20. CASE Attempt
  BY <1>20, <1>u DEF Attempt, Others, Goto, market
<1>21. CASE LockEntryLeg
  BY <1>21, <1>u DEF LockEntryLeg, Others, Goto, NextEntryLeg, market
<1>22. CASE PlaceEntryOrder
  BY <1>22, <1>u DEF PlaceEntryOrder, Others, Goto, Enter, market
<1>23. CASE EntryOrderRaises
  BY <1>23, <1>u DEF EntryOrderRaises, Others, Goto, Rest, Enter, market
<1>24. CASE EntryAccepted
  BY <1>24, <1>u DEF EntryAccepted, Others, Goto, MarkEntryLock, market
<1>25. CASE EntryRefused
  BY <1>25, <1>u DEF EntryRefused, Others, Goto, NextEntryLeg, MarkEntryLock,
     market
<1>26. CASE QuoteLeg
  BY <1>26, <1>u DEF QuoteLeg, Others, Goto, Rest, NextEntryLeg, market
<1>27. CASE InsertRow
  <2>1. todo' \subseteq todo
    BY <1>27 DEF InsertRow, FindBeforeInsert, InsertNewRow, Rest
  <2>2. ~LockExitLeg /\ ~SaveRow
    BY <1>27 DEF InsertRow, FindBeforeInsert, InsertNewRow, LockExitLeg, SaveRow
  <2>. QED BY <1>c, <2>1, <2>2
<1>28. CASE SettleEntry
  BY <1>28, <1>u DEF SettleEntry, Others, Goto, Rest, market
<1>29. CASE \/ Scan \/ RepairPosition \/ (\E i \in DOMAIN orders : Fill(i))
            \/ (\E i \in DOMAIN orders : Reject(i))
  BY <1>29, <1>u DEF Scan, Refreshing, RepairPosition, Fill, Reject, engine,
     market
<1>30. CASE WriteBack
  <2>1. todo' = todo
    BY <1>30 DEF WriteBack, engine
  <2>2. ~LockExitLeg \/ rows' = rows
    BY <1>30 DEF WriteBack, engine, LockExitLeg, Goto
  <2>. QED BY <1>c, <1>u, <2>1, <2>2
<1>31. CASE \/ (\E i \in DOMAIN orders : ReadPostback(i)) \/ PostbackSettles
            \/ Retire \/ ReadRequest \/ CommitRequest
  BY <1>31, <1>u DEF ReadPostback, PostbackSettles, Retire, Requesting, Upset,
     ReadRequest, ReadToStart, ReadToReset, ReadToEdit, CommitRequest,
     CommitReset, ResetTo, Committing, CommitEdit, engine, market
<1>32. CASE SavePostback
  BY <1>32, <1>x DEF SavePostback
<1>33. CASE \/ Restart \/ Crash
  BY <1>33, <1>u DEF Restart, Others, Goto, Crash, Upset, market
<1>. QED BY <1>1, <1>2, <1>3, <1>4, <1>5, <1>6, <1>7, <1>8, <1>9, <1>10,
   <1>11, <1>12, <1>13, <1>14, <1>15, <1>16, <1>17, <1>18, <1>19, <1>20,
   <1>21, <1>22, <1>23, <1>24, <1>25, <1>26, <1>27, <1>28, <1>29, <1>30,
   <1>31, <1>32, <1>33 DEF Next, Round, Exit, Entry, Refresher, Market,
   Postback

\* The rest of OnceHolds, about the row in hand, is kept.
LEMMA OnceLoopStep ==
  ASSUME IInv, Next, Alice
  PROVE  cur' \notin reopened' =>
            /\ pc' \in {"lock", "square_off", "limit"} =>
                  \A l \in Legs : l <= leg' => OrdersIn(orders', cur', l) = {}
            /\ pc' \in {"peek", "check", "mark_failed"} =>
                  \A l \in Legs : l < leg' => OrdersIn(orders', cur', l) = {}
            /\ pc' \in {"square_off", "limit"} => rows'[cur'].status # "open"
<1>. DEFINE Goal == cur' \notin reopened' =>
            /\ pc' \in {"lock", "square_off", "limit"} =>
                  \A l \in Legs : l <= leg' => OrdersIn(orders', cur', l) = {}
            /\ pc' \in {"peek", "check", "mark_failed"} =>
                  \A l \in Legs : l < leg' => OrdersIn(orders', cur', l) = {}
            /\ pc' \in {"square_off", "limit"} => rows'[cur'].status # "open"
<1>. SUFFICES Goal
  OBVIOUS
<1>0. /\ TypeOK /\ LegInRange /\ reopened \subseteq reopened' /\ cur \in Hedges
      /\ leg \in Int /\ rows \in [Hedges -> Rows]
  <2>1. TypeOK /\ LegInRange
    BY DEF IInv
  <2>2. cur \in Hedges /\ rows \in [Hedges -> Rows] /\ leg \in 0 .. NLegs + 1
    BY <2>1 DEF TypeOK
  <2>3. reopened \subseteq reopened'
    BY <2>1, ReopenedStep
  <2>. QED BY <2>1, <2>2, <2>3
<1>q. pc' \notin {"lock", "peek", "square_off", "limit", "check", "mark_failed"} => Goal
  OBVIOUS
<1>u. ASSUME pc' = pc, cur' = cur, leg' = leg, \A h, l : OrdersIn(orders', h, l) \subseteq OrdersOf(h, l)
      PROVE  Goal
  <2>1. SUFFICES ASSUME cur \notin reopened
                 PROVE  Goal
    BY <1>0, <1>u
  <2>2. /\ pc \in {"lock", "square_off", "limit"} => \A l \in Legs : l <= leg => OrdersOf(cur, l) = {}
        /\ pc \in {"peek", "check", "mark_failed"} => \A l \in Legs : l < leg => OrdersOf(cur, l) = {}
        /\ pc \in {"square_off", "limit"} => rows[cur].status # "open"
    BY <2>1 DEF IInv, OnceHolds, NoOrder
  <2>3. \A l : OrdersOf(cur, l) = {} => OrdersIn(orders', cur', l) = {}
    BY <1>u
  <2>4. pc \in {"square_off", "limit"} => rows'[cur].status # "open" \/ cur \in reopened'
    BY <1>0, <1>u, <2>2, OpenStep
  <2>. QED BY <1>u, <2>2, <2>3, <2>4
<1>w. pc' = pc /\ cur' = cur /\ leg' = leg /\ orders' = orders => Goal
  <2>1. orders' = orders => \A h, l : OrdersIn(orders', h, l) \subseteq OrdersOf(h, l)
    BY DEF OrdersOf, OrdersIn
  <2>. QED BY <1>u, <2>1
<1>. HIDE DEF Goal
<1>1. CASE \/ Dispatch \/ Snapshot \/ Look \/ Find
  BY <1>1, <1>q DEF Dispatch, Others, Goto, Snapshot, Rest, Look, Find
<1>2. CASE \/ SetOut \/ KeepRow \/ AllRowsSeen \/ EndAliceExit
  BY <1>2, <1>q DEF SetOut, Others, Goto, Rest, KeepRow, AllRowsSeen,
     EndAliceExit
<1>3. CASE ExitRow
  <2>. DEFINE h == First(todo)
  <2>1. h \in todo /\ h \in Hedges /\ cur' = h
    BY <1>3, <1>0, ExitRowIs
  <2>2. orders' = orders /\ reopened' = reopened /\ pc' \in {"lock", "send"}
    BY <1>3 DEF ExitRow, Goto, market
  <2>. HIDE DEF h
  <2>3. cur' \notin reopened' => \A l \in Legs : NoOrder(h, l)
    BY <2>1, <2>2 DEF IInv, OnceHolds
  <2>. QED BY <2>1, <2>2, <2>3 DEF Goal, NoOrder, OrdersOf, OrdersIn
<1>4. CASE LockExitLeg
  <2>1. pc = "lock" /\ cur' = cur /\ leg' = leg /\ orders' = orders /\ reopened' = reopened
    BY <1>4 DEF LockExitLeg, market
  <2>2. \/ pc' = "peek"
        \/ pc' = "square_off" /\ rows'[cur].status = "exit_pending"
    BY <1>4, <1>0, LocksAre
  <2>3. cur \notin reopened => \A l \in Legs : l <= leg => OrdersOf(cur, l) = {}
    BY <2>1 DEF IInv, OnceHolds, NoOrder
  <2>4. \A l \in Legs : l < leg => l <= leg
    BY <1>0, LegNumbers
  <2>. QED BY <1>0, <2>1, <2>2, <2>3, <2>4 DEF Goal, OrdersOf, OrdersIn
<1>5. CASE \/ PeekLock \/ CheckExitOrder \/ MarkFailed
  <2>1. pc \in {"peek", "check", "mark_failed"} /\ pc' = "lock" /\ cur' = cur /\ leg' = After(cur, leg)
        /\ orders' = orders /\ reopened' = reopened
    BY <1>5 DEF PeekLock, CheckExitOrder, MarkFailed, Goto, market
  <2>2. cur \notin reopened => \A l \in Legs : l < leg => OrdersOf(cur, l) = {}
    BY <2>1 DEF IInv, OnceHolds, NoOrder
  <2>3. leg' # 0 => leg' < leg
    BY <1>0, <2>1, AfterIn
  <2>4. leg \in Legs
    BY <2>1 DEF IInv, LegInRange
  <2>5. \A l \in Legs : l <= leg' => l < leg
    <3>1. leg' \in Int /\ leg \in Int /\ \A l \in Legs : l \in Int /\ l > 0
      BY <1>0, LegNumbers, AfterIn, <2>1
    <3>. QED BY <2>3, <3>1
  <2>. QED BY <2>1, <2>2, <2>5 DEF Goal, OrdersOf, OrdersIn
<1>6. CASE SquareOff
  <2>1. /\ pc \in {"square_off", "limit"} /\ cur' = cur /\ leg' = leg /\ reopened' = reopened
        /\ pc' \in {"limit", "check", "mark_failed"}
        /\ pc' = "limit" => orders' = orders /\ rows' = rows
    BY <1>6 DEF SquareOff, SquareOffPosition, SquareOffLimit, CallFails, Goto
  <2>2. cur \notin reopened => \A l \in Legs : l <= leg => OrdersOf(cur, l) = {}
    BY <2>1 DEF IInv, OnceHolds, NoOrder
  <2>3. ASSUME cur \notin reopened, NEW l \in Legs, l < leg
        PROVE  OrdersIn(orders', cur', l) = {}
    <3>1. l \in Int /\ leg \in Int
      BY <1>0, LegNumbers
    <3>2. l <= leg /\ l # leg
      BY <2>3, <3>1
    <3>3. \A i \in OrdersIn(orders', cur', l) : i \in OrdersOf(cur', l)
      BY <1>0, <3>2, OrdersOfStep
    <3>. QED BY <2>1, <2>2, <2>3, <3>2, <3>3
  <2>4. cur \notin reopened => rows[cur].status # "open"
    BY <2>1 DEF IInv, OnceHolds
  <2>5. ASSUME pc' = "limit", cur \notin reopened, NEW l \in Legs, l <= leg
        PROVE  OrdersIn(orders', cur', l) = {}
    BY <2>1, <2>2, <2>5 DEF OrdersOf, OrdersIn
  <2>. QED BY <2>1, <2>3, <2>4, <2>5 DEF Goal
<1>7. CASE SendExit
  BY <1>7, <1>q DEF SendExit, Others, Goto, Accept, CallFails, Fails
<1>8. CASE \/ SendExitRaises \/ EndExit \/ SaveStrategy \/ SaveRow
  BY <1>8, <1>q DEF SendExitRaises, Others, Goto, Rest, Accept, CallFails,
     Fails, EndExit, SaveStrategy, SaveRow
<1>9. CASE \/ NoEntry \/ Blocked \/ FindExisting \/ SetIn
  BY <1>9, <1>q DEF NoEntry, Others, Goto, Rest, Blocked, MayEnter,
     FindExisting, SetIn
<1>10. CASE \/ LockEntryGroup \/ Attempt \/ LockEntryLeg \/ PlaceEntryOrder
  BY <1>10, <1>q DEF LockEntryGroup, Others, Goto, Rest, Attempt,
     LockEntryLeg, NextEntryLeg, PlaceEntryOrder, Enter
<1>11. CASE \/ EntryOrderRaises \/ EntryAccepted \/ EntryRefused \/ QuoteLeg
  BY <1>11, <1>q DEF EntryOrderRaises, Others, Goto, Rest, Enter,
     EntryAccepted, MarkEntryLock, EntryRefused, NextEntryLeg, QuoteLeg
<1>12. CASE \/ SettleEntry \/ InsertRow \/ Crash \/ Restart
  BY <1>12, <1>q DEF SettleEntry, Others, Goto, Rest, InsertRow,
     FindBeforeInsert, InsertNewRow, Crash, Upset, Restart
<1>13. CASE Scan
  BY <1>13, <1>w DEF Scan, Refreshing, market, engine
<1>14. CASE RepairPosition
  BY <1>14, <1>w DEF RepairPosition, Refreshing, market, engine
<1>15. CASE WriteBack
  BY <1>15, <1>w DEF WriteBack, market, engine
<1>16. CASE \/ (\E i \in DOMAIN orders : Fill(i))
            \/ (\E i \in DOMAIN orders : Reject(i))
  <2>1. PICK i \in DOMAIN orders : Fill(i) \/ Reject(i)
    BY <1>16
  <2>2. pc' = pc /\ cur' = cur /\ leg' = leg
    BY <2>1 DEF Fill, Reject, engine
  <2>3. \A h, l : OrdersIn(orders', h, l) \subseteq OrdersOf(h, l)
    BY <1>0, <2>1, OrdersOfStep
  <2>. QED BY <1>u, <2>2, <2>3
<1>17. CASE \E i \in DOMAIN orders : ReadPostback(i)
  BY <1>17, <1>w DEF ReadPostback, market, engine
<1>18. CASE SavePostback
  BY <1>18, <1>w DEF SavePostback, market, engine
<1>19. CASE PostbackSettles
  BY <1>19, <1>w DEF PostbackSettles, market, engine
<1>20. CASE Retire
  BY <1>20, <1>w DEF Retire, Requesting, Upset, market, engine
<1>21. CASE ReadRequest
  BY <1>21, <1>w DEF ReadRequest, ReadToStart, ReadToReset, ReadToEdit,
     Requesting, Upset, market, engine
<1>22. CASE CommitRequest
  BY <1>22, <1>w DEF CommitRequest, CommitReset, ResetTo, Committing, CommitEdit, market, engine
<1>. QED BY <1>1, <1>2, <1>3, <1>4, <1>5, <1>6, <1>7, <1>8, <1>9, <1>10,
   <1>11, <1>12, <1>13, <1>14, <1>15, <1>16, <1>17, <1>18, <1>19, <1>20,
   <1>21, <1>22 DEF Next, Round, Exit, Entry, Refresher, Market, Postback

\* OnceHolds is kept.
LEMMA OnceHoldsStep ==
  ASSUME IInv, Next
  PROVE  OnceHolds'
<1>1. SUFFICES ASSUME Alice
               PROVE  OnceHolds'
  BY AccountStep DEF OnceHolds, Alice
<1>. QED BY <1>1, OnceRowsStep, OnceTodoStep, OnceLoopStep DEF OnceHolds,
   NoOrder, OrdersOf, OrdersIn

-----------------------------------------------------------------------------
(* One hedge at a time.                                                    *)

\* Rows still to visit were so before, or were just found open.
LEMMA TodoIs ==
  ASSUME TypeOK, LegInRange, Next
  PROVE  todo' \subseteq todo \/ (Find /\ todo' = Open)
<1>1. CASE \/ Dispatch \/ Snapshot \/ Look \/ Find \/ SetOut
  BY <1>1 DEF Dispatch, Others, Goto, Snapshot, Rest, Look, Find, SetOut,
     engine
<1>2. CASE \/ KeepRow \/ AllRowsSeen \/ LockExitLeg \/ PeekLock \/ SquareOff
           \/ CheckExitOrder \/ MarkFailed \/ EndAliceExit
  BY <1>2 DEF KeepRow, Others, Goto, AllRowsSeen, LockExitLeg, PeekLock,
     SquareOff, SquareOffPosition, SquareOffLimit, Accept, CallFails, Fails,
     CheckExitOrder, MarkFailed, EndAliceExit, engine
<1>3. CASE ExitRow
  <2>1. todo' = {} \/ todo' = todo \ {First(todo)}
    BY <1>3 DEF ExitRow
  <2>. QED BY <2>1
<1>4. CASE \/ SendExit \/ SendExitRaises \/ EndExit \/ SaveStrategy \/ SaveRow
  BY <1>4 DEF SendExit, Others, Goto, Accept, CallFails, Fails,
     SendExitRaises, Rest, EndExit, SaveStrategy, SaveRow, engine
<1>5. CASE \/ NoEntry \/ Blocked \/ FindExisting \/ SetIn \/ LockEntryGroup
           \/ Attempt \/ LockEntryLeg \/ PlaceEntryOrder
  BY <1>5 DEF NoEntry, Others, Goto, Rest, Blocked, MayEnter, FindExisting,
     SetIn, LockEntryGroup, Attempt, LockEntryLeg, NextEntryLeg,
     PlaceEntryOrder, Enter, engine
<1>6. CASE \/ EntryOrderRaises \/ EntryAccepted \/ EntryRefused \/ QuoteLeg
           \/ InsertRow \/ SettleEntry
  BY <1>6 DEF EntryOrderRaises, Others, Goto, Rest, Enter, EntryAccepted,
     MarkEntryLock, EntryRefused, NextEntryLeg, QuoteLeg, InsertRow,
     FindBeforeInsert, InsertNewRow, SettleEntry, engine
<1>7. CASE \/ Scan \/ RepairPosition \/ WriteBack
           \/ (\E i \in DOMAIN orders : Fill(i))
           \/ (\E i \in DOMAIN orders : Reject(i))
  BY <1>7 DEF Scan, Refreshing, RepairPosition, WriteBack, Fill, Reject,
     engine
<1>8. CASE \/ (\E i \in DOMAIN orders : ReadPostback(i)) \/ SavePostback
           \/ PostbackSettles \/ Retire \/ ReadRequest \/ CommitRequest \/ Crash
           \/ Restart
  BY <1>8 DEF ReadPostback, SavePostback, PostbackSettles, Retire, Requesting,
     Upset, ReadRequest, ReadToStart, ReadToReset, ReadToEdit, CommitRequest,
     CommitReset, ResetTo, Committing, CommitEdit, Crash, Restart, Others, Goto,
     engine
<1>. QED BY <1>1, <1>2, <1>3, <1>4, <1>5, <1>6, <1>7, <1>8 DEF Next, Round,
   Exit, Entry, Refresher, Market, Postback

\* A postback that read its row keeps it, or has just read it.
LEMMA PostbackIs ==
  ASSUME TypeOK, LegInRange, Next
  PROVE  pb'.at = "row" => pb' = pb \/ \E i \in DOMAIN orders : ReadPostback(i)
<1>1. CASE \/ Dispatch \/ Snapshot \/ Look \/ Find \/ SetOut
  BY <1>1 DEF Dispatch, Others, Goto, Snapshot, Rest, Look, Find, SetOut, web,
     NoPostback
<1>2. CASE \/ KeepRow \/ ExitRow \/ AllRowsSeen \/ LockExitLeg \/ PeekLock
           \/ SquareOff \/ CheckExitOrder \/ MarkFailed
  BY <1>2 DEF KeepRow, Others, Goto, ExitRow, AllRowsSeen, LockExitLeg,
     PeekLock, SquareOff, SquareOffPosition, SquareOffLimit, Accept, CallFails,
     Fails, CheckExitOrder, MarkFailed, web, NoPostback
<1>3. CASE \/ EndAliceExit \/ SendExit \/ SendExitRaises \/ EndExit
           \/ SaveStrategy \/ SaveRow
  BY <1>3 DEF EndAliceExit, Others, Goto, SendExit, Accept, CallFails, Fails,
     SendExitRaises, Rest, EndExit, SaveStrategy, SaveRow, web, NoPostback
<1>4. CASE \/ NoEntry \/ Blocked \/ FindExisting \/ SetIn \/ LockEntryGroup
           \/ Attempt \/ LockEntryLeg \/ PlaceEntryOrder
  BY <1>4 DEF NoEntry, Others, Goto, Rest, Blocked, MayEnter, FindExisting,
     SetIn, LockEntryGroup, Attempt, LockEntryLeg, NextEntryLeg,
     PlaceEntryOrder, Enter, web, NoPostback
<1>5. CASE \/ EntryOrderRaises \/ EntryAccepted \/ EntryRefused \/ QuoteLeg
           \/ InsertRow \/ SettleEntry
  BY <1>5 DEF EntryOrderRaises, Others, Goto, Rest, Enter, EntryAccepted,
     MarkEntryLock, EntryRefused, NextEntryLeg, QuoteLeg, InsertRow,
     FindBeforeInsert, InsertNewRow, SettleEntry, web, NoPostback
<1>6. CASE \/ Scan \/ RepairPosition \/ WriteBack
           \/ (\E i \in DOMAIN orders : Fill(i))
           \/ (\E i \in DOMAIN orders : Reject(i))
  BY <1>6 DEF Scan, Refreshing, RepairPosition, WriteBack, Fill, Reject, web,
     NoPostback
<1>7. CASE \/ (\E i \in DOMAIN orders : ReadPostback(i)) \/ PostbackSettles
           \/ Retire \/ ReadRequest \/ CommitRequest \/ Crash \/ Restart
  <2>1. CASE \/ Retire \/ ReadRequest \/ CommitRequest \/ Crash \/ Restart
    BY <2>1 DEF Retire, Requesting, ReadRequest, ReadToStart, ReadToReset,
       ReadToEdit, CommitRequest, CommitReset, CommitEdit, Committing, Crash,
       Restart, Others, web
  <2>2. CASE PostbackSettles
    BY <2>2 DEF PostbackSettles, NoPostback
  <2>. QED BY <1>7, <2>1, <2>2
<1>8. CASE SavePostback
  <2>1. pb \in [at : {"none", "row", "strategy"}, h : Hedges, row : Rows]
    BY DEF TypeOK
  <2>2. pb' = [pb EXCEPT !.at = "strategy"] \/ pb' = NoPostback
    BY <1>8 DEF SavePostback
  <2>. QED BY <2>1, <2>2 DEF NoPostback
<1>. QED BY <1>1, <1>2, <1>3, <1>4, <1>5, <1>6, <1>7, <1>8 DEF Next, Round,
   Exit, Entry, Refresher, Market, Postback

\* Flat hedges stay flat, and so do the legs that are not the one in hand.
LEMMA NoMoreHeld ==
  ASSUME IInv, Next
  PROVE  /\ pc # "buy" => \A h \in Hedges, l \in Legs : held'[h][l] > 0 => held[h][l] > 0
         /\ pc = "buy" => /\ account.live /\ leg \in Legs
                          /\ \A h \in Hedges, l \in Legs :
                                held'[h][l] > 0 => held[h][l] > 0 \/ (h = cur /\ l = leg)
         /\ held' = held \/ (\E i \in DOMAIN orders : Fill(i)) =>
               \A h \in Hedges, l \in Legs : held'[h][l] > 0 => held[h][l] > 0
<1>0. TypeOK /\ LegInRange
  BY DEF IInv
<1>1. \A h \in Hedges, l \in Legs : held[h][l] \in Int /\ held'[h][l] \in Int
  BY <1>0, HeldIs DEF TypeOK
<1>2. \A h \in Hedges, l \in Legs :
         \/ held'[h][l] <= held[h][l]
         \/ pc = "buy" /\ h = cur /\ l = leg
  BY <1>0, HeldIs
<1>3. \A h \in Hedges, l \in Legs :
         held'[h][l] > 0 => held[h][l] > 0 \/ (pc = "buy" /\ h = cur /\ l = leg)
  BY <1>1, <1>2
<1>4. pc = "buy" => account.live /\ leg \in Legs
  BY DEF IInv, EngineHolds, LegInRange
<1>5. ASSUME NEW i \in DOMAIN orders, Fill(i)
      PROVE  \A h \in Hedges, l \in Legs : held'[h][l] > 0 => held[h][l] > 0
  <2>. DEFINE g == orders[i].h
              k == orders[i].l
  <2>1. /\ held'[g][k] = held[g][k] - 1 /\ g \in Hedges /\ k \in Legs
        /\ \A h \in Hedges, l \in Legs : h # g \/ l # k => held'[h][l] = held[h][l]
    BY <1>0, <1>5, FillIs
  <2>. HIDE DEF g, k
  <2>2. \A h \in Hedges, l \in Legs : held'[h][l] = held[h][l] \/ held'[h][l] = held[h][l] - 1
    BY <2>1
  <2>. QED BY <1>1, <2>2
<1>. QED BY <1>3, <1>4, <1>5

\* OneRows is kept while no row is reopened.
LEMMA OneRowsStep ==
  ASSUME IInv, Next, reopened' = {}
  PROVE  /\ \A g, h \in Hedges : g # h => Flat(g)' \/ Flat(h)'
         /\ \A h \in Open' \cup todo' : Only(h)' /\ rows'[h].status = "open"
         /\ pb'.at = "row" => rows'[pb'.h].status # "open"
         /\ ~Alice => \A h \in Hedges : rows'[h].status = "none" => Flat(h)'
<1>0. /\ TypeOK /\ LegInRange /\ reopened = {} /\ cur \in Hedges /\ pb.h \in Hedges
      /\ held \in [Hedges -> [Legs -> Int]] /\ held' \in [Hedges -> [Legs -> Int]]
      /\ todo \subseteq Hedges /\ todo' \subseteq Hedges /\ Open' \subseteq Hedges
  <2>1. TypeOK /\ LegInRange
    BY DEF IInv
  <2>. QED BY <2>1, ReopenedStep, HeldIs, CurStep DEF TypeOK, Open
<1>1. /\ \A g, h \in Hedges : g # h => Flat(g) \/ Flat(h)
      /\ \A h \in Open \cup todo : Only(h) /\ rows[h].status = "open"
      /\ pb.at = "row" => rows[pb.h].status # "open"
      /\ Entering => Open = {} /\ (Alice \/ ~account.live)
      /\ pc \in {"lock_entry", "buy", "insert"} => Bought
      /\ ~Alice => \A h \in Hedges : rows[h].status = "none" => Flat(h)
  BY <1>0 DEF IInv, OneHolds, OneRows, OneLoop
<1>2. \A h \in Hedges : Flat(h) <=> \A l \in Legs : ~(held[h][l] > 0)
  BY <1>0 DEF Flat
<1>3. \A h \in Hedges : Flat(h)' <=> \A l \in Legs : ~(held'[h][l] > 0)
  BY <1>0 DEF Flat
<1>4. pc = "buy" => Entering
  BY DEF Entering
<1>5. \A g, h \in Hedges : g # h => Flat(g)' \/ Flat(h)'
  <2>1. CASE pc = "buy"
    <3>1. \A g \in Hedges, l \in Legs : held[g][l] > 0 => g = cur
      BY <1>1, <2>1 DEF Bought
    <3>2. \A g \in Hedges, l \in Legs : held'[g][l] > 0 => g = cur
      BY <2>1, <3>1, NoMoreHeld
    <3>. QED BY <1>3, <3>2
  <2>2. CASE pc # "buy"
    BY <1>1, <1>2, <1>3, <2>2, NoMoreHeld
  <2>. QED BY <2>1, <2>2
<1>6. \A h \in Open' : Only(h)'
  <2>1. SUFFICES ASSUME NEW h \in Open', NEW g \in Hedges, NEW l \in Legs, held'[g][l] > 0
                 PROVE  g = h /\ l \in rows'[h].legs
    BY DEF Only
  <2>2. h \in Hedges /\ rows'[h].status = "open"
    BY <2>1 DEF Open
  <2>3. CASE rows[h].status = "open"
    <3>1. h \in Open /\ pc # "buy"
      BY <1>1, <1>4, <2>2, <2>3 DEF Open
    <3>2. g = h /\ l \in rows[h].legs
      BY <1>1, <2>1, <3>1, NoMoreHeld DEF Only
    <3>. QED BY <2>2, <2>3, <3>2, KnownStep
  <2>4. CASE rows[h].status # "open"
    <3>1. InsertRow /\ h = cur /\ rows[h].status = "none"
      BY <2>2, <2>4, OpenStep
    <3>2. pc = "insert" /\ pc # "buy"
      BY <2>2, <2>4, <3>1, KnownStep
    <3>3. g = cur /\ l \in tally.legs
      BY <1>1, <2>1, <3>2, NoMoreHeld DEF Bought
    <3>4. rows'[cur].legs = tally.legs
      BY <2>2, <3>1, KnownStep, <2>4
    <3>. QED BY <3>1, <3>3, <3>4
  <2>. QED BY <2>3, <2>4
<1>7. \A h \in todo' : rows'[h].status = "open"
  <2>1. SUFFICES ASSUME NEW h \in todo'
                 PROVE  rows'[h].status = "open"
    OBVIOUS
  <2>2. CASE Find /\ h \in Open
    BY <2>2 DEF Find, market, Open
  <2>3. CASE h \in todo
    <3>1. rows[h].status = "open" /\ copies[h].status = "open" /\ h \in Hedges
      BY <1>0, <1>1, <2>3 DEF IInv, CopiesHold
    <3>2. ~LockExitLeg
      BY <2>3 DEF LockExitLeg, IInv, EngineHolds, Exiting
    <3>3. ~(h = pb.h /\ SavePostback)
      BY <1>1, <3>1 DEF SavePostback
    <3>. QED BY <3>1, <3>2, <3>3, LeaveStep
  <2>. QED BY <1>0, <2>1, <2>2, <2>3, TodoIs
<1>8. pb'.at = "row" => rows'[pb'.h].status # "open"
  <2>1. SUFFICES ASSUME pb'.at = "row"
                 PROVE  rows'[pb'.h].status # "open"
    OBVIOUS
  <2>2. CASE pb' = pb
    <3>1. rows[pb.h].status # "open" /\ rows[pb.h].status # "none"
      BY <1>1, <2>1, <2>2 DEF IInv, PostbackHolds
    <3>. QED BY <1>0, <2>2, <3>1, OpenStep
  <2>3. ASSUME NEW i \in DOMAIN orders, ReadPostback(i)
        PROVE  rows'[pb'.h].status # "open"
    <3>0. i > 0
      BY <1>0 DEF TypeOK
    <3>1. pb'.h \in Hedges /\ \E l \in Legs : rows[pb'.h].id[l] = i
      BY <1>0, <2>3, ReadPostbackIs
    <3>2. rows[pb'.h].status # "open"
      BY <3>0, <3>1 DEF IInv, RowsHold, Fresh
    <3>3. rows' = rows
      BY <2>3 DEF ReadPostback, market
    <3>. QED BY <3>2, <3>3
  <2>. QED BY <1>0, <2>1, <2>2, <2>3, PostbackIs
<1>9. ASSUME ~Alice, NEW h \in Hedges, rows'[h].status = "none"
      PROVE  Flat(h)'
  <2>1. rows[h].status = "none"
    BY <1>9, KnownStep
  <2>2. pc # "buy"
    BY <1>1, <1>4, <1>9, NoMoreHeld
  <2>. QED BY <1>1, <1>2, <1>3, <1>9, <2>1, <2>2, NoMoreHeld
<1>10. \A h \in Open' \cup todo' : Only(h)' /\ rows'[h].status = "open"
  BY <1>0, <1>6, <1>7 DEF Open
<1>. QED BY <1>5, <1>8, <1>9, <1>10

\* OneLoop is kept while no row is reopened.
LEMMA OneLoopStep ==
  ASSUME IInv, Next, reopened' = {}
  PROVE  OneLoop'
<1>. DEFINE OnlyNow(h) == \A g \in Hedges, l \in Legs : held'[g][l] > 0 => g = h /\ l \in rows'[h].legs
            FlatNow == \A g \in Hedges, l \in Legs : ~(held'[g][l] > 0)
            Goal ==
              /\ Exiting' \/ pc' \in {"send", "save_strategy", "save_row"} => OnlyNow(cur')
              /\ pc' \in {"snapshot", "look", "find"} => Open' # {}
              /\ pc' = "find" => mem'.position = "in"
              /\ account.live /\ ~Alice /\ pc' \in {"row", "send", "save_strategy", "save_row", "entry"} =>
                    mem'.position = "in"
              /\ pc' \in {"save_strategy", "save_row", "row", "entry"} /\ mem'.position = "out" => FlatNow
              /\ Entering' => Open' = {} /\ (Alice \/ ~account.live)
              /\ pc' \in {"group", "attempt"} => FlatNow
              /\ pc' \in {"lock_entry", "buy", "refuse_entry", "insert"} =>
                    \A g \in Hedges, l \in Legs : held'[g][l] > 0 => g = cur' /\ l \in tally'.legs
              /\ pc' \in {"mark_entry", "quote"} =>
                    \A g \in Hedges, l \in Legs : held'[g][l] > 0 => g = cur' /\ (l \in tally'.legs \/ l = leg')
<1>0. /\ TypeOK /\ LegInRange /\ reopened = {} /\ cur \in Hedges /\ todo \in SUBSET Hedges
      /\ held \in [Hedges -> [Legs -> Int]] /\ held' \in [Hedges -> [Legs -> Int]] /\ Open \subseteq Hedges
      /\ cur' \in Hedges
  <2>1. TypeOK /\ LegInRange
    BY DEF IInv
  <2>. QED BY <2>1, ReopenedStep, HeldIs, CurStep DEF TypeOK, Open
<1>a. SUFFICES Goal
  <2>1. account' = account
    BY AccountStep
  <2>2. FlatNow => AllFlat'
    BY <1>0 DEF AllFlat, Flat
  <2>3. ASSUME Goal
        PROVE  OneLoop'
    <3>1. /\ Exiting' \/ pc' \in {"send", "save_strategy", "save_row"} => Only(cur)'
          /\ pc' \in {"lock_entry", "buy", "refuse_entry", "insert"} => Bought'
          /\ pc' \in {"mark_entry", "quote"} => BoughtOrInHand'
      BY <2>3 DEF Only, Bought, BoughtOrInHand
    <3>. HIDE DEF OnlyNow, FlatNow
    <3>. QED BY <2>1, <2>2, <2>3, <3>1 DEF OneLoop, Alice
  <2>. QED BY <2>3
<1>s. mem \in Strategies
  BY <1>0 DEF TypeOK
<1>y. tally \in [sub : Nat, conf : Nat, bad : BOOLEAN, legs : SUBSET Legs]
  BY <1>0 DEF TypeOK
<1>i. OneRows /\ OneLoop
  BY <1>0 DEF IInv, OneHolds
<1>h. pc # "buy" => \A g \in Hedges, l \in Legs : held'[g][l] > 0 => held[g][l] > 0
  BY NoMoreHeld
<1>r. ASSUME NEW h \in Hedges, Only(h), rows[h].status # "none", pc # "buy"
      PROVE  OnlyNow(h)
  BY <1>h, <1>r, KnownStep DEF Only
<1>t. \A h \in todo : pc = "row" => OnlyNow(h)
  BY <1>0, <1>i, <1>r DEF OneRows
<1>o. Exiting \/ pc \in {"send", "save_strategy", "save_row"} => OnlyNow(cur)
  <2>1. Exiting \/ pc \in {"send", "save_strategy", "save_row"} =>
           rows[cur].status # "none" /\ pc # "buy"
    BY <1>0 DEF IInv, EngineHolds, CopiesHold, CopyOf, Exiting
  <2>. QED BY <1>0, <1>i, <1>r, <2>1 DEF OneLoop
<1>f. AllFlat /\ pc # "buy" => FlatNow
  BY <1>0, <1>h DEF AllFlat, Flat
<1>l. ~account.live => FlatNow
  BY <1>0, FlatLegs
<1>e. rows' = rows => Open' = Open
  BY DEF Open
<1>k. pc \in {"snapshot", "look", "find"} => Open' # {}
  <2>1. SUFFICES ASSUME pc \in {"snapshot", "look", "find"}, NEW h \in Open
                 PROVE  h \in Open'
    BY <1>i DEF OneLoop
  <2>2. h \in Hedges /\ rows[h].status = "open"
    BY <2>1 DEF Open
  <2>3. ~LockExitLeg /\ ~SaveRow
    BY <2>1 DEF LockExitLeg, SaveRow
  <2>4. ~(h = pb.h /\ SavePostback)
    BY <1>i, <2>2 DEF OneRows, SavePostback
  <2>5. rows'[h].status = "open"
    BY <2>2, <2>3, <2>4, LeaveStep
  <2>. QED BY <2>2, <2>5 DEF Open
<1>p. Open = {} /\ pc' # "settle" => Open' = {}
  <2>1. SUFFICES ASSUME Open = {}, pc' # "settle", NEW h \in Hedges, rows'[h].status = "open"
                 PROVE  FALSE
    BY DEF Open
  <2>2. rows[h].status # "open"
    BY <2>1 DEF Open
  <2>. QED BY <2>1, <2>2, OpenStep
<1>. HIDE DEF OnlyNow
<1>q. pc' \in {"idle", "settle", "down", "set_in", "set_out"} => Goal
  BY DEF Goal, Exiting, Entering
<1>u. ASSUME pc' = pc, mem' = mem, cur' = cur, leg' = leg, tally' = tally,
             \A g \in Hedges, l \in Legs : held'[g][l] > 0 => held[g][l] > 0
      PROVE  Goal
  <2>1. /\ Exiting' \/ pc' \in {"send", "save_strategy", "save_row"} => OnlyNow(cur')
        /\ pc' \in {"snapshot", "look", "find"} => Open' # {}
    BY <1>k, <1>o, <1>u DEF Exiting
  <2>2. /\ pc' = "find" => mem'.position = "in"
        /\ account.live /\ ~Alice /\ pc' \in {"row", "send", "save_strategy", "save_row", "entry"} =>
              mem'.position = "in"
    BY <1>i, <1>u DEF OneLoop
  <2>3. /\ pc' \in {"save_strategy", "save_row", "row", "entry"} /\ mem'.position = "out" => FlatNow
        /\ pc' \in {"group", "attempt"} => FlatNow
    <3>. HIDE DEF FlatNow
    <3>. QED BY <1>f, <1>i, <1>u DEF OneLoop
  <2>4. Entering' => Open' = {} /\ (Alice \/ ~account.live)
    BY <1>i, <1>p, <1>u DEF OneLoop, Entering
  <2>5. pc' \in {"lock_entry", "buy", "refuse_entry", "insert"} =>
           \A g \in Hedges, l \in Legs : held'[g][l] > 0 => g = cur' /\ l \in tally'.legs
    BY <1>i, <1>u DEF OneLoop, Bought
  <2>6. pc' \in {"mark_entry", "quote"} =>
           \A g \in Hedges, l \in Legs : held'[g][l] > 0 => g = cur' /\ (l \in tally'.legs \/ l = leg')
    BY <1>i, <1>u DEF OneLoop, BoughtOrInHand
  <2>. HIDE DEF FlatNow
  <2>. QED BY <2>1, <2>2, <2>3, <2>4, <2>5, <2>6 DEF Goal
<1>v. ASSUME pc' = pc, mem' = mem, cur' = cur, leg' = leg, tally' = tally, held' = held
      PROVE  Goal
  BY <1>u, <1>v
<1>. HIDE DEF FlatNow
<1>1. CASE \/ Dispatch \/ Snapshot
  <2>1. ((pc = "idle" /\ Open # {}) \/ pc = "snapshot") /\ rows' = rows /\ pc' \in {"snapshot", "look", "idle"}
    BY <1>1 DEF Dispatch, Snapshot, Goto, Rest, market
  <2>2. Open' # {}
    BY <1>i, <1>e, <2>1 DEF OneLoop
  <2>3. pc' # "find"
    BY <2>1
  <2>. QED BY <2>1, <2>2, <2>3 DEF Goal, Exiting, Entering
<1>2. CASE Look
  <2>1. pc = "look" /\ rows' = rows
    BY <1>2 DEF Look, market
  <2>2. Open # {} /\ Open' # {}
    BY <1>i, <1>e, <2>1 DEF OneLoop
  <2>3. pc' = "find" /\ mem' = [mem EXCEPT !.position = "in"]
    BY <1>2, <2>2 DEF Look, Goto
  <2>4. mem'.position = "in"
    BY <1>s, <2>3 DEF Strategies
  <2>. QED BY <2>2, <2>3, <2>4 DEF Goal, Exiting, Entering
<1>3. CASE Find
  <2>1. pc = "find" /\ pc' \in {"set_out", "row"} /\ mem' = mem
    BY <1>3 DEF Find, Goto
  <2>2. mem'.position = "in"
    BY <1>i, <2>1 DEF OneLoop
  <2>. QED BY <2>1, <2>2 DEF Goal, Exiting, Entering
<1>4. CASE SetOut
  BY <1>4, <1>q DEF SetOut, Others, Goto, Rest
<1>5. CASE KeepRow
  <2>1. pc = "row" /\ pc' = "save_row" /\ cur' = First(todo) /\ mem' = mem
    BY <1>5 DEF KeepRow, Goto
  <2>2. First(todo) \in todo
    BY <1>5, <1>0, FirstIn DEF KeepRow
  <2>3. OnlyNow(cur')
    BY <1>t, <2>1, <2>2
  <2>4. mem'.position = "out" => FlatNow
    BY <1>i, <1>f, <2>1 DEF OneLoop
  <2>. QED BY <1>i, <2>1, <2>3, <2>4 DEF OneLoop, Goal, Exiting, Entering
<1>6. CASE ExitRow
  <2>1. pc = "row" /\ cur' = First(todo)
        /\ \/ pc' = "lock" /\ Alice
           \/ pc' = "send" /\ mem' = [mem EXCEPT !.position = "in"]
    BY <1>6 DEF ExitRow, Goto, Alice
  <2>2. First(todo) \in todo
    BY <1>6, <1>0, FirstIn DEF ExitRow
  <2>3. OnlyNow(cur')
    BY <1>t, <2>1, <2>2
  <2>4. pc' = "send" => mem'.position = "in"
    BY <1>s, <2>1 DEF Strategies
  <2>. QED BY <2>1, <2>3, <2>4 DEF Goal, Exiting, Entering
<1>7. CASE AllRowsSeen
  <2>1. pc = "row" /\ pc' = "entry" /\ mem' = mem
    BY <1>7 DEF AllRowsSeen, Goto
  <2>2. mem'.position = "out" => FlatNow
    BY <1>i, <1>f, <2>1 DEF OneLoop
  <2>. QED BY <1>i, <2>1, <2>2 DEF OneLoop, Goal, Exiting, Entering
<1>8. CASE \/ LockExitLeg \/ PeekLock \/ SquareOff \/ CheckExitOrder
           \/ MarkFailed
  <2>1. Exiting /\ Exiting' /\ cur' = cur
    BY <1>8 DEF LockExitLeg, PeekLock, SquareOff, SquareOffPosition,
       SquareOffLimit, CheckExitOrder, MarkFailed, Exiting, Goto, CallFails
  <2>2. OnlyNow(cur')
    BY <1>o, <2>1
  <2>3. pc' \in {"lock", "peek", "square_off", "limit", "check", "mark_failed"}
    BY <2>1 DEF Exiting
  <2>. QED BY <2>2, <2>3 DEF Goal, Entering
<1>9. CASE EndAliceExit
  <2>1. Exiting /\ pc' = "save_strategy" /\ cur' = cur
    BY <1>9 DEF EndAliceExit, Exiting, Goto
  <2>2. Alice
    BY <2>1 DEF IInv, EngineHolds, Alice
  <2>3. OnlyNow(cur)
    BY <1>o, <2>1
  <2>4. mem'.position = "out" => copies'[cur].status = "close"
    <3>. DEFINE done == Confirmed /\ ~tally.bad
    <3>1. /\ mem' = [mem EXCEPT !.position = IF done THEN "out" ELSE "in",
                                !.status = StatusAfter(mem.status),
                                !.fire = IF done \/ (StatusAfter(mem.status) = "paused" /\ Submitted)
                                         THEN "cleared" ELSE mem.fire]
          /\ copies' = [copies EXCEPT ![cur].status =
                IF done THEN "close" ELSE IF tally.bad THEN "exit_failed" ELSE "exit_pending"]
      BY <1>9 DEF EndAliceExit
    <3>. HIDE DEF done
    <3>2. mem'.position = IF done THEN "out" ELSE "in"
      BY <1>s, <3>1 DEF Strategies
    <3>3. done => copies'[cur].status = "close"
      BY <1>0, <3>1 DEF TypeOK, Rows
    <3>. QED BY <3>2, <3>3
  <2>5. ASSUME copies'[cur].status = "close"
        PROVE  FlatNow
    <3>1. AllTraded(cur)' \/ ~account.live
      <4>1. copies'[cur'].status = "close" /\ cur' \in Hedges
        BY <1>0, <2>1, <2>5
      <4>. QED BY <2>1, <4>1, ClosingStep DEF AllTraded
    <3>2. CASE ~account.live
      BY <1>l, <3>2
    <3>3. CASE AllTraded(cur)'
      <4>1. \A l \in rows'[cur].legs : TradedIn(orders', cur, l)
        BY <2>1, <3>3 DEF AllTraded, Traded
      <4>2. SUFFICES ASSUME NEW g \in Hedges, NEW l \in Legs, held'[g][l] > 0
                     PROVE  FALSE
        BY DEF FlatNow
      <4>3. g = cur /\ l \in rows'[cur].legs
        BY <2>3, <4>2 DEF OnlyNow
      <4>4. held'[g][l] <= 0 /\ held'[g][l] \in Int
        BY <1>0, <4>1, <4>3, FlatLegs
      <4>. QED BY <4>2, <4>4
    <3>. QED BY <3>1, <3>2, <3>3
  <2>. QED BY <2>1, <2>2, <2>3, <2>4, <2>5 DEF Goal, Exiting, Entering
<1>10. CASE SendExit
  <2>1. pc = "send" /\ pc' = "send" /\ cur' = cur /\ mem' = mem
    BY <1>10 DEF SendExit
  <2>. QED BY <1>i, <1>o, <2>1 DEF OneLoop, Goal, Exiting, Entering
<1>11. CASE SendExitRaises
  BY <1>11, <1>q DEF SendExitRaises, Others, Goto, Rest, Accept, CallFails,
     Fails
<1>12. CASE EndExit
  <2>1. pc = "send" /\ pc' = "save_strategy" /\ cur' = cur
        /\ mem' = [mem EXCEPT !.position = IF account.live THEN "in" ELSE "out",
                              !.status = StatusAfter(mem.status)]
    BY <1>12 DEF EndExit, Goto
  <2>2. mem'.position = IF account.live THEN "in" ELSE "out"
    BY <1>s, <2>1 DEF Strategies
  <2>3. mem'.position = "out" => FlatNow
    BY <1>l, <2>2
  <2>. QED BY <1>o, <2>1, <2>2, <2>3 DEF Goal, Exiting, Entering
<1>13. CASE \/ SaveStrategy \/ SaveRow
  <2>1. pc \in {"save_strategy", "save_row"} /\ pc' \in {"save_row", "row"} /\ cur' = cur /\ mem' = mem
    BY <1>13 DEF SaveStrategy, SaveRow, Goto
  <2>2. mem'.position = "out" => FlatNow
    BY <1>i, <1>f, <2>1 DEF OneLoop
  <2>. QED BY <1>i, <1>o, <2>1, <2>2 DEF OneLoop, Goal, Exiting, Entering
<1>14. CASE NoEntry
  BY <1>14, <1>q DEF NoEntry, Others, Goto, Rest
<1>15. CASE Blocked
  BY <1>15, <1>q DEF Blocked, Others, Goto, Rest, MayEnter
<1>16. CASE FindExisting
  <2>1. pc = "entry" /\ mem.position = "out"
    BY <1>16 DEF FindExisting, MayEnter
  <2>2. (pc' = "set_in" \/ (pc' = "group" /\ Open = {})) /\ rows' = rows
    BY <1>16, FindExistingIs
  <2>3. FlatNow /\ (Alice \/ ~account.live)
    BY <1>i, <1>f, <2>1, AccountFacts, <1>0 DEF OneLoop
  <2>. QED BY <1>e, <2>2, <2>3 DEF Goal, Exiting, Entering
<1>17. CASE SetIn
  BY <1>17, <1>q DEF SetIn, Others, Goto, Rest
<1>18. CASE \/ LockEntryGroup \/ Attempt
  <2>1. /\ pc \in {"group", "attempt"} /\ rows' = rows
        /\ pc' = "idle" \/ (pc' \in {"attempt", "lock_entry"} /\ cur' = cur)
    BY <1>18 DEF LockEntryGroup, Attempt, Goto, Rest, market
  <2>2. FlatNow /\ Entering
    BY <1>i, <1>f, <2>1 DEF OneLoop, Entering
  <2>. QED BY <1>i, <1>e, <2>1, <2>2 DEF OneLoop, Goal, FlatNow, Exiting, Entering
<1>19. CASE LockEntryLeg
  <2>1. /\ pc = "lock_entry" /\ rows' = rows /\ pc' \in {"lock_entry", "buy"} /\ cur' = cur
        /\ tally' = tally \/ tally' = [tally EXCEPT !.sub = tally.sub + 1]
    BY <1>19 DEF LockEntryLeg, NextEntryLeg, Goto, market
  <2>2. tally'.legs = tally.legs
    BY <1>y, <2>1
  <2>3. Entering /\ Bought
    BY <1>i, <2>1 DEF OneLoop, Entering
  <2>. QED BY <1>i, <1>e, <1>h, <2>1, <2>2, <2>3 DEF OneLoop, Goal, Bought,
     BoughtOrInHand, Exiting, Entering
<1>20. CASE PlaceEntryOrder
  <2>1. /\ pc = "buy" /\ rows' = rows /\ cur' = cur /\ leg' = leg /\ tally' = tally
        /\ pc' = "mark_entry" \/ (pc' = "refuse_entry" /\ held' = held)
    BY <1>20 DEF PlaceEntryOrder, Goto
  <2>2. Entering /\ Bought
    BY <1>i, <2>1 DEF OneLoop, Entering
  <2>3. \A g \in Hedges, l \in Legs : held'[g][l] > 0 => g = cur /\ (l \in tally.legs \/ l = leg)
    BY <2>1, <2>2, NoMoreHeld DEF Bought
  <2>. QED BY <1>i, <1>e, <2>1, <2>2, <2>3 DEF OneLoop, Goal, Bought,
     BoughtOrInHand, Exiting, Entering
<1>21. CASE EntryOrderRaises
  <2>1. pc = "buy" /\ Entering
    BY <1>21 DEF EntryOrderRaises, Entering
  <2>2. Alice
    BY <1>0, <1>i, <2>1, NoMoreHeld, AccountFacts DEF OneLoop
  <2>3. pc' = "idle"
    BY <1>21, <2>2 DEF EntryOrderRaises, Alice, Rest, Goto
  <2>. QED BY <1>q, <2>3
<1>22. CASE EntryAccepted
  <2>1. pc = "mark_entry" /\ pc' = "quote" /\ rows' = rows /\ held' = held
        /\ cur' = cur /\ leg' = leg /\ tally' = tally
    BY <1>22 DEF EntryAccepted, Goto, market
  <2>2. Entering
    BY <2>1 DEF Entering
  <2>. QED BY <1>i, <1>e, <2>1, <2>2 DEF OneLoop, Goal, BoughtOrInHand, Exiting, Entering
<1>23. CASE EntryRefused
  <2>1. pc = "refuse_entry" /\ pc' = "lock_entry" /\ rows' = rows /\ held' = held
        /\ cur' = cur /\ tally' = [tally EXCEPT !.bad = TRUE]
    BY <1>23 DEF EntryRefused, NextEntryLeg, Goto, market
  <2>2. Entering /\ tally'.legs = tally.legs
    BY <1>y, <2>1 DEF Entering
  <2>. QED BY <1>i, <1>e, <2>1, <2>2 DEF OneLoop, Goal, Bought, BoughtOrInHand, Exiting, Entering
<1>24. CASE QuoteLeg
  <2>1. /\ pc = "quote" /\ rows' = rows /\ held' = held
        /\ \/ pc' = "idle"
           \/ /\ pc' = "lock_entry" /\ cur' = cur
              /\ tally' = [tally EXCEPT !.legs = tally.legs \cup {leg}]
    BY <1>24 DEF QuoteLeg, NextEntryLeg, Rest, Goto, market
  <2>2. Entering /\ (pc' = "idle" \/ tally'.legs = tally.legs \cup {leg})
    BY <1>y, <2>1 DEF Entering
  <2>. QED BY <1>i, <1>e, <2>1, <2>2 DEF OneLoop, Goal, BoughtOrInHand, Exiting, Entering
<1>25. CASE InsertRow
  <2>1. \/ pc' \in {"settle", "idle"}
        \/ /\ pc = "lock_entry" /\ pc' = "insert" /\ rows' = rows /\ held' = held
           /\ cur' = cur /\ tally' = tally
    BY <1>25 DEF InsertRow, FindBeforeInsert, InsertNewRow, Goto, Rest, market
  <2>2. CASE pc' \in {"settle", "idle"}
    BY <1>q, <2>2
  <2>. QED BY <1>i, <1>e, <2>1, <2>2 DEF OneLoop, Goal, Bought, Exiting, Entering
<1>26. CASE SettleEntry
  BY <1>26, <1>q DEF SettleEntry, Others, Goto, Rest
<1>27. CASE Scan
  BY <1>27, <1>v DEF Scan, Refreshing, market, engine
<1>28. CASE RepairPosition
  BY <1>28, <1>v DEF RepairPosition, Refreshing, market, engine
<1>29. CASE WriteBack
  BY <1>29, <1>v DEF WriteBack, market, engine
<1>30. CASE \E i \in DOMAIN orders : Fill(i)
  <2>1. PICK i \in DOMAIN orders : Fill(i)
    BY <1>30
  <2>2. pc' = pc /\ mem' = mem /\ cur' = cur /\ leg' = leg /\ tally' = tally /\ rows' = rows
    BY <2>1 DEF Fill, engine
  <2>3. \A g \in Hedges, l \in Legs : held'[g][l] > 0 => held[g][l] > 0
    BY <2>1, NoMoreHeld
  <2>. QED BY <1>u, <2>2, <2>3
<1>31. CASE \E i \in DOMAIN orders : Reject(i)
  BY <1>31, <1>v DEF Reject, market, engine
<1>32. CASE \E i \in DOMAIN orders : ReadPostback(i)
  BY <1>32, <1>v DEF ReadPostback, market, engine
<1>33. CASE SavePostback
  BY <1>33, <1>v DEF SavePostback, market, engine
<1>34. CASE PostbackSettles
  BY <1>34, <1>v DEF PostbackSettles, market, engine
<1>35. CASE Retire
  BY <1>35, <1>v DEF Retire, Requesting, Upset, market, engine
<1>36. CASE ReadRequest
  BY <1>36, <1>v DEF ReadRequest, ReadToStart, ReadToReset, ReadToEdit,
     Requesting, Upset, market, engine
<1>37. CASE CommitRequest
  BY <1>37, <1>v DEF CommitRequest, CommitReset, ResetTo, Committing, CommitEdit, market, engine
<1>38. CASE Crash
  BY <1>38, <1>q DEF Crash, Upset
<1>39. CASE Restart
  BY <1>39, <1>q DEF Restart, Others, Goto
<1>. QED BY <1>1, <1>2, <1>3, <1>4, <1>5, <1>6, <1>7, <1>8, <1>9, <1>10,
   <1>11, <1>12, <1>13, <1>14, <1>15, <1>16, <1>17, <1>18, <1>19, <1>20,
   <1>21, <1>22, <1>23, <1>24, <1>25, <1>26, <1>27, <1>28, <1>29, <1>30,
   <1>31, <1>32, <1>33, <1>34, <1>35, <1>36, <1>37, <1>38, <1>39 DEF Next,
   Round, Exit, Entry, Refresher, Market, Postback

\* OneHolds is kept.
LEMMA OneHoldsStep ==
  ASSUME IInv, Next
  PROVE  OneHolds'
<1>1. SUFFICES ASSUME reopened' = {}
               PROVE  OneRows' /\ OneLoop'
  BY DEF OneHolds
<1>2. account' = account
  BY AccountStep
<1>3. OneRows'
  BY <1>1, <1>2, OneRowsStep DEF OneRows, Alice
<1>. QED BY <1>1, <1>3, OneLoopStep

-----------------------------------------------------------------------------
(* The theorems.                                                           *)

\* The invariant holds at first.
LEMMA InitInv ==
  ASSUME Init
  PROVE  IInv
<1>. DEFINE first == [NoRow EXCEPT !.status = "open", !.legs = Legs]
<1>1. /\ pc = "idle" /\ rpc = "idle" /\ orders = <<>> /\ todo = {} /\ rtodo = {} /\ reopened = {}
      /\ copies = NoRows /\ rcopies = NoRows /\ pb = NoPostback
      /\ rows = [h \in Hedges |-> IF h = 1 THEN first ELSE NoRow]
      /\ held = [h \in Hedges |-> [l \in Legs |-> IF h = 1 /\ account.live THEN 1 ELSE 0]]
  BY DEF Init
<1>2. 1 \in Hedges /\ DOMAIN orders = {} /\ orders \in Seq(Orders) /\ Len(orders) = 0
  BY <1>1, HedgeFacts
<1>3. /\ NoRow \in Rows /\ NoRow.status = "none" /\ NoRow.legs = {}
      /\ \A l \in Legs : NoRow.exit[l] = "none" /\ NoRow.id[l] = 0 /\ NoRow.lock[l] = "none"
  BY HedgeFacts DEF NoRow, Rows, Absent, ExitStates, LockStates, Unresolved
<1>4. /\ first \in Rows /\ first.status = "open" /\ first.legs = Legs
      /\ \A l \in Legs : first.exit[l] = "none" /\ first.id[l] = 0 /\ first.lock[l] = "none"
  BY <1>3 DEF Rows, Unresolved
<1>. HIDE DEF first
<1>5. /\ rows \in [Hedges -> Rows]
      /\ \A h \in Hedges : rows[h] = IF h = 1 THEN first ELSE NoRow
  BY <1>1, <1>3, <1>4
<1>6. /\ copies \in [Hedges -> Rows] /\ rcopies \in [Hedges -> Rows]
      /\ \A h \in Hedges : copies[h] = NoRow /\ rcopies[h] = NoRow
  BY <1>1, <1>3 DEF NoRows
<1>7. /\ held \in [Hedges -> [Legs -> Int]]
      /\ \A h \in Hedges, l \in Legs : held[h][l] = IF h = 1 /\ account.live THEN 1 ELSE 0
  BY <1>1
<1>8. TypeOK
  <2>1. account \in Accounts /\ account.status \in {"opened", "paused", "closed"}
    BY HedgeAssumption DEF Init
  <2>2. strat \in Strategies
    <3>1. PICK known \in BOOLEAN :
            strat = [status |-> account.status, position |-> "in",
                     entry |-> IF known THEN "submitted" ELSE "none",
                     fire  |-> IF known THEN "attempted" ELSE "none",
                     locks |-> IF known /\ account.live
                               THEN [l \in Legs |-> "submitted"] ELSE Absent]
      BY DEF Init
    <3>2. (IF known /\ account.live THEN [l \in Legs |-> "submitted"] ELSE Absent)
             \in [Legs -> LockStates]
      BY DEF Absent, LockStates
    <3>. QED BY <2>1, <3>1, <3>2 DEF Strategies
  <2>3. mem \in Strategies
    BY DEF Init, NoStrategy, Strategies, Absent, LockStates
  <2>4. /\ failed = {} /\ upsets = 0 /\ leg = 0 /\ cur = 1 /\ tally = NoTally /\ req = NoRequest
    BY DEF Init
  <2>5. tally \in [sub : Nat, conf : Nat, bad : BOOLEAN, legs : SUBSET Legs]
    BY <2>4 DEF NoTally
  <2>6. pb \in [at : {"none", "row", "strategy"}, h : Hedges, row : Rows]
    BY <1>1, <1>2, <1>3 DEF NoPostback
  <2>7. req \in RequestsInHand
    BY <2>4 DEF NoRequest, RequestsInHand
  <2>8. leg \in 0 .. NLegs + 1 /\ upsets \in 0 .. MaxUpsets /\ Len(orders) <= MaxOrders
    BY <1>2, <2>4, HedgeAssumption
  <2>. QED BY <1>1, <1>2, <1>5, <1>6, <1>7, <2>1, <2>2, <2>3, <2>4, <2>5, <2>6, <2>7, <2>8
        DEF TypeOK, PCs
<1>9. LegInRange /\ ~Exiting /\ ~Entering
  BY <1>1 DEF LegInRange, Exiting, Entering
<1>10. \A h \in Hedges, r \in Rows :
          (\A l \in Legs : r.exit[l] = "none" /\ r.id[l] = 0 /\ r.lock[l] = "none") =>
             Matched(h, r) /\ Fresh(r)
  BY DEF Matched, MatchedIn, Fresh
<1>11. RowsHold
  <2>1. \A h \in Hedges : Matched(h, rows[h]) /\ Fresh(rows[h])
    BY <1>3, <1>4, <1>5, <1>10
  <2>. QED BY <1>2, <1>4, <1>5, <2>1 DEF RowsHold
<1>12. CopiesHold /\ RCopiesHold
  <2>1. \A h \in Hedges : Matched(h, NoRow) /\ Fresh(NoRow) /\ CopyOf(h, NoRow)
    BY <1>3, <1>10 DEF CopyOf
  <2>. QED BY <1>1, <1>6, <2>1 DEF CopiesHold, RCopiesHold
<1>13. PostbackHolds /\ pb.at = "none"
  BY <1>1 DEF PostbackHolds, NoPostback
<1>14. EngineHolds
  BY <1>1, <1>9 DEF EngineHolds
<1>15. \A h, l : ~Traded(h, l) /\ NoOrder(h, l)
  BY <1>2 DEF Traded, TradedIn, NoOrder, OrdersOf
<1>16. HeldHolds
  <2>1. /\ \A h \in Hedges, l \in Legs : held[h][l] <= 1
        /\ ~account.live => \A h \in Hedges, l \in Legs : held[h][l] <= 0
    BY <1>7
  <2>. QED BY <1>1, <1>15, <2>1 DEF HeldHolds
<1>17. CloseHolds
  <2>1. \A h \in Hedges : copies[h].status # "close" /\ rows[h].status # "close"
    BY <1>3, <1>4, <1>5, <1>6
  <2>. QED BY <1>9, <2>1 DEF CloseHolds
<1>18. SentHolds
  <2>1. \A h \in Hedges : rows[h].status \notin Exited
    BY <1>3, <1>4, <1>5 DEF Exited
  <2>. QED BY <1>1, <1>13, <2>1 DEF SentHolds
<1>19. OnceHolds
  BY <1>1, <1>15 DEF OnceHolds, NoOrder
<1>20. OneHolds
  <2>1. \A g \in Hedges, l \in Legs : held[g][l] > 0 => g = 1
    BY <1>7
  <2>2. \A h \in Hedges : h # 1 => Flat(h)
    BY <1>7 DEF Flat
  <2>3. \A h \in Open : h = 1 /\ rows[h].status = "open" /\ rows[h].legs = Legs
    <3>1. SUFFICES ASSUME NEW h \in Hedges, rows[h].status = "open"
                   PROVE  h = 1 /\ rows[h].legs = Legs
      BY DEF Open
    <3>2. rows[h] # NoRow
      BY <1>3, <3>1
    <3>3. h = 1 /\ rows[h] = first
      BY <1>5, <3>2
    <3>. QED BY <1>4, <3>3
  <2>4. \A h \in Open \cup todo : Only(h) /\ rows[h].status = "open"
    BY <1>1, <2>1, <2>3 DEF Only
  <2>5. \A h \in Hedges : rows[h].status = "none" => Flat(h)
    BY <1>4, <1>5, <2>2
  <2>6. OneRows
    BY <1>13, <2>2, <2>4, <2>5 DEF OneRows
  <2>7. OneLoop
    BY <1>1, <1>9 DEF OneLoop
  <2>. QED BY <2>6, <2>7 DEF OneHolds
<1>. QED BY <1>8, <1>9, <1>11, <1>12, <1>13, <1>14, <1>16, <1>17, <1>18, <1>19, <1>20 DEF IInv

\* Every step keeps the invariant.
LEMMA NextInv ==
  ASSUME IInv, [Next]_vars
  PROVE  IInv'
<1>1. CASE Next
  <2>1. TypeOK' /\ LegInRange'
    BY <1>1, TypeStep DEF IInv
  <2>2. /\ RowsHold' /\ CopiesHold' /\ RCopiesHold' /\ PostbackHolds' /\ EngineHolds'
    BY <1>1, RowsHoldStep, CopiesHoldStep, RCopiesHoldStep, PostbackHoldsStep, EngineHoldsStep
  <2>3. HeldHolds' /\ CloseHolds' /\ SentHolds' /\ OnceHolds' /\ OneHolds'
    BY <1>1, HeldHoldsStep, CloseHoldsStep, SentHoldsStep, OnceHoldsStep, OneHoldsStep
  <2>. QED BY <2>1, <2>2, <2>3 DEF IInv
<1>2. CASE UNCHANGED vars
  <2>0. /\ account' = account /\ strat' = strat /\ rows' = rows /\ held' = held /\ orders' = orders
        /\ failed' = failed /\ reopened' = reopened /\ pc' = pc /\ mem' = mem /\ copies' = copies
        /\ todo' = todo /\ cur' = cur /\ leg' = leg /\ tally' = tally /\ rpc' = rpc
        /\ rcopies' = rcopies /\ rtodo' = rtodo /\ pb' = pb /\ req' = req /\ upsets' = upsets
    BY <1>2 DEF vars, market, engine, refresher, web
  <2>1. TypeOK' /\ LegInRange'
    BY <2>0 DEF IInv, TypeOK, LegInRange
  <2>2. RowsHold' /\ CopiesHold' /\ RCopiesHold' /\ PostbackHolds' /\ EngineHolds'
    BY <2>0 DEF IInv, RowsHold, CopiesHold, RCopiesHold, PostbackHolds, EngineHolds, Matched,
                CopyOf, Exiting, Entering
  <2>3. HeldHolds' /\ CloseHolds' /\ SentHolds'
    BY <2>0 DEF IInv, HeldHolds, CloseHolds, SentHolds, Traded, AllTraded, Executed, Sent,
                LeftByRefusal, Exiting
  <2>4. OnceHolds'
    BY <2>0 DEF IInv, OnceHolds, Alice, OrdersOf, NoOrder
  <2>5. OneHolds'
    <3>1. Alice' = Alice /\ Open' = Open /\ AllFlat' = AllFlat /\ Bought' = Bought
          /\ BoughtOrInHand' = BoughtOrInHand /\ Exiting' = Exiting /\ Entering' = Entering
          /\ (\A h \in Hedges : Only(h)' = Only(h) /\ Flat(h)' = Flat(h))
      BY <2>0 DEF Alice, Open, AllFlat, Bought, BoughtOrInHand, Exiting, Entering, Only, Flat
    <3>2. OneRows' = OneRows
      BY <2>0, <3>1 DEF OneRows, IInv, TypeOK, Open
    <3>3. OneLoop' = OneLoop
      BY <2>0 DEF OneLoop, Alice, Open, AllFlat, Bought, BoughtOrInHand,
         Exiting, Entering, Only, Flat
    <3>. QED BY <2>0, <3>2, <3>3 DEF IInv, OneHolds
  <2>. QED BY <2>1, <2>2, <2>3, <2>4, <2>5 DEF IInv
<1>. QED BY <1>1, <1>2

\* The invariant holds in every reachable state.
THEOREM Invariant == Spec => []IInv
<1>1. Init => IInv
  BY InitInv
<1>2. IInv /\ [Next]_vars => IInv'
  BY NextInv
<1>. QED BY <1>1, <1>2, PTL DEF Spec

\* Every variable has its type, whatever requests, postbacks and deaths of the
\* worker come in between (_dataorderscript, dhan_postback).
THEOREM TypeCorrect == Spec => []TypeOK
<1>1. IInv => TypeOK
  BY DEF IInv
<1>. QED BY <1>1, Invariant, PTL

\* Through AliceBlue each leg of a row is sent one exit order, unless an old
\* copy reopened the row: the lock in the row outlives the death of the worker
\* (_lock_fractal_hedge_exit_leg).
THEOREM ExitOnceAlways == Spec => []ExitOnce
<1>1. IInv => ExitOnce
  BY DEF IInv, OnceHolds, Alice, ExitOnce
<1>. QED BY <1>1, Invariant, PTL

\* A closed row stands for a flat hedge, but for legs whose exit Dhan refused at
\* once: confirmed orders close an AliceBlue row, postbacks a Dhan one.
THEOREM ClosedIsFlatAlways == Spec => []ClosedIsFlat
<1>1. ASSUME IInv
      PROVE  ClosedIsFlat
  <2>1. SUFFICES ASSUME NEW h \in Hedges, rows[h].status = "close", NEW l \in rows[h].legs
                 PROVE  held[h][l] <= 0 \/ LeftByRefusal(h, l)
    BY DEF ClosedIsFlat
  <2>2. l \in Legs
    BY <1>1, <2>1 DEF IInv, TypeOK, Rows
  <2>3. ~account.live \/ Traded(h, l) \/ LeftByRefusal(h, l)
    BY <1>1, <2>1 DEF IInv, CloseHolds
  <2>. QED BY <1>1, <2>2, <2>3 DEF IInv, HeldHolds
<1>. QED BY <1>1, Invariant, PTL

\* No second hedge is entered while a leg of the first is held, as long as no
\* old copy reopened a row: the copy of the strategy goes out only over an exit
\* that was executed (_handle_aliceblue_fractal_hedge_exit).
THEOREM OneHedgeAlways == Spec => []OneHedge
<1>1. IInv => OneHedge
  BY DEF IInv, OneHolds, OneRows, OneHedge
<1>. QED BY <1>1, Invariant, PTL

\* The steps that may take away the mark of an entry.
LEMMA EntryStep ==
  ASSUME TypeOK, Next
  PROVE  \/ strat'.entry \in {strat.entry, "submitting"} \/ ~Up
         \/ EndAliceExit \/ SaveStrategy \/ SettleEntry \/ PostbackSettles \/ CommitRequest
<1>s. strat \in Strategies
  BY DEF TypeOK
<1>1. CASE \/ Dispatch \/ Snapshot \/ Look \/ Find
  BY <1>1 DEF Dispatch, Others, Goto, Snapshot, Rest, Look, Find, market
<1>2. CASE SetOut
  BY <1>2, <1>s DEF SetOut, Others, Goto, Rest, Strategies
<1>3. CASE \/ KeepRow \/ ExitRow \/ AllRowsSeen \/ LockExitLeg \/ PeekLock
           \/ SquareOff \/ CheckExitOrder \/ MarkFailed
  BY <1>3 DEF KeepRow, Others, Goto, ExitRow, AllRowsSeen, LockExitLeg,
     PeekLock, SquareOff, SquareOffPosition, SquareOffLimit, Accept, CallFails,
     Fails, CheckExitOrder, MarkFailed, market
<1>4. CASE \/ EndAliceExit \/ SaveStrategy
  BY <1>4
<1>5. CASE \/ SendExit \/ SendExitRaises \/ EndExit \/ SaveRow
  BY <1>5 DEF SendExit, Others, Goto, Accept, CallFails, Fails,
     SendExitRaises, Rest, EndExit, SaveRow, market
<1>6. CASE \/ NoEntry \/ FindExisting \/ PlaceEntryOrder \/ EntryOrderRaises
           \/ QuoteLeg \/ InsertRow
  BY <1>6 DEF NoEntry, Others, Goto, Rest, FindExisting, MayEnter,
     PlaceEntryOrder, Enter, EntryOrderRaises, QuoteLeg, NextEntryLeg,
     InsertRow, FindBeforeInsert, InsertNewRow, market
<1>7. CASE Blocked
  BY <1>7, <1>s DEF Blocked, Others, Goto, Rest, MayEnter, Strategies
<1>8. CASE SetIn
  BY <1>8, <1>s DEF SetIn, Others, Goto, Rest, Strategies
<1>9. CASE LockEntryGroup
  BY <1>9, <1>s DEF LockEntryGroup, Others, Goto, Rest, Strategies
<1>10. CASE Attempt
  BY <1>10, <1>s DEF Attempt, Others, Goto, Strategies
<1>11. CASE LockEntryLeg
  BY <1>11, <1>s DEF LockEntryLeg, Others, Goto, NextEntryLeg, Strategies
<1>12. CASE EntryAccepted
  BY <1>12, <1>s DEF EntryAccepted, Others, Goto, MarkEntryLock, Strategies
<1>13. CASE EntryRefused
  BY <1>13, <1>s DEF EntryRefused, Others, Goto, NextEntryLeg, MarkEntryLock,
     Strategies
<1>14. CASE SettleEntry
  BY <1>14
<1>15. CASE \/ Scan \/ WriteBack \/ (\E i \in DOMAIN orders : Fill(i))
            \/ (\E i \in DOMAIN orders : Reject(i))
  BY <1>15 DEF Scan, Refreshing, WriteBack, Fill, Reject, market
<1>16. CASE RepairPosition
  BY <1>16, <1>s DEF RepairPosition, Refreshing, Strategies
<1>17. CASE \/ (\E i \in DOMAIN orders : ReadPostback(i)) \/ SavePostback
            \/ ReadRequest \/ Crash
  BY <1>17 DEF ReadPostback, SavePostback, ReadRequest, ReadToStart,
     ReadToReset, ReadToEdit, Requesting, Upset, Crash, market
<1>18. CASE \/ PostbackSettles \/ CommitRequest
  BY <1>18
<1>19. CASE Retire
  BY <1>19, <1>s DEF Retire, Requesting, Upset, Strategies
<1>20. CASE Restart
  BY <1>20 DEF Restart
<1>. QED BY <1>1, <1>2, <1>3, <1>4, <1>5, <1>6, <1>7, <1>8, <1>9, <1>10,
   <1>11, <1>12, <1>13, <1>14, <1>15, <1>16, <1>17, <1>18, <1>19, <1>20 DEF
   Next, Round, Exit, Entry, Refresher, Market, Postback

\* The mark of an entry that bought contracts and left no row is kept: the steps
\* that clear it are the end of that entry and the three named exceptions
\* (_clear_fractal_fire_state, fractal_reset_update, dhan_postback).
THEOREM LostEntryKeptAlways == Spec => LostEntryKept
<1>1. ASSUME IInv, Next, reopened = {}, NEW h \in Hedges, Lost(h), EntryHolds, ~EntryHolds',
             pc # "settle", Up
      PROVE  (~req.active \/ req.failed) /\ req' # req
  <2>1. PICK l \in Legs : rows[h].status = "none" /\ held[h][l] > 0
    BY <1>1 DEF Lost
  <2>2. cur \in Hedges /\ (copies[cur].status # "none" => rows[cur].status # "none")
    BY <1>1 DEF IInv, TypeOK, CopiesHold, CopyOf
  <2>3. ~Only(cur) \/ rows[cur].status = "none"
    BY <2>1 DEF Only
  <2>4. ~EndAliceExit
    <3>1. Exiting => copies[cur].status = "exit_pending" /\ Only(cur)
      BY <1>1 DEF IInv, EngineHolds, OneHolds, OneLoop
    <3>2. EndAliceExit => Exiting
      BY DEF EndAliceExit, Exiting
    <3>. QED BY <2>2, <2>3, <3>1, <3>2
  <2>5. ~SaveStrategy
    <3>1. pc = "save_strategy" => copies[cur].status # "none" /\ Only(cur)
      BY <1>1 DEF IInv, EngineHolds, OneHolds, OneLoop
    <3>2. SaveStrategy => pc = "save_strategy"
      BY DEF SaveStrategy
    <3>. QED BY <2>2, <2>3, <3>1, <3>2
  <2>6. ~PostbackSettles
    <3>1. pb.at = "strategy" => ~Alice
      BY <1>1 DEF IInv, PostbackHolds, Alice
    <3>2. ~Alice => Flat(h)
      BY <1>1, <2>1 DEF IInv, OneHolds, OneRows
    <3>3. ~Flat(h)
      <4>1. held[h][l] \in Int
        BY <1>1 DEF IInv, TypeOK
      <4>. QED BY <2>1, <4>1 DEF Flat
    <3>. QED BY <3>1, <3>2, <3>3 DEF PostbackSettles
  <2>7. ~SettleEntry /\ strat'.entry \notin {strat.entry, "submitting"}
    BY <1>1 DEF SettleEntry, EntryHolds
  <2>s. strat \in Strategies
    BY <1>1 DEF IInv, TypeOK
  <2>n. strat'.entry # strat.entry
    BY <2>7
  <2>8. CommitReset
    <3>1. CommitRequest
      BY <1>1, <2>4, <2>5, <2>6, <2>7, EntryStep DEF IInv
    <3>2. CommitEdit => strat'.entry = strat.entry
      BY <2>s DEF CommitEdit, Strategies
    <3>. QED BY <2>n, <3>1, <3>2 DEF CommitRequest
  <2>9. req.kind # "none" /\ req' = NoRequest
    BY <2>8 DEF CommitReset, Committing
  <2>10. req' # req
    BY <2>9 DEF NoRequest
  <2>11. ASSUME req.active, ~req.failed
         PROVE  FALSE
    <3>1. strat' = strat \/ strat' = ResetTo(FALSE)
      BY <2>8, <2>11 DEF CommitReset
    <3>2. strat'.entry = strat.entry
      BY <2>s, <2>11, <3>1 DEF ResetTo, Strategies
    <3>. QED BY <2>n, <3>2
  <2>. QED BY <2>10, <2>11
<1>2. ASSUME IInv, [Next]_vars
      PROVE  [ /\ \E h \in Hedges : Lost(h)
               /\ EntryHolds /\ ~EntryHolds'
               => \/ pc = "settle"
                  \/ (~req.active \/ req.failed) /\ req' # req
                  \/ reopened # {}
                  \/ ~Up ]_vars
  BY <1>1, <1>2
<1>. QED BY <1>2, Invariant, PTL DEF Spec, LostEntryKept

=============================================================================
