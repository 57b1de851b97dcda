--------------------------- MODULE RuntimeProofs ---------------------------
(***************************************************************************)
(* Proofs about Runtime, for all commands, workloads, users, sessions and  *)
(* chains of providers.  The variables fall into the three parts of the    *)
(* modules Runtime is composed of; each invariant speaks of one part, is   *)
(* kept by the steps of that part, and by the others because they leave    *)
(* the part alone.                                                         *)
(***************************************************************************)
EXTENDS Runtime, TLAPS

\* The workload keeps its switches; its counts stay natural numbers.
LoadOK ==
  /\ Budgets \cup Switches \subseteq DOMAIN load
  /\ load.kinds \subseteq Kinds /\ load.users \subseteq Users
  /\ load.paused \cup load.holding \subseteq Users
  /\ \A b \in Budgets : load[b] \in Nat

LEMMA SpendLoad ==
  ASSUME LoadOK, NEW b \in Budgets, Spend(b)
  PROVE  LoadOK'
BY DEF LoadOK, Spend, Budgets, Switches, Users

----------------------------------------------------------------------------
(* The process, its commands and its row. *)

Busy2 == {"handle", "complete"}

\* Whoever is past the look has a command in hand.
Hand ==
  /\ loop \in {"mark", "handle", "complete"} => current \in Commands
  /\ \A p \in Peers : peer[p].at \in {"mark", "handle", "complete"} => peer[p].has \in Commands

\* What the main thread is about to report is what the engine is.
Told ==
  /\ EngineTold
  /\ main = "report" /\ reported = "running" => engine = "running"

\* A command that was not retaken has taken effect once at most, and a job stands
\* for each effect of an order.
RowsOnce ==
  \A c \in Commands :
    /\ command[c].state \in {"none", "pending"} => handled[c] = 0 /\ c \notin retaken
    /\ job[c] = (IF command[c].kind = "place_order" THEN handled[c] ELSE 0)
    /\ c \notin retaken => handled[c] <= 1
    /\ command[c].state = "completed" => handled[c] >= 1

\* What a command in hand has come to: at is where its holder is.
InHand(at, c) ==
  /\ at = "mark" => command[c].state # "none"
  /\ at \in Busy2 => command[c].state \notin {"none", "pending"}
  /\ at = "handle" /\ c \notin retaken => handled[c] = 0
  /\ at = "complete" => handled[c] >= 1

LoopOnce == InHand(loop, current)
PeersOnce == \A p \in Peers : InHand(peer[p].at, peer[p].has)

\* Two hold one command only if it was retaken.
TwoHold ==
  /\ \A p \in Peers :
       loop \in Busy2 /\ peer[p].at \in Busy2 /\ peer[p].has = current => current \in retaken
  /\ \A p, q \in Peers :
       p # q /\ peer[p].at \in Busy2 /\ peer[q].at \in Busy2 /\ peer[p].has = peer[q].has =>
         peer[p].has \in retaken

Once == RowsOnce /\ LoopOnce /\ PeersOnce /\ TwoHold

ControlInv == ControlTypeOK /\ Hand /\ Told /\ Once

LEMMA ControlUnchanged == ControlInv /\ UNCHANGED controlVars => ControlInv'
BY DEF ControlInv, ControlTypeOK, Hand, Told, Once, RowsOnce, InHand, LoopOnce, PeersOnce,
       TwoHold, EngineTold, controlVars

USE DEF Kinds, States, Engines, LoopAt, MainAt, Rows

LEMMA InitControl ==
  ASSUME ControlInit
  PROVE  ControlInv
<1>1. status \in [state : States, engine : Engines]
  BY DEF ControlInit
<1>2. command \in [Commands -> Rows] /\ job \in [Commands -> Nat] /\ handled \in [Commands -> Nat]
  BY DEF ControlInit
<1>3. main \in MainAt /\ engine \in Engines /\ reported \in Engines /\ loop \in LoopAt
  BY DEF ControlInit
<1>4. stopping \in BOOLEAN /\ quitting \in BOOLEAN /\ current \in Commands \cup {NoCommand}
  BY DEF ControlInit
<1>5. peer \in [Peers -> [at : LoopAt, has : Commands \cup {NoCommand}, stopping : BOOLEAN]]
  BY DEF ControlInit
<1>6. retaken \subseteq Commands
  BY DEF ControlInit
<1>7. loop \notin {"mark", "handle", "complete"} /\ \A p \in Peers : peer[p].at \in {"top", "none"}
  BY DEF ControlInit
<1>8. Hand /\ Told
  BY <1>7 DEF ControlInit, Hand, Told, EngineTold
<1>9. RowsOnce
  BY DEF ControlInit, RowsOnce
<1>10. LoopOnce /\ PeersOnce /\ TwoHold
  BY <1>7 DEF LoopOnce, PeersOnce, TwoHold, InHand, Busy2
<1> QED BY <1>1, <1>2, <1>3, <1>4, <1>5, <1>6, <1>8, <1>9, <1>10 DEF ControlInv, ControlTypeOK, Once

\* A command is created with nobody holding it.
LEMMA EnqueueControl ==
  ASSUME LoadOK, ControlInv, NEW c \in Commands, Enqueue(c)
  PROVE  ControlInv'
<1>1. /\ command \in [Commands -> Rows] /\ command[c].state = "none"
      /\ UNCHANGED <<status, job, handled, main, engine, reported, loop, current, stopping,
                     quitting, peer, retaken>>
  BY DEF Enqueue, ControlInv, ControlTypeOK
<1>2. PICK k \in Kinds : command' = [command EXCEPT ![c] = [kind |-> k, state |-> "pending"]]
  BY DEF Enqueue, LoadOK
<1>3. /\ command'[c] = [kind |-> k, state |-> "pending"]
      /\ \A d \in Commands \ {c} : command'[d] = command[d]
  BY <1>1, <1>2
<1>4. command' \in [Commands -> Rows]
  BY <1>1, <1>2
<1>5. ControlTypeOK' /\ Hand' /\ Told'
  BY <1>1, <1>4 DEF ControlInv, ControlTypeOK, Hand, Told, EngineTold
<1>6. handled[c] = 0 /\ c \notin retaken
  BY <1>1 DEF ControlInv, Once, RowsOnce
<1>7. RowsOnce'
  BY <1>1, <1>3, <1>6 DEF ControlInv, Once, RowsOnce
<1>8. /\ loop \in {"mark", "handle", "complete"} => current # c
      /\ \A p \in Peers : peer[p].at \in {"mark", "handle", "complete"} => peer[p].has # c
  BY <1>1 DEF ControlInv, Once, LoopOnce, PeersOnce, InHand, Busy2
<1>9. LoopOnce' /\ PeersOnce' /\ TwoHold'
  BY <1>1, <1>3, <1>8 DEF ControlInv, Hand, Once, LoopOnce, PeersOnce, TwoHold, InHand, Busy2
<1> QED BY <1>5, <1>7, <1>9 DEF ControlInv, Once

LEMMA MainControl ==
  ASSUME ControlInv, Launch \/ MainStep \/ EngineUp \/ EngineFails \/ Signal
  PROVE  ControlInv'
<1>1. ControlTypeOK' /\ Hand'
  <2> USE DEF ControlInv, ControlTypeOK, Hand, mainOnly, MainStep
  <2>1. status' \in [state : States, engine : Engines]
    BY DEF Launch, StartTrader, FirstHeartbeat, StartLoop, WaitReady, Report, EngineUp,
           EngineFails, Signal, Heartbeat, HeartbeatEngine
  <2>2. main' \in MainAt /\ engine' \in Engines /\ reported' \in Engines /\ loop' \in LoopAt
    BY DEF Launch, StartTrader, FirstHeartbeat, StartLoop, WaitReady, Report, EngineUp,
           EngineFails, Signal
  <2>3. stopping' \in BOOLEAN /\ quitting' \in BOOLEAN
    BY DEF Launch, StartTrader, FirstHeartbeat, StartLoop, WaitReady, Report, EngineUp,
           EngineFails, Signal
  <2>4. UNCHANGED <<command, job, handled, current, peer, retaken>> /\ Hand'
    BY DEF Launch, StartTrader, FirstHeartbeat, StartLoop, WaitReady, Report, EngineUp,
           EngineFails, Signal
  <2> QED BY <2>1, <2>2, <2>3, <2>4
<1>2. Told'
  BY DEF ControlInv, ControlTypeOK, Told, EngineTold, Launch, MainStep, StartTrader,
         FirstHeartbeat, StartLoop, WaitReady, Report, EngineUp, EngineFails, Signal, mainOnly,
         Heartbeat, HeartbeatEngine
<1>3. Once'
  <2>1. UNCHANGED <<command, job, handled, current, peer, retaken>> /\ loop' \in {loop, "hello"}
    BY DEF Launch, MainStep, StartTrader, FirstHeartbeat, StartLoop, WaitReady, Report, EngineUp,
           EngineFails, Signal, mainOnly
  <2> QED BY <2>1 DEF ControlInv, Once, RowsOnce, LoopOnce, PeersOnce, TwoHold, InHand, Busy2
<1> QED BY <1>1, <1>2, <1>3 DEF ControlInv

(***************************************************************************)
(* What the loops do to a command, each as a fact about the rows and about *)
(* whoever else has a command in hand.                                     *)
(***************************************************************************)

\* A command taken while pending is in nobody's hand.
LEMMA TakenRows ==
  ASSUME ControlInv, NEW c \in Commands, Takes(c), UNCHANGED <<job, handled, retaken>>
  PROVE  /\ command' \in [Commands -> Rows] /\ RowsOnce' /\ handled[c] = 0
         /\ command'[c].state = "processing"
         /\ loop \in Busy2 => current # c
         /\ \A p \in Peers : peer[p].at \in Busy2 => peer[p].has # c
         /\ \A d \in Commands : command'[d].state = "none" => command[d].state = "none"
         /\ \A d \in Commands : command'[d].state = "pending" => command[d].state = "pending"
<1>1. /\ command \in [Commands -> Rows] /\ command[c].state = "pending"
      /\ command' = [command EXCEPT ![c].state = "processing"]
  BY DEF Takes, SetState, ControlInv, ControlTypeOK
<1>2. /\ command'[c].state = "processing" /\ command'[c].kind = command[c].kind
      /\ \A d \in Commands \ {c} : command'[d] = command[d]
  BY <1>1
<1>3. command' \in [Commands -> Rows]
  BY <1>1
<1>4. handled[c] = 0 /\ c \notin retaken
  BY <1>1 DEF ControlInv, Once, RowsOnce
<1>5. RowsOnce'
  BY <1>2, <1>4 DEF ControlInv, Once, RowsOnce
<1>6. /\ loop \in Busy2 => current # c
      /\ \A p \in Peers : peer[p].at \in Busy2 => peer[p].has # c
  BY <1>1 DEF ControlInv, Once, LoopOnce, PeersOnce, InHand
<1> QED BY <1>1, <1>2, <1>3, <1>4, <1>5, <1>6

\* A command marked by its id is retaken, or was pending and in nobody's hand.
LEMMA MarkedRows ==
  ASSUME ControlInv, NEW c \in Commands, command[c].state # "none",
         SetState(c, "processing"), Retake(c), UNCHANGED <<job, handled>>
  PROVE  /\ command' \in [Commands -> Rows] /\ RowsOnce' /\ retaken' \subseteq Commands
         /\ retaken \subseteq retaken' /\ command'[c].state = "processing"
         /\ c \notin retaken' => handled[c] = 0
         /\ c \in retaken' \/ (loop \in Busy2 => current # c)
         /\ c \in retaken' \/ \A p \in Peers : peer[p].at \in Busy2 => peer[p].has # c
         /\ \A d \in Commands : command'[d].state = "none" => command[d].state = "none"
         /\ \A d \in Commands : command'[d].state = "pending" => command[d].state = "pending"
<1>1. /\ command \in [Commands -> Rows] /\ handled \in [Commands -> Nat]
      /\ command' = [command EXCEPT ![c].state = "processing"]
  BY DEF SetState, ControlInv, ControlTypeOK
<1>2. /\ command'[c].state = "processing" /\ command'[c].kind = command[c].kind
      /\ \A d \in Commands \ {c} : command'[d] = command[d]
  BY <1>1
<1>3. command' \in [Commands -> Rows]
  BY <1>1
<1>4. /\ retaken \subseteq retaken' /\ retaken' \subseteq retaken \cup {c}
      /\ c \notin retaken' => command[c].state = "pending"
  BY DEF Retake
<1>5. RowsOnce'
  BY <1>1, <1>2, <1>4 DEF ControlInv, Once, RowsOnce
<1>6. c \notin retaken' =>
        /\ loop \in Busy2 => current # c
        /\ \A p \in Peers : peer[p].at \in Busy2 => peer[p].has # c
  BY <1>4 DEF ControlInv, Once, LoopOnce, PeersOnce, InHand
<1>7. c \notin retaken' => handled[c] = 0
  BY <1>4 DEF ControlInv, Once, RowsOnce
<1>8. retaken' \subseteq Commands
  BY <1>4 DEF ControlInv, ControlTypeOK
<1> QED BY <1>1, <1>2, <1>3, <1>4, <1>5, <1>6, <1>7, <1>8

\* A command that takes effect: again only if it was retaken.
LEMMA EffectRows ==
  ASSUME ControlInv, NEW c \in Commands, command[c].state \notin {"none", "pending"},
         c \notin retaken => handled[c] = 0, TakesEffect(c), UNCHANGED <<command, retaken>>
  PROVE  /\ handled' \in [Commands -> Nat] /\ job' \in [Commands -> Nat] /\ RowsOnce'
         /\ handled'[c] >= 1
         /\ \A d \in Commands \ {c} : handled'[d] = handled[d]
<1>1. /\ handled \in [Commands -> Nat] /\ job \in [Commands -> Nat]
      /\ handled' = [handled EXCEPT ![c] = @ + 1]
      /\ job' = [job EXCEPT ![c] = IF command[c].kind = "place_order" THEN @ + 1 ELSE @]
  BY DEF TakesEffect, ControlInv, ControlTypeOK
<1>2. /\ handled' \in [Commands -> Nat] /\ handled'[c] = handled[c] + 1
      /\ \A d \in Commands \ {c} : handled'[d] = handled[d]
  BY <1>1
<1>3. /\ job' \in [Commands -> Nat] /\ \A d \in Commands \ {c} : job'[d] = job[d]
      /\ job'[c] = IF command[c].kind = "place_order" THEN job[c] + 1 ELSE job[c]
  BY <1>1
<1>4. RowsOnce'
  BY <1>1, <1>2, <1>3 DEF ControlInv, Once, RowsOnce
<1> QED BY <1>1, <1>2, <1>3, <1>4

\* A command reported has taken effect, or has failed.
LEMMA ReportedRows ==
  ASSUME ControlInv, NEW c \in Commands, NEW state \in {"completed", "failed"},
         command[c].state \notin {"none", "pending"},
         state = "completed" => handled[c] >= 1,
         SetState(c, state), UNCHANGED <<job, handled, retaken>>
  PROVE  /\ command' \in [Commands -> Rows] /\ RowsOnce'
         /\ \A d \in Commands : command'[d].state = "none" => command[d].state = "none"
         /\ \A d \in Commands : command'[d].state = "pending" => command[d].state = "pending"
<1>1. /\ command \in [Commands -> Rows]
      /\ command' = [command EXCEPT ![c].state = state]
  BY DEF SetState, ControlInv, ControlTypeOK
<1>2. /\ command'[c].state = state /\ command'[c].kind = command[c].kind
      /\ \A d \in Commands \ {c} : command'[d] = command[d]
  BY <1>1
<1>3. command' \in [Commands -> Rows]
  BY <1>1
<1>4. RowsOnce'
  BY <1>2 DEF ControlInv, Once, RowsOnce
<1> QED BY <1>1, <1>2, <1>3, <1>4

\* InHand after the step.
InHandNext(at, c) ==
  /\ at = "mark" => command'[c].state # "none"
  /\ at \in Busy2 => command'[c].state \notin {"none", "pending"}
  /\ at = "handle" /\ c \notin retaken' => handled'[c] = 0
  /\ at = "complete" => handled'[c] >= 1

\* Rows that only moved on keep what the others have in hand.
LEMMA KeptHand ==
  ASSUME NEW at, NEW c \in Commands, InHand(at, c), retaken \subseteq retaken',
         handled'[c] = handled[c],
         command'[c].state = "none" => command[c].state = "none",
         command'[c].state = "pending" => command[c].state = "pending"
  PROVE  InHandNext(at, c)
BY DEF InHand, InHandNext, Busy2

\* Somebody with nothing in hand has nothing to keep.
LEMMA EmptyHand ==
  ASSUME NEW at, NEW c, at \notin {"mark", "handle", "complete"}
  PROVE  InHandNext(at, c)
BY DEF InHandNext, Busy2

\* A step of the loop: rows, what the loop has then, and the peers as they were.
LEMMA LoopKeeps ==
  ASSUME ControlInv, UNCHANGED peer, RowsOnce', InHandNext(loop', current'),
         \A p \in Peers : peer[p].at \in {"mark", "handle", "complete"} =>
           InHandNext(peer[p].at, peer[p].has),
         retaken \subseteq retaken',
         \A p \in Peers : loop' \in Busy2 /\ peer[p].at \in Busy2 /\ peer[p].has = current' =>
           current' \in retaken'
  PROVE  Once'
<1>1. LoopOnce'
  BY DEF LoopOnce, InHand, InHandNext
<1>2. PeersOnce'
  BY EmptyHand DEF PeersOnce, InHand, InHandNext
<1>3. TwoHold'
  BY DEF ControlInv, Once, TwoHold
<1> QED BY <1>1, <1>2, <1>3 DEF Once

\* A step of the loop that leaves the commands alone.
LEMMA LoopQuiet ==
  ASSUME ControlInv, UNCHANGED <<command, job, handled, peer, retaken>>,
         \/ loop' \notin {"mark", "handle", "complete"}
         \/ loop' = "mark" /\ current' \in Commands /\ command[current'].state = "pending"
  PROVE  Once'
<1>1. RowsOnce'
  BY DEF ControlInv, Once, RowsOnce
<1>2. InHandNext(loop', current')
  BY DEF InHandNext, Busy2
<1>3. \A p \in Peers : peer[p].at \in {"mark", "handle", "complete"} =>
        InHandNext(peer[p].at, peer[p].has)
  BY KeptHand DEF ControlInv, Hand, Once, PeersOnce
<1> QED BY <1>1, <1>2, <1>3, LoopKeeps DEF Busy2

LEMMA LoopControl ==
  ASSUME ControlInv,
         Hello \/ NextPending \/ FindPending \/ MarkPending \/ Complete \/ HandleFails \/ Work
           \/ Maintenance \/ Beat \/ Bye \/ LoopDies
  PROVE  ControlInv'
<1>1. /\ UNCHANGED <<main, engine, reported, quitting, peer, job, handled, stopping>>
      /\ status' \in [state : States, engine : Engines] /\ status'.engine = status.engine
      /\ loop' \in LoopAt
  BY DEF ControlInv, ControlTypeOK, Hello, NextPending, FindPending, MarkPending, Complete,
         HandleFails, Work, Maintenance, Beat, Bye, LoopDies, loopOnly, Heartbeat
<1>2. Told'
  BY <1>1 DEF ControlInv, Told, EngineTold, Hello, NextPending, FindPending, MarkPending,
         Complete, HandleFails, Work, Maintenance, Beat, Bye, LoopDies
<1>3. SUFFICES /\ command' \in [Commands -> Rows] /\ retaken' \subseteq Commands
               /\ current' \in Commands \cup {NoCommand}
               /\ loop' \in {"mark", "handle", "complete"} => current' \in Commands
               /\ Once'
  BY <1>1, <1>2 DEF ControlInv, ControlTypeOK, Hand
<1>4. ASSUME UNCHANGED <<command, retaken>>, current' \in Commands \cup {NoCommand},
             \/ loop' \notin {"mark", "handle", "complete"}
             \/ loop' = "mark" /\ current' \in Commands /\ command[current'].state = "pending"
      PROVE  /\ command' \in [Commands -> Rows] /\ retaken' \subseteq Commands
             /\ current' \in Commands \cup {NoCommand}
             /\ loop' \in {"mark", "handle", "complete"} => current' \in Commands
             /\ Once'
  <2>1. Once'
    BY <1>1, <1>4, LoopQuiet
  <2> QED BY <1>4, <2>1 DEF ControlInv, ControlTypeOK
<1>5. CASE Hello \/ Work \/ Maintenance \/ Beat \/ Bye \/ LoopDies
  BY <1>4, <1>5 DEF ControlInv, ControlTypeOK, Hello, Work, Maintenance, Beat, Bye, LoopDies,
                    loopOnly
<1>6. CASE FindPending
  BY <1>4, <1>6 DEF ControlInv, ControlTypeOK, FindPending, loopOnly
<1>7. CASE NextPending
  <2>1. CASE loop' \in {"bye", "find"} /\ UNCHANGED <<command, current>>
    BY <1>4, <1>7, <2>1 DEF ControlInv, ControlTypeOK, NextPending, loopOnly
  <2>2. CASE \E c \in Commands : Takes(c) /\ current' = c /\ loop' = "handle"
    <3>1. PICK c \in Commands : Takes(c) /\ current' = c /\ loop' = "handle"
      BY <2>2
    <3>2. UNCHANGED <<job, handled, retaken>>
      BY <1>7 DEF NextPending, loopOnly
    <3>3. /\ command' \in [Commands -> Rows] /\ RowsOnce' /\ handled[c] = 0
          /\ command'[c].state = "processing"
          /\ \A p \in Peers : peer[p].at \in Busy2 => peer[p].has # c
          /\ \A d \in Commands : command'[d].state = "none" => command[d].state = "none"
          /\ \A d \in Commands : command'[d].state = "pending" => command[d].state = "pending"
      BY <3>1, <3>2, TakenRows
    <3>4. InHandNext(loop', current')
      BY <3>1, <3>2, <3>3 DEF InHandNext, Busy2
    <3>5. \A p \in Peers : peer[p].at \in {"mark", "handle", "complete"} =>
            InHandNext(peer[p].at, peer[p].has)
      BY <3>2, <3>3, KeptHand DEF ControlInv, Hand, Once, PeersOnce
    <3>6. Once'
      BY <1>1, <3>1, <3>2, <3>3, <3>4, <3>5, LoopKeeps
    <3> QED BY <3>1, <3>2, <3>3, <3>6 DEF ControlInv, ControlTypeOK
  <2> QED BY <1>7, <2>1, <2>2 DEF NextPending
<1>8. CASE MarkPending
  <2> DEFINE c == current
  <2>1. /\ loop = "mark" /\ loop' = "handle" /\ c \in Commands /\ current' = c
        /\ command[c].state # "none"
    BY <1>8 DEF MarkPending, ControlInv, Hand, Once, LoopOnce, InHand
  <2>2. SetState(c, "processing") /\ Retake(c) /\ UNCHANGED <<job, handled>>
    BY <1>8 DEF MarkPending
  <2> HIDE DEF c
  <2>3. /\ command' \in [Commands -> Rows] /\ RowsOnce' /\ retaken' \subseteq Commands
        /\ retaken \subseteq retaken' /\ command'[c].state = "processing"
        /\ c \notin retaken' => handled[c] = 0
        /\ c \in retaken' \/ \A p \in Peers : peer[p].at \in Busy2 => peer[p].has # c
        /\ \A d \in Commands : command'[d].state = "none" => command[d].state = "none"
        /\ \A d \in Commands : command'[d].state = "pending" => command[d].state = "pending"
    BY <2>1, <2>2, MarkedRows
  <2>4. InHandNext(loop', current')
    BY <2>1, <2>2, <2>3 DEF InHandNext, Busy2
  <2>5. \A p \in Peers : peer[p].at \in {"mark", "handle", "complete"} =>
          InHandNext(peer[p].at, peer[p].has)
    BY <2>2, <2>3, KeptHand DEF ControlInv, Hand, Once, PeersOnce
  <2>6. Once'
    BY <1>1, <2>1, <2>3, <2>4, <2>5, LoopKeeps
  <2> QED BY <2>1, <2>3, <2>6
<1>9. CASE Complete \/ HandleFails
  <2> DEFINE c == current
  <2>1. /\ loop \in Busy2 /\ loop' = "work" /\ c \in Commands /\ current' = NoCommand
        /\ command[c].state \notin {"none", "pending"}
    BY <1>9 DEF Complete, HandleFails, ControlInv, Hand, Once, LoopOnce, InHand, Busy2
  <2>2. PICK state \in {"completed", "failed"} :
          SetState(c, state) /\ (state = "completed" => loop = "complete")
    BY <1>9 DEF Complete, HandleFails
  <2>3. UNCHANGED <<job, handled, retaken>>
    BY <1>9 DEF Complete, HandleFails, loopOnly
  <2>4. state = "completed" => handled[c] >= 1
    BY <2>2 DEF ControlInv, Once, LoopOnce, InHand
  <2> HIDE DEF c
  <2>5. /\ command' \in [Commands -> Rows] /\ RowsOnce'
        /\ \A d \in Commands : command'[d].state = "none" => command[d].state = "none"
        /\ \A d \in Commands : command'[d].state = "pending" => command[d].state = "pending"
    BY <2>1, <2>2, <2>3, <2>4, ReportedRows
  <2>6. InHandNext(loop', current')
    BY <2>1, EmptyHand
  <2>7. \A p \in Peers : peer[p].at \in {"mark", "handle", "complete"} =>
          InHandNext(peer[p].at, peer[p].has)
    BY <2>3, <2>5, KeptHand DEF ControlInv, Hand, Once, PeersOnce
  <2>8. Once'
    BY <1>1, <2>1, <2>3, <2>5, <2>6, <2>7, LoopKeeps DEF Busy2
  <2> QED BY <2>1, <2>3, <2>5, <2>8 DEF ControlInv, ControlTypeOK
<1> QED BY <1>5, <1>6, <1>7, <1>8, <1>9

LEMMA HandleControl ==
  ASSUME ControlInv, HandleCommand
  PROVE  ControlInv'
<1> DEFINE c == current
<1>1. /\ loop = "handle" /\ loop' = "complete" /\ TakesEffect(c) /\ c \in Commands
      /\ UNCHANGED <<status, command, current, main, engine, reported, quitting, peer, retaken>>
      /\ stopping' = (stopping \/ command[c].kind = "stop")
      /\ command[c].state \notin {"none", "pending"}
      /\ c \notin retaken => handled[c] = 0
  BY DEF HandleCommand, loopOnly, ControlInv, Hand, Once, LoopOnce, InHand, Busy2
<1> HIDE DEF c
<1>2. /\ handled' \in [Commands -> Nat] /\ job' \in [Commands -> Nat] /\ RowsOnce'
      /\ handled'[c] >= 1 /\ \A d \in Commands \ {c} : handled'[d] = handled[d]
  BY <1>1, EffectRows
<1>3. /\ Hand' /\ Told'
      /\ stopping' \in BOOLEAN
  BY <1>1 DEF ControlInv, ControlTypeOK, Hand, Told, EngineTold
<1>4. ControlTypeOK'
  BY <1>1, <1>2, <1>3 DEF ControlInv, ControlTypeOK
<1>5. InHandNext(loop', current')
  BY <1>1, <1>2 DEF InHandNext, Busy2, c
<1>6. \A p \in Peers : peer[p].at \in Busy2 /\ peer[p].has = c => c \in retaken
  BY <1>1 DEF ControlInv, Once, TwoHold, Busy2, c
<1>7. ASSUME NEW p \in Peers, peer[p].at \in {"mark", "handle", "complete"}
      PROVE  InHandNext(peer[p].at, peer[p].has)
  <2>1. peer[p].has \in Commands /\ InHand(peer[p].at, peer[p].has)
    BY <1>7 DEF ControlInv, Hand, Once, PeersOnce
  <2>2. CASE peer[p].has # c
    BY <1>1, <1>2, <2>1, <2>2, KeptHand
  <2>3. CASE peer[p].has = c
    BY <1>1, <1>2, <1>6, <2>1, <2>3 DEF InHand, InHandNext, Busy2
  <2> QED BY <2>2, <2>3
<1>8. Once'
  BY <1>1, <1>2, <1>5, <1>6, <1>7, LoopKeeps DEF c
<1> QED BY <1>3, <1>4, <1>8 DEF ControlInv

LEMMA GoneControl ==
  ASSUME ControlInv, Gone
  PROVE  ControlInv'
<1>1. ControlTypeOK' /\ Hand' /\ Told'
  BY DEF ControlInv, ControlTypeOK, Hand, Told, EngineTold, Gone
<1>2. Once'
  BY LoopQuiet DEF Gone
<1> QED BY <1>1, <1>2 DEF ControlInv

\* A step of a peer: rows, what it has then, the loop and the others as they were.
LEMMA PeerKeeps ==
  ASSUME ControlInv, NEW p \in Peers, NEW r \in [at : LoopAt, has : Commands \cup {NoCommand}, stopping : BOOLEAN],
         peer' = [peer EXCEPT ![p] = r], peerOnly,
         status' \in [state : States, engine : Engines], status'.engine = status.engine,
         command' \in [Commands -> Rows], job' \in [Commands -> Nat],
         handled' \in [Commands -> Nat], retaken' \subseteq Commands, RowsOnce',
         r.at \in {"mark", "handle", "complete"} => r.has \in Commands,
         InHandNext(r.at, r.has), retaken \subseteq retaken',
         loop \in {"mark", "handle", "complete"} => InHandNext(loop, current),
         \A q \in Peers \ {p} : peer[q].at \in {"mark", "handle", "complete"} =>
           InHandNext(peer[q].at, peer[q].has),
         r.at \in Busy2 /\ loop \in Busy2 /\ current = r.has => r.has \in retaken',
         \A q \in Peers \ {p} : r.at \in Busy2 /\ peer[q].at \in Busy2 /\ peer[q].has = r.has =>
           r.has \in retaken'
  PROVE  ControlInv'
<1>1. /\ peer' \in [Peers -> [at : LoopAt, has : Commands \cup {NoCommand}, stopping : BOOLEAN]]
      /\ peer'[p] = r /\ \A q \in Peers \ {p} : peer'[q] = peer[q]
  BY DEF ControlInv, ControlTypeOK
<1>2. UNCHANGED <<main, engine, reported, loop, current, stopping, quitting>>
  BY DEF peerOnly
<1>3. ControlTypeOK'
  BY <1>1, <1>2 DEF ControlInv, ControlTypeOK
<1>4. Hand' /\ Told'
  BY <1>1, <1>2 DEF ControlInv, Hand, Told, EngineTold
<1>5. LoopOnce'
  BY <1>2, EmptyHand DEF LoopOnce, InHand, InHandNext
<1>6. ASSUME NEW q \in Peers PROVE InHandNext(peer'[q].at, peer'[q].has)
  BY <1>1, EmptyHand
<1>7. PeersOnce'
  BY <1>6 DEF PeersOnce, InHand, InHandNext
<1>8. TwoHold'
  BY <1>1, <1>2 DEF ControlInv, Once, TwoHold
<1> QED BY <1>3, <1>4, <1>5, <1>7, <1>8 DEF ControlInv, Once

\* A step of a peer that leaves the commands alone.
LEMMA PeerQuiet ==
  ASSUME ControlInv, NEW p \in Peers, NEW r \in [at : LoopAt, has : Commands \cup {NoCommand}, stopping : BOOLEAN],
         peer' = [peer EXCEPT ![p] = r], peerOnly, UNCHANGED <<command, job, handled, retaken>>,
         status' \in [state : States, engine : Engines], status'.engine = status.engine,
         \/ r.at \notin {"mark", "handle", "complete"}
         \/ r.at = "mark" /\ r.has \in Commands /\ command[r.has].state = "pending"
         \/ r.at = peer[p].at /\ r.has = peer[p].has
  PROVE  ControlInv'
<1>1. /\ command' \in [Commands -> Rows] /\ job' \in [Commands -> Nat]
      /\ handled' \in [Commands -> Nat] /\ retaken' \subseteq Commands
  BY DEF ControlInv, ControlTypeOK
<1>2. RowsOnce'
  BY DEF ControlInv, Once, RowsOnce
<1>3. loop \in {"mark", "handle", "complete"} => InHandNext(loop, current)
  BY KeptHand DEF ControlInv, Hand, Once, LoopOnce
<1>4. \A q \in Peers : peer[q].at \in {"mark", "handle", "complete"} =>
        peer[q].has \in Commands /\ InHandNext(peer[q].at, peer[q].has)
  BY KeptHand DEF ControlInv, Hand, Once, PeersOnce
<1>5. InHandNext(r.at, r.has) /\ (r.at \in {"mark", "handle", "complete"} => r.has \in Commands)
  <2>1. CASE r.at \notin {"mark", "handle", "complete"}
    BY <2>1, EmptyHand
  <2>2. CASE r.at = "mark" /\ r.has \in Commands /\ command[r.has].state = "pending"
    BY <2>2 DEF InHandNext, Busy2
  <2>3. CASE r.at = peer[p].at /\ r.has = peer[p].has
    BY <1>4, <2>3, EmptyHand
  <2> QED BY <2>1, <2>2, <2>3
<1>6. /\ r.at \in Busy2 /\ loop \in Busy2 /\ current = r.has => r.has \in retaken'
      /\ \A q \in Peers \ {p} : r.at \in Busy2 /\ peer[q].at \in Busy2 /\ peer[q].has = r.has =>
           r.has \in retaken'
  BY DEF ControlInv, Once, TwoHold, Busy2
<1> QED BY <1>1, <1>2, <1>3, <1>4, <1>5, <1>6, PeerKeeps

LEMMA PeerControl ==
  ASSUME ControlInv, NEW p \in Peers, PeerStep(p)
  PROVE  ControlInv'
<1> DEFINE PR == [at : LoopAt, has : Commands \cup {NoCommand}, stopping : BOOLEAN]
           x == peer[p]
           With(at, c) == [x EXCEPT !.at = at, !.has = c]
<1>1. /\ peer \in [Peers -> PR] /\ x \in PR /\ peerOnly
      /\ status' \in [state : States, engine : Engines] /\ status'.engine = status.engine
  BY DEF PeerStep, PeerLooks, PeerMarks, PeerHandles, PeerCompletes, PeerReports, PeerEnds,
         Heartbeat, ControlInv, ControlTypeOK
<1>2. \A at \in LoopAt, c \in Commands \cup {NoCommand} :
        Moves(p, at, c) => \E r \in PR : peer' = [peer EXCEPT ![p] = r] /\ r.at = at /\ r.has = c
  <2> TAKE at \in LoopAt, c \in Commands \cup {NoCommand}
  <2> DEFINE r == With(at, c)
  <2>1. r \in PR /\ r.at = at /\ r.has = c
    <3> HIDE DEF x
    <3> QED BY <1>1
  <2>2. Moves(p, at, c) => peer' = [peer EXCEPT ![p] = r]
    BY DEF Moves
  <2> HIDE DEF r
  <2> QED BY <2>1, <2>2
<1>3. /\ command \in [Commands -> Rows] /\ job \in [Commands -> Nat]
      /\ handled \in [Commands -> Nat] /\ retaken \subseteq Commands
      /\ x.at \in {"mark", "handle", "complete"} => x.has \in Commands
      /\ InHand(x.at, x.has)
  BY DEF ControlInv, ControlTypeOK, Hand, Once, PeersOnce
<1>4. ASSUME NEW at \in LoopAt, NEW c \in Commands \cup {NoCommand}, Moves(p, at, c),
             UNCHANGED <<command, job, handled, retaken>>,
             \/ at \notin {"mark", "handle", "complete"}
             \/ at = "mark" /\ c \in Commands /\ command[c].state = "pending"
      PROVE  ControlInv'
  <2>1. PICK r \in PR : peer' = [peer EXCEPT ![p] = r] /\ r.at = at /\ r.has = c
    BY <1>2, <1>4
  <2> HIDE DEF PR
  <2> QED BY <1>1, <1>4, <2>1, PeerQuiet DEF PR
\* A command in hand, the rows having moved on.
<1>5. ASSUME NEW r \in PR, peer' = [peer EXCEPT ![p] = r],
             command' \in [Commands -> Rows], UNCHANGED <<job, handled>>,
             retaken' \subseteq Commands, RowsOnce', retaken \subseteq retaken',
             \A d \in Commands : command'[d].state = "none" => command[d].state = "none",
             \A d \in Commands : command'[d].state = "pending" => command[d].state = "pending",
             \/ r.at = "work"
             \/ /\ r.at = "handle" /\ r.has \in Commands
                /\ command'[r.has].state = "processing"
                /\ r.has \notin retaken' => handled[r.has] = 0
                /\ r.has \in retaken' \/ (loop \in Busy2 => current # r.has)
                /\ r.has \in retaken' \/ \A q \in Peers : peer[q].at \in Busy2 => peer[q].has # r.has
      PROVE  ControlInv'
  <2>1. InHandNext(r.at, r.has) /\ (r.at \in {"mark", "handle", "complete"} => r.has \in Commands)
    BY <1>5, EmptyHand DEF InHandNext, Busy2
  <2>2. loop \in {"mark", "handle", "complete"} => InHandNext(loop, current)
    BY <1>5, KeptHand DEF ControlInv, Hand, Once, LoopOnce
  <2>3. \A q \in Peers : peer[q].at \in {"mark", "handle", "complete"} =>
          InHandNext(peer[q].at, peer[q].has)
    BY <1>5, KeptHand DEF ControlInv, Hand, Once, PeersOnce
  <2>4. /\ r.at \in Busy2 /\ loop \in Busy2 /\ current = r.has => r.has \in retaken'
        /\ \A q \in Peers \ {p} : r.at \in Busy2 /\ peer[q].at \in Busy2 /\ peer[q].has = r.has =>
             r.has \in retaken'
    BY <1>5 DEF Busy2
  <2>5. job' \in [Commands -> Nat] /\ handled' \in [Commands -> Nat]
    BY <1>3, <1>5
  <2> HIDE DEF x
  <2> QED BY <1>1, <1>5, <2>1, <2>2, <2>3, <2>4, <2>5, PeerKeeps
<1>6. CASE PeerLooks(p)
  <2>1. UNCHANGED <<job, handled, retaken>>
    BY <1>6 DEF PeerLooks
  <2>2. CASE UNCHANGED command /\ \E at \in {"bye", "find", "work"} : Moves(p, at, NoCommand)
    BY <1>4, <2>1, <2>2
  <2>3. CASE UNCHANGED command /\ \E c \in Commands :
               command[c].state = "pending" /\ Moves(p, "mark", c)
    BY <1>4, <2>1, <2>3
  <2>4. CASE \E c \in Commands : Takes(c) /\ Moves(p, "handle", c)
    <3>1. PICK c \in Commands : Takes(c) /\ Moves(p, "handle", c)
      BY <2>4
    <3>2. PICK r \in PR : peer' = [peer EXCEPT ![p] = r] /\ r.at = "handle" /\ r.has = c
      BY <1>2, <3>1
    <3>3. /\ command' \in [Commands -> Rows] /\ RowsOnce' /\ handled[c] = 0
          /\ command'[c].state = "processing"
          /\ loop \in Busy2 => current # c
          /\ \A q \in Peers : peer[q].at \in Busy2 => peer[q].has # c
          /\ \A d \in Commands : command'[d].state = "none" => command[d].state = "none"
          /\ \A d \in Commands : command'[d].state = "pending" => command[d].state = "pending"
      BY <2>1, <3>1, TakenRows
    <3> QED BY <1>3, <1>5, <2>1, <3>2, <3>3
  <2> QED BY <1>6, <2>2, <2>3, <2>4 DEF PeerLooks
<1>7. CASE PeerMarks(p)
  <2> DEFINE c == x.has
  <2>1. /\ x.at = "mark" /\ c \in Commands /\ command[c].state # "none" /\ Moves(p, "handle", c)
        /\ SetState(c, "processing") /\ Retake(c) /\ UNCHANGED <<job, handled>>
    BY <1>3, <1>7 DEF PeerMarks, InHand
  <2> HIDE DEF c, x
  <2>2. /\ command' \in [Commands -> Rows] /\ RowsOnce' /\ retaken' \subseteq Commands
        /\ retaken \subseteq retaken' /\ command'[c].state = "processing"
        /\ c \notin retaken' => handled[c] = 0
        /\ c \in retaken' \/ (loop \in Busy2 => current # c)
        /\ c \in retaken' \/ \A q \in Peers : peer[q].at \in Busy2 => peer[q].has # c
        /\ \A d \in Commands : command'[d].state = "none" => command[d].state = "none"
        /\ \A d \in Commands : command'[d].state = "pending" => command[d].state = "pending"
    BY <2>1, MarkedRows
  <2>3. PICK r \in PR : peer' = [peer EXCEPT ![p] = r] /\ r.at = "handle" /\ r.has = c
    BY <1>2, <2>1
  <2> QED BY <1>5, <2>1, <2>2, <2>3
<1>8. CASE PeerHandles(p)
  <2> DEFINE c == x.has
  <2>1. /\ x.at = "handle" /\ TakesEffect(c) /\ c \in Commands
        /\ UNCHANGED <<command, retaken>>
        /\ command[c].state \notin {"none", "pending"} /\ (c \notin retaken => handled[c] = 0)
    BY <1>3, <1>8 DEF PeerHandles, InHand, Busy2
  <2>2. PICK r \in PR : peer' = [peer EXCEPT ![p] = r] /\ r.at = "complete" /\ r.has = c
    <3>1. CASE peer' = [peer EXCEPT ![p] = [@ EXCEPT !.at = "complete", !.stopping = TRUE]]
      <4> DEFINE r == [x EXCEPT !.at = "complete", !.stopping = TRUE]
      <4>1. peer' = [peer EXCEPT ![p] = r]
        BY <3>1
      <4>2. r \in PR /\ r.at = "complete" /\ r.has = c
        <5> HIDE DEF x
        <5> QED BY <1>1 DEF c
      <4> HIDE DEF r
      <4> QED BY <4>1, <4>2
    <3>2. CASE Moves(p, "complete", c)
      BY <1>2, <2>1, <3>2
    <3> QED BY <1>8, <3>1, <3>2 DEF PeerHandles
  <2>3. /\ handled' \in [Commands -> Nat] /\ job' \in [Commands -> Nat] /\ RowsOnce'
        /\ handled'[c] >= 1 /\ \A d \in Commands \ {c} : handled'[d] = handled[d]
    <3> HIDE DEF c
    <3> QED BY <2>1, EffectRows
  <2>4. /\ loop \in Busy2 /\ current = c => c \in retaken
        /\ \A q \in Peers \ {p} : peer[q].at \in Busy2 /\ peer[q].has = c => c \in retaken
    BY <2>1 DEF ControlInv, Once, TwoHold, Busy2
  <2>5. InHandNext(r.at, r.has)
    BY <2>1, <2>2, <2>3 DEF InHandNext, Busy2
  <2>6. ASSUME NEW at, NEW d \in Commands, InHand(at, d), at \in Busy2 /\ d = c => c \in retaken
        PROVE  InHandNext(at, d)
    <3>1. CASE d # c
      BY <2>1, <2>3, <2>6, <3>1, KeptHand
    <3>2. CASE d = c
      BY <2>1, <2>3, <2>6, <3>2 DEF InHand, InHandNext, Busy2
    <3> QED BY <3>1, <3>2
  <2>7. loop \in {"mark", "handle", "complete"} => InHandNext(loop, current)
    BY <2>4, <2>6 DEF ControlInv, Hand, Once, LoopOnce
  <2>8. \A q \in Peers \ {p} : peer[q].at \in {"mark", "handle", "complete"} =>
          InHandNext(peer[q].at, peer[q].has)
    BY <2>4, <2>6 DEF ControlInv, Hand, Once, PeersOnce
  <2>9. retaken' \subseteq Commands /\ command' \in [Commands -> Rows]
    BY <1>3, <2>1
  <2> HIDE DEF x, PR, c
  <2> QED BY <1>1, <2>1, <2>2, <2>3, <2>4, <2>5, <2>7, <2>8, <2>9, PeerKeeps DEF PR
<1>9. CASE PeerCompletes(p)
  <2> DEFINE c == x.has
  <2>1. /\ x.at \in Busy2 /\ c \in Commands /\ Moves(p, "work", NoCommand)
        /\ command[c].state \notin {"none", "pending"} /\ UNCHANGED <<job, handled, retaken>>
    BY <1>3, <1>9 DEF PeerCompletes, InHand, Busy2
  <2>2. PICK state \in {"completed", "failed"} :
          SetState(c, state) /\ (state = "completed" => x.at = "complete")
    BY <1>9 DEF PeerCompletes
  <2>3. state = "completed" => handled[c] >= 1
    BY <1>3, <2>2 DEF InHand
  <2> HIDE DEF c, x
  <2>4. /\ command' \in [Commands -> Rows] /\ RowsOnce'
        /\ \A d \in Commands : command'[d].state = "none" => command[d].state = "none"
        /\ \A d \in Commands : command'[d].state = "pending" => command[d].state = "pending"
    BY <2>1, <2>2, <2>3, ReportedRows
  <2>5. PICK r \in PR : peer' = [peer EXCEPT ![p] = r] /\ r.at = "work"
    BY <1>2, <2>1
  <2> QED BY <1>3, <1>5, <2>1, <2>4, <2>5
<1>10. CASE PeerReports(p)
  BY <1>4, <1>10 DEF PeerReports
<1>11. CASE PeerEnds(p)
  <2>1. UNCHANGED <<command, job, handled, retaken>>
    BY <1>11 DEF PeerEnds
  <2>2. CASE peer' = [peer EXCEPT ![p].stopping = TRUE]
    <3> DEFINE r == [x EXCEPT !.stopping = TRUE]
    <3>1. peer' = [peer EXCEPT ![p] = r]
      BY <2>2
    <3>2. r \in PR /\ r.at = x.at /\ r.has = x.has
      <4> HIDE DEF x
      <4> QED BY <1>1
    <3> HIDE DEF r, PR
    <3> QED BY <1>1, <2>1, <3>1, <3>2, PeerQuiet DEF PR
  <2>3. CASE Moves(p, "dead", NoCommand)
    BY <1>4, <2>1, <2>3
  <2> QED BY <1>11, <2>2, <2>3 DEF PeerEnds
<1> QED BY <1>6, <1>7, <1>8, <1>9, <1>10, <1>11 DEF PeerStep

----------------------------------------------------------------------------
(* The logins. *)

\* What a thread is about to save or to trade with has been checked, and so has
\* what the engine trades with, for whoever is listed or may be again.
Held ==
  /\ \A u \in AliceUsers \cap listed : client[u] \in checked[u]
  /\ \A t \in Threads : \A u \in AliceUsers \cap login[t].copy : client[u] \in checked[u]
  /\ \A t \in Threads : login[t].ok => login[t].pc = "update"
  /\ \A t \in Threads :
       t[1] \in AliceUsers /\ (login[t].pc = "save" \/ login[t].ok) =>
         login[t].session \in checked[t[1]]

LoginInv == LoginTypeOK /\ Held

LEMMA LoginUnchanged == LoginInv /\ UNCHANGED loginVars => LoginInv'
BY DEF LoginInv, LoginTypeOK, Held, loginVars

LEMMA ThreadUser == \A t \in Threads : t[1] \in Users
BY DEF Threads, Retried, Users

LEMMA NewSession == LoginTypeOK => \A u \in Users : Newest(u) \in Sessions \ {0}
BY LoginAssumption DEF LoginTypeOK, Newest, Sessions

USE DEF LoginAt, Codes

LEMMA InitLogin ==
  ASSUME LoadOK, LoginInit
  PROVE  LoginInv
<1>1. good \in [Users -> SUBSET (Sessions \ {0})] /\ checked \in [Users -> SUBSET Sessions]
  BY DEF LoginInit
<1>2. api \in [Users -> [session : Sessions, token : {"none", "connected", "reconnect"}]]
  BY LoginAssumption DEF LoginInit, Sessions
<1>3. issued \in [Users -> Sessions] /\ client \in [Users -> Sessions]
  BY <1>2, LoginAssumption DEF LoginInit, Sessions
<1>4. code \in [Users -> Codes] /\ health \in [Users -> {"not_tested", "connected", "rejected"}]
  BY DEF LoginInit
<1>5. opened \subseteq Users /\ listed \subseteq Users /\ relog \subseteq AliceUsers
  BY DEF LoginInit, LoadOK
<1>6. login \in [Threads -> Attempts]
  <2>1. NoLogin \in Attempts
    BY LoginAssumption DEF NoLogin, Attempts, Sessions
  <2>2. \A pc \in LoginAt : [NoLogin EXCEPT !.pc = pc] \in Attempts
    BY <2>1 DEF Attempts
  <2>3. Started \in [Threads -> Attempts]
    BY <2>2 DEF Started
  <2> QED BY <2>1, <2>3 DEF LoginInit
<1>7. /\ markpc \in [Users -> {"idle", "api", "health"}]
      /\ callback \in [Users -> [pc : {"idle", "api", "refuse", "health", "rejected"},
                                  session : Sessions]]
      /\ adapter \in [Users -> [pc : {"idle", "ask", "again", "save", "token", "health", "rejected"},
                                 session : Sessions, code : Codes]]
  BY LoginAssumption DEF LoginInit, Idle, NoAdapter, Sessions
<1>8. Held
  BY DEF LoginInit, Held, Started, NoLogin
<1> QED BY <1>1, <1>2, <1>3, <1>4, <1>5, <1>6, <1>7, <1>8 DEF LoginInv, LoginTypeOK

\* What a step of the thread t may do for Held to survive it: a is where it leaves
\* the thread.
LEMMA ThreadHeld ==
  ASSUME LoginInv, NEW t \in Threads, NEW a \in Attempts,
         login' = [login EXCEPT ![t] = a],
         UNCHANGED client, \A u \in Users : checked[u] \subseteq checked'[u],
         listed' \subseteq listed \cup login[t].copy,
         a.copy \subseteq listed \cup login[t].copy,
         a.ok => a.pc = "update",
         t[1] \in AliceUsers /\ (a.pc = "save" \/ a.ok) => a.session \in checked'[t[1]]
  PROVE  login' \in [Threads -> Attempts] /\ Held'
<1>0. /\ login' \in [Threads -> Attempts] /\ login'[t] = a
      /\ \A s \in Threads \ {t} : login'[s] = login[s]
  BY DEF LoginInv, LoginTypeOK
<1>1. \A u \in AliceUsers \cap (listed \cup login[t].copy) : client[u] \in checked'[u]
  BY DEF LoginInv, Held, Users
<1>2. \A u \in AliceUsers \cap listed' : client'[u] \in checked'[u]
  BY <1>1
<1>3. \A s \in Threads : \A u \in AliceUsers \cap login'[s].copy : client'[u] \in checked'[u]
  BY <1>0, <1>1 DEF LoginInv, Held, Users
<1>4. \A s \in Threads : login'[s].ok => login'[s].pc = "update"
  BY <1>0 DEF LoginInv, Held
<1>5. \A s \in Threads :
        s[1] \in AliceUsers /\ (login'[s].pc = "save" \/ login'[s].ok) =>
          login'[s].session \in checked'[s[1]]
  BY <1>0, ThreadUser DEF LoginInv, Held
<1> QED BY <1>0, <1>2, <1>3, <1>4, <1>5 DEF Held

\* A thread that goes on, with what it has.
LEMMA GoesTo ==
  ASSUME login \in [Threads -> Attempts], NEW t \in Threads, NEW pc \in LoginAt, Goes(t, pc)
  PROVE  \E a \in Attempts :
           /\ login' = [login EXCEPT ![t] = a]
           /\ a.pc = pc /\ a.copy = login[t].copy /\ a.ok = login[t].ok
           /\ a.session = login[t].session
<1> DEFINE l == login[t]
           a == [l EXCEPT !.pc = pc]
<1>1. l \in Attempts /\ login' = [login EXCEPT ![t] = a]
  BY DEF Goes
<1> HIDE DEF l
<1>2. a \in Attempts /\ a.pc = pc /\ a.copy = l.copy /\ a.ok = l.ok /\ a.session = l.session
  BY <1>1 DEF Attempts
<1> QED BY <1>1, <1>2 DEF l

\* The steps that read, and write nothing but the thread.
LEMMA LookMoves ==
  ASSUME LoginInv, NEW t \in Threads,
         FindNotLogged(t) \/ CopyList(t) \/ Pick(t) \/ Sleep(t) \/ Reread(t)
  PROVE  \E a \in Attempts :
           /\ login' = [login EXCEPT ![t] = a]
           /\ a.copy \in {login[t].copy, listed} /\ ~a.ok /\ a.pc # "save"
<1> DEFINE l == login[t]
<1>1. /\ login \in [Threads -> Attempts] /\ l \in Attempts /\ listed \subseteq Users
      /\ api[t[1]].session \in Sessions /\ code[t[1]] \in Codes
  BY ThreadUser DEF LoginInv, LoginTypeOK
<1>2. ~l.ok
  BY DEF LoginInv, Held, FindNotLogged, CopyList, Pick, Sleep, Reread
<1>3. CASE FindNotLogged(t)
  <2> DEFINE a == IF quitting THEN [l EXCEPT !.pc = "done"]
                  ELSE [l EXCEPT !.pc = "copy", !.free = t[1] \notin listed]
  <2>1. login' = [login EXCEPT ![t] = a]
    BY <1>3 DEF FindNotLogged, Goes
  <2> HIDE DEF l
  <2>2. a \in Attempts /\ a.copy = l.copy /\ ~a.ok /\ a.pc # "save"
    BY <1>1, <1>2 DEF Attempts
  <2> QED BY <2>1, <2>2 DEF l
<1>4. CASE CopyList(t)
  <2> DEFINE a == [l EXCEPT !.pc = "assign", !.copy = listed]
  <2>1. login' = [login EXCEPT ![t] = a]
    BY <1>4 DEF CopyList
  <2> HIDE DEF l
  <2>2. a \in Attempts /\ a.copy = listed /\ ~a.ok /\ a.pc # "save"
    BY <1>1, <1>2 DEF Attempts
  <2> QED BY <2>1, <2>2 DEF l
<1>5. CASE Pick(t)
  <2> DEFINE pc == IF t[1] \in Needed THEN "ask" ELSE IF t[2] = "first" THEN "done" ELSE "sleep"
             a == [l EXCEPT !.pc = pc, !.session = api[t[1]].session, !.code = code[t[1]]]
  <2>1. login' = [login EXCEPT ![t] = a]
    BY <1>5 DEF Pick
  <2>2. pc \in LoginAt /\ pc # "save"
    OBVIOUS
  <2> HIDE DEF l, pc
  <2>3. a \in Attempts /\ a.copy = l.copy /\ ~a.ok /\ a.pc # "save"
    BY <1>1, <1>2, <2>2 DEF Attempts
  <2> QED BY <2>1, <2>3 DEF l
<1>6. CASE Sleep(t)
  <2>1. Goes(t, "find")
    BY <1>6 DEF Sleep
  <2> QED BY <1>1, <1>2, <2>1, GoesTo
<1>7. CASE Reread(t)
  <2> DEFINE a == [l EXCEPT !.pc = "ask", !.session = api[t[1]].session,
                            !.code = code[t[1]], !.last = TRUE]
  <2>1. login' = [login EXCEPT ![t] = a]
    BY <1>7 DEF Reread
  <2> HIDE DEF l
  <2>2. a \in Attempts /\ a.copy = l.copy /\ ~a.ok /\ a.pc # "save"
    BY <1>1, <1>2 DEF Attempts
  <2> QED BY <2>1, <2>2 DEF l
<1> QED BY <1>3, <1>4, <1>5, <1>6, <1>7

LEMMA LookLogin ==
  ASSUME LoginInv, NEW t \in Threads,
         FindNotLogged(t) \/ CopyList(t) \/ Pick(t) \/ Sleep(t) \/ Reread(t)
  PROVE  LoginInv'
<1>1. UNCHANGED <<good, issued, code, api, health, opened, listed, client, markpc,
                  callback, relog, adapter, checked>>
  BY DEF FindNotLogged, CopyList, Pick, Sleep, Reread, loginMemory, loginRows
<1>2. PICK a \in Attempts :
        /\ login' = [login EXCEPT ![t] = a]
        /\ a.copy \in {login[t].copy, listed} /\ ~a.ok /\ a.pc # "save"
  BY LookMoves
<1>3. login' \in [Threads -> Attempts] /\ Held'
  BY <1>1, <1>2, ThreadHeld
<1> QED BY <1>1, <1>3 DEF LoginInv, LoginTypeOK

LEMMA AssignLogin ==
  ASSUME LoginInv, NEW t \in Threads, AssignList(t)
  PROVE  LoginInv'
<1> DEFINE l == login[t]
           pc == IF l.free THEN "pick" ELSE "sleep"
           a == [l EXCEPT !.pc = pc, !.copy = {}]
<1>1. login \in [Threads -> Attempts] /\ l \in Attempts /\ l.copy \subseteq Users
  BY DEF LoginInv, LoginTypeOK, Attempts
<1>2. login' = [login EXCEPT ![t] = a] /\ listed' = l.copy /\ l.pc = "assign"
  BY DEF AssignList
<1>3. ~l.ok
  BY <1>2 DEF LoginInv, Held
<1>4. UNCHANGED <<good, issued, code, api, health, opened, client, markpc,
                  callback, relog, adapter, checked>>
  BY DEF AssignList, loginRows, loginOnly
<1>5. pc \in LoginAt /\ pc # "save"
  OBVIOUS
<1>6. a \in Attempts /\ a.copy = {} /\ ~a.ok /\ a.pc # "save"
  <2> HIDE DEF l, pc
  <2> QED BY <1>1, <1>3, <1>5 DEF Attempts
<1>7. login' \in [Threads -> Attempts] /\ Held'
  <2> HIDE DEF a
  <2> QED BY <1>2, <1>4, <1>6, ThreadHeld
<1> QED BY <1>1, <1>2, <1>4, <1>7 DEF LoginInv, LoginTypeOK

LEMMA Issued ==
  ASSUME LoginTypeOK, NEW u \in Users, Issue(u)
  PROVE  /\ good' \in [Users -> SUBSET (Sessions \ {0})]
         /\ issued' \in [Users -> Sessions]
         /\ checked' \in [Users -> SUBSET Sessions]
         /\ \A v \in Users : checked[v] \subseteq checked'[v]
         /\ Newest(u) \in checked'[u] \cap Sessions
<1> DEFINE n == Newest(u)
<1>1. n \in Sessions \ {0}
  BY NewSession
<1>2. /\ issued' = [issued EXCEPT ![u] = n]
      /\ good' = [good EXCEPT ![u] = @ \cup {n}]
      /\ checked' = [checked EXCEPT ![u] = @ \cup {n}]
  BY DEF Issue
<1> HIDE DEF n
<1>3. good' \in [Users -> SUBSET (Sessions \ {0})] /\ issued' \in [Users -> Sessions]
  BY <1>1, <1>2 DEF LoginTypeOK
<1>4. checked' \in [Users -> SUBSET Sessions] /\ n \in checked'[u]
  BY <1>1, <1>2 DEF LoginTypeOK
<1>5. \A v \in Users : checked[v] \subseteq checked'[v]
  BY <1>2 DEF LoginTypeOK
<1> QED BY <1>1, <1>3, <1>4, <1>5 DEF n

\* A step of a thread that issues a session or leaves the sessions alone, and
\* goes on or takes the new one.
LEMMA AskLogin ==
  ASSUME LoginInv, NEW t \in Threads, Ask(t) \/ Refresh(t)
  PROVE  LoginInv'
<1> DEFINE u == t[1]
<1>1. /\ login \in [Threads -> Attempts] /\ login[t] \in Attempts /\ u \in Users
      /\ login[t].pc # "update"
  BY ThreadUser DEF LoginInv, LoginTypeOK, Ask, Refresh
<1>2. ~login[t].ok
  BY <1>1 DEF LoginInv, Held
<1>3. UNCHANGED <<code, api, health, opened, listed, client, markpc, callback, relog, adapter>>
  BY DEF Ask, Refresh, loginMemory
<1>4. CASE Issue(u) /\ \E pc \in {"save", "saveapi"} :
             login' = [login EXCEPT ![t] = [@ EXCEPT !.pc = pc, !.session = Newest(u)]]
  <2>1. PICK a \in Attempts :
          /\ login' = [login EXCEPT ![t] = a]
          /\ a.copy = login[t].copy /\ a.ok = login[t].ok /\ a.session = Newest(u)
    <3> DEFINE n == Newest(u)
    <3>1. n \in Sessions
      BY <1>1, NewSession DEF LoginInv
    <3>2. PICK pc \in {"save", "saveapi"} :
            login' = [login EXCEPT ![t] = [@ EXCEPT !.pc = pc, !.session = n]]
      BY <1>4
    <3> DEFINE l == login[t]
               a == [l EXCEPT !.pc = pc, !.session = n]
    <3>3. login' = [login EXCEPT ![t] = a] /\ l \in Attempts
      BY <1>1, <3>2
    <3> HIDE DEF n, l
    <3>4. a \in Attempts /\ a.copy = l.copy /\ a.ok = l.ok /\ a.session = n
      BY <3>1, <3>2, <3>3 DEF Attempts
    <3> QED BY <3>3, <3>4 DEF n, l
  <2>2. /\ good' \in [Users -> SUBSET (Sessions \ {0})] /\ issued' \in [Users -> Sessions]
        /\ checked' \in [Users -> SUBSET Sessions]
        /\ \A v \in Users : checked[v] \subseteq checked'[v]
        /\ Newest(u) \in checked'[u]
    BY <1>1, <1>4, Issued DEF LoginInv
  <2>3. login' \in [Threads -> Attempts] /\ Held'
    BY <1>2, <1>3, <2>1, <2>2, ThreadHeld
  <2> QED BY <1>3, <2>2, <2>3 DEF LoginInv, LoginTypeOK
<1>5. CASE /\ UNCHANGED <<good, issued, checked>>
           /\ \E pc \in LoginAt \ {"save"} : Goes(t, pc)
  <2>1. PICK a \in Attempts :
          /\ login' = [login EXCEPT ![t] = a]
          /\ a.copy = login[t].copy /\ a.ok = login[t].ok /\ a.pc # "save"
    BY <1>1, <1>5, GoesTo
  <2>2. login' \in [Threads -> Attempts] /\ Held'
    BY <1>2, <1>3, <1>5, <2>1, ThreadHeld
  <2> QED BY <1>3, <1>5, <2>2 DEF LoginInv, LoginTypeOK
<1>6. CASE /\ UNCHANGED <<good, issued>> /\ Goes(t, "save")
           /\ login[t].session \in good[u]
           /\ checked' = [checked EXCEPT ![u] = @ \cup {login[t].session}]
  <2>1. PICK a \in Attempts :
          /\ login' = [login EXCEPT ![t] = a]
          /\ a.copy = login[t].copy /\ a.ok = login[t].ok /\ a.session = login[t].session
    BY <1>1, <1>6, GoesTo
  <2> DEFINE s == login[t].session
  <2>2. s \in Sessions
    BY <1>1 DEF Attempts
  <2>3. /\ checked' \in [Users -> SUBSET Sessions] /\ s \in checked'[u]
        /\ \A v \in Users : checked[v] \subseteq checked'[v]
    <3> HIDE DEF s
    <3>1. checked' = [checked EXCEPT ![u] = @ \cup {s}]
      BY <1>6 DEF s
    <3> QED BY <1>1, <2>2, <3>1 DEF LoginInv, LoginTypeOK
  <2>4. login' \in [Threads -> Attempts] /\ Held'
    BY <1>2, <1>3, <2>1, <2>3, ThreadHeld
  <2> QED BY <1>3, <1>6, <2>3, <2>4 DEF LoginInv, LoginTypeOK
<1>7. Ask(t) => \/ /\ Issue(u)
                   /\ login' = [login EXCEPT ![t] = [@ EXCEPT !.pc = "save", !.session = Newest(u)]]
                \/ UNCHANGED <<good, issued, checked>> /\ \E pc \in LoginAt \ {"save"} : Goes(t, pc)
                \/ /\ UNCHANGED <<good, issued>> /\ Goes(t, "save")
                   /\ login[t].session \in good[u]
                   /\ checked' = [checked EXCEPT ![u] = @ \cup {login[t].session}]
  BY DEF Ask
<1>8. Refresh(t) =>
        \/ /\ Issue(u)
           /\ login' = [login EXCEPT ![t] = [@ EXCEPT !.pc = "saveapi", !.session = Newest(u)]]
        \/ UNCHANGED <<good, issued, checked>> /\ \E pc \in LoginAt \ {"save"} : Goes(t, pc)
  BY DEF Refresh
<1> QED BY <1>4, <1>5, <1>6, <1>7, <1>8

LEMMA SaveLoginInv ==
  ASSUME LoginInv, NEW t \in Threads, SaveLogin(t)
  PROVE  LoginInv'
<1> DEFINE l == login[t]
           a == [l EXCEPT !.pc = "update", !.ok = TRUE]
<1>1. login \in [Threads -> Attempts] /\ l \in Attempts /\ t[1] \in Users
  BY ThreadUser DEF LoginInv, LoginTypeOK
<1>2. login' = [login EXCEPT ![t] = a] /\ l.pc = "save"
  BY DEF SaveLogin
<1>3. UNCHANGED <<good, issued, code, health, opened, listed, client, markpc,
                  callback, relog, adapter, checked>>
  BY DEF SaveLogin, loginMemory
<1>4. t[1] \in AliceUsers => l.session \in checked[t[1]]
  BY <1>2 DEF LoginInv, Held
<1>5. /\ a \in Attempts /\ a.copy = l.copy /\ a.session = l.session /\ a.pc = "update"
      /\ l.session \in Sessions
  <2> HIDE DEF l
  <2> QED BY <1>1 DEF Attempts
<1>6. login' \in [Threads -> Attempts] /\ Held'
  <2> HIDE DEF a
  <2> QED BY <1>2, <1>3, <1>4, <1>5, ThreadHeld
<1>7. api' \in [Users -> [session : Sessions, token : {"none", "connected", "reconnect"}]]
  <2>1. api' = [api EXCEPT ![t[1]] = [session |-> l.session, token |-> "connected"]]
    BY DEF SaveLogin
  <2> HIDE DEF l
  <2> QED BY <1>1, <1>5, <2>1 DEF LoginInv, LoginTypeOK
<1> QED BY <1>3, <1>6, <1>7 DEF LoginInv, LoginTypeOK

\* The steps that write the row of apis or of broker_health and go on.
LEMMA RowLogin ==
  ASSUME LoginInv, NEW t \in Threads, SaveRefreshed(t) \/ SaveHealth(t) \/ Reject(t)
  PROVE  LoginInv'
<1>1. /\ login \in [Threads -> Attempts] /\ login[t] \in Attempts /\ t[1] \in Users
      /\ login[t].session \in Sessions
  BY ThreadUser DEF LoginInv, LoginTypeOK, Attempts
<1>2. UNCHANGED <<good, issued, code, opened, listed, client, markpc,
                  callback, relog, adapter, checked>>
  BY DEF SaveRefreshed, SaveHealth, Reject, loginMemory
<1>3. /\ login[t].pc # "update"
      /\ \E pc \in LoginAt \ {"save"} : Goes(t, pc)
  BY DEF SaveRefreshed, SaveHealth, Reject
<1>4. PICK a \in Attempts :
        /\ login' = [login EXCEPT ![t] = a]
        /\ a.copy = login[t].copy /\ a.ok = login[t].ok /\ a.pc # "save"
  BY <1>1, <1>3, GoesTo
<1>5. ~a.ok
  BY <1>3, <1>4 DEF LoginInv, Held
<1>6. login' \in [Threads -> Attempts] /\ Held'
  BY <1>2, <1>4, <1>5, ThreadHeld
<1>7. api' \in [Users -> [session : Sessions, token : {"none", "connected", "reconnect"}]]
  <2> DEFINE s == login[t].session
  <2>1. api' = api \/ api' = [api EXCEPT ![t[1]] = [session |-> s, token |-> "connected"]]
    BY DEF SaveRefreshed, SaveHealth, Reject
  <2>2. s \in Sessions
    BY <1>1
  <2> HIDE DEF s
  <2> QED BY <1>1, <2>1, <2>2 DEF LoginInv, LoginTypeOK
<1>8. health' \in [Users -> {"not_tested", "connected", "rejected"}]
  BY <1>1 DEF LoginInv, LoginTypeOK, SaveRefreshed, SaveHealth, Reject
<1> QED BY <1>2, <1>6, <1>7, <1>8 DEF LoginInv, LoginTypeOK

LEMMA OtherLoginInv ==
  ASSUME LoginInv, NEW t \in Threads, OtherLogin(t)
  PROVE  LoginInv'
<1> DEFINE u == t[1]
           l == login[t]
<1>1. /\ login \in [Threads -> Attempts] /\ l \in Attempts /\ u \in Users \ AliceUsers
      /\ l.pc = "ask"
  BY ThreadUser DEF LoginInv, LoginTypeOK, OtherLogin
<1>2. ~l.ok
  BY <1>1 DEF LoginInv, Held
<1>3. UNCHANGED <<code, api, health, opened, listed, client, markpc, callback, relog, adapter>>
  BY DEF OtherLogin, loginMemory
<1>4. CASE /\ Issue(u)
           /\ login' = [login EXCEPT ![t] = [@ EXCEPT !.pc = "update", !.session = Newest(u),
                                                      !.ok = TRUE]]
  <2> DEFINE n == Newest(u)
             a == [l EXCEPT !.pc = "update", !.session = n, !.ok = TRUE]
  <2>1. n \in Sessions
    BY <1>1, NewSession DEF LoginInv
  <2>2. login' = [login EXCEPT ![t] = a]
    BY <1>4
  <2>3. a \in Attempts /\ a.copy = l.copy /\ a.pc = "update"
    <3> HIDE DEF l, n
    <3> QED BY <1>1, <2>1 DEF Attempts
  <2>4. /\ good' \in [Users -> SUBSET (Sessions \ {0})] /\ issued' \in [Users -> Sessions]
        /\ checked' \in [Users -> SUBSET Sessions]
        /\ \A v \in Users : checked[v] \subseteq checked'[v]
    BY <1>1, <1>4, Issued DEF LoginInv
  <2>5. login' \in [Threads -> Attempts] /\ Held'
    <3> HIDE DEF a
    <3> QED BY <1>1, <1>3, <2>2, <2>3, <2>4, ThreadHeld
  <2> QED BY <1>3, <2>4, <2>5 DEF LoginInv, LoginTypeOK
<1>5. CASE UNCHANGED <<good, issued, checked>> /\ Goes(t, "update")
  <2>1. PICK a \in Attempts :
          /\ login' = [login EXCEPT ![t] = a]
          /\ a.copy = l.copy /\ a.ok = l.ok /\ a.pc = "update"
    BY <1>1, <1>5, GoesTo
  <2>2. login' \in [Threads -> Attempts] /\ Held'
    BY <1>2, <1>3, <1>5, <2>1, ThreadHeld
  <2> QED BY <1>3, <1>5, <2>2 DEF LoginInv, LoginTypeOK
<1> QED BY <1>4, <1>5 DEF OtherLogin

\* The engine takes the session for its own: the one step that changes client.
LEMMA UpdateLogin ==
  ASSUME LoginInv, NEW t \in Threads, UpdateLoginState(t)
  PROVE  LoginInv'
<1> DEFINE u == t[1]
           l == login[t]
           pc == IF t[2] = "first" THEN "done" ELSE "sleep"
           a == [NoLogin EXCEPT !.pc = pc]
<1>1. /\ login \in [Threads -> Attempts] /\ u \in Users
      /\ l.session \in Sessions /\ listed \subseteq Users
      /\ client \in [Users -> Sessions]
  BY ThreadUser DEF LoginInv, LoginTypeOK, Attempts
<1>2. UNCHANGED <<good, issued, code, api, health, opened, markpc, callback, relog, adapter,
                  checked>>
  BY DEF UpdateLoginState, loginRows, loginOnly
<1>3. a \in Attempts /\ ~a.ok /\ a.copy = {} /\ a.pc # "save"
  <2>1. pc \in LoginAt /\ pc # "save"
    OBVIOUS
  <2>2. NoLogin \in Attempts /\ ~NoLogin.ok /\ NoLogin.copy = {}
    BY LoginAssumption DEF Attempts, NoLogin, Sessions
  <2> HIDE DEF pc
  <2> QED BY <2>1, <2>2 DEF Attempts
<1>4. login' = [login EXCEPT ![t] = a]
  BY DEF UpdateLoginState
<1>5. /\ login' \in [Threads -> Attempts] /\ login'[t] = a
      /\ \A s \in Threads \ {t} : login'[s] = login[s]
  <2> HIDE DEF a
  <2> QED BY <1>1, <1>3, <1>4
<1>6. \/ UNCHANGED <<client, listed>>
      \/ /\ l.ok /\ listed' = listed \cup {u}
         /\ client' = [client EXCEPT ![u] = l.session]
  BY DEF UpdateLoginState
<1>7. client' \in [Users -> Sessions] /\ listed' \subseteq Users
  <2> HIDE DEF l
  <2> QED BY <1>1, <1>6
<1>8. l.ok => (u \in AliceUsers => l.session \in checked[u])
  BY DEF LoginInv, Held
<1>9. \A v \in AliceUsers : client[v] \in checked[v] => client'[v] \in checked[v]
  <2> HIDE DEF l
  <2> QED BY <1>1, <1>6, <1>8 DEF Users
<1>10. \A v \in AliceUsers \cap listed' : client'[v] \in checked'[v]
  <2>1. l.ok /\ u \in AliceUsers /\ client' = [client EXCEPT ![u] = l.session] =>
          client'[u] \in checked[u]
    BY <1>1, <1>8
  <2> HIDE DEF l
  <2> QED BY <1>2, <1>6, <1>9, <2>1 DEF LoginInv, Held
<1>11. Held'
  <2>1. \A s \in Threads : \A v \in AliceUsers \cap login'[s].copy : client'[v] \in checked'[v]
    BY <1>2, <1>3, <1>5, <1>9 DEF LoginInv, Held
  <2>2. \A s \in Threads : login'[s].ok => login'[s].pc = "update"
    <3> HIDE DEF a
    <3> QED BY <1>3, <1>5 DEF LoginInv, Held
  <2>3. \A s \in Threads :
          s[1] \in AliceUsers /\ (login'[s].pc = "save" \/ login'[s].ok) =>
            login'[s].session \in checked'[s[1]]
    <3> HIDE DEF a
    <3> QED BY <1>2, <1>3, <1>5 DEF LoginInv, Held
  <2> QED BY <1>10, <2>1, <2>2, <2>3 DEF Held
<1> QED BY <1>2, <1>5, <1>7, <1>11 DEF LoginInv, LoginTypeOK

LEMMA StartLogin ==
  ASSUME LoginInv, StartThreads
  PROVE  LoginInv'
<1>1. Started \in [Threads -> Attempts]
  <2>1. NoLogin \in Attempts
    BY LoginAssumption DEF NoLogin, Attempts, Sessions
  <2>2. \A pc \in LoginAt : [NoLogin EXCEPT !.pc = pc] \in Attempts
    BY <2>1 DEF Attempts
  <2> QED BY <2>2 DEF Started
<1>2. \A t \in Threads : ~Started[t].ok /\ Started[t].copy = {} /\ Started[t].pc # "save"
  BY DEF Started, NoLogin
<1>3. login' = Started /\ UNCHANGED <<good, issued, code, api, health, opened, listed, client,
                                     markpc, callback, relog, adapter, checked>>
  BY DEF StartThreads, loginRows, loginMemory
<1>4. Held'
  BY <1>2, <1>3 DEF LoginInv, Held
<1> QED BY <1>1, <1>3, <1>4 DEF LoginInv, LoginTypeOK

\* Outside the threads nothing touches what the engine holds.
LEMMA HeldGrows ==
  ASSUME LoginInv, UNCHANGED <<listed, client, login>>,
         \A u \in Users : checked[u] \subseteq checked'[u]
  PROVE  Held'
BY ThreadUser DEF LoginInv, Held, Users

\* Expiry, and an order that was answered "unauthorized".
LEMMA BrokerLogin ==
  ASSUME LoginInv, NEW u \in Users, Expire(u) \/ OrderUnauthorized(u) \/ MarkReconnect(u)
  PROVE  LoginInv'
<1>0. /\ good \in [Users -> SUBSET (Sessions \ {0})] /\ code \in [Users -> Codes]
      /\ api \in [Users -> [session : Sessions, token : {"none", "connected", "reconnect"}]]
      /\ health \in [Users -> {"not_tested", "connected", "rejected"}]
      /\ markpc \in [Users -> {"idle", "api", "health"}]
  BY DEF LoginInv, LoginTypeOK
<1>1. UNCHANGED <<issued, opened, listed, client, login, callback, relog, adapter, checked>>
  BY DEF Expire, OrderUnauthorized, MarkReconnect, markOnly
<1>2. good' = good \/ good' = [good EXCEPT ![u] = {}]
  BY DEF Expire, OrderUnauthorized, MarkReconnect, markOnly
<1>3. code' = code \/ code' = [code EXCEPT ![u] = "spent"]
  BY DEF Expire, OrderUnauthorized, MarkReconnect, markOnly
<1>4. api' = api \/ api' = [api EXCEPT ![u].token = "reconnect"]
  BY DEF Expire, OrderUnauthorized, MarkReconnect
<1>5. health' = health \/ health' = [health EXCEPT ![u] = "rejected"]
  BY DEF Expire, OrderUnauthorized, MarkReconnect
<1>6. markpc' = markpc \/ \E pc \in {"idle", "api", "health"} : markpc' = [markpc EXCEPT ![u] = pc]
  BY DEF Expire, OrderUnauthorized, MarkReconnect
<1>7. good' \in [Users -> SUBSET (Sessions \ {0})] /\ code' \in [Users -> Codes]
  BY <1>0, <1>2, <1>3
<1>8. api' \in [Users -> [session : Sessions, token : {"none", "connected", "reconnect"}]]
  BY <1>0, <1>4
<1>9. health' \in [Users -> {"not_tested", "connected", "rejected"}]
  BY <1>0, <1>5
<1>10. markpc' \in [Users -> {"idle", "api", "health"}]
  BY <1>0, <1>6
<1>11. Held'
  BY <1>1, HeldGrows
<1> QED BY <1>1, <1>7, <1>8, <1>9, <1>10, <1>11 DEF LoginInv, LoginTypeOK

\* The reconnect through the API.
LEMMA CallbackLogin ==
  ASSUME LoginInv, NEW u \in Users, ExchangeCode(u) \/ SaveReconnect(u)
  PROVE  LoginInv'
<1> DEFINE Callbacks == [pc : {"idle", "api", "refuse", "health", "rejected"}, session : Sessions]
           Saved == [session : Sessions, token : {"none", "connected", "reconnect"}]
<1>1. /\ callback \in [Users -> Callbacks] /\ callback[u] \in Callbacks
      /\ api \in [Users -> Saved] /\ callback[u].session \in Sessions
      /\ Newest(u) \in Sessions
  BY NewSession DEF LoginInv, LoginTypeOK
<1>2. UNCHANGED <<opened, listed, client, login, markpc, relog, adapter>>
  BY DEF ExchangeCode, SaveReconnect, callbackOnly
<1>3. /\ good' \in [Users -> SUBSET (Sessions \ {0})] /\ issued' \in [Users -> Sessions]
      /\ checked' \in [Users -> SUBSET Sessions]
      /\ \A v \in Users : checked[v] \subseteq checked'[v]
  <2>1. CASE Issue(u)
    BY <2>1, Issued DEF LoginInv
  <2>2. CASE UNCHANGED <<good, issued, checked>>
    BY <2>2 DEF LoginInv, LoginTypeOK
  <2> QED BY <2>1, <2>2 DEF ExchangeCode, SaveReconnect
<1>4. callback' \in [Users -> Callbacks]
  <2>1. Idle \in Callbacks
    BY LoginAssumption DEF Idle, Sessions
  <2>2. CASE ExchangeCode(u)
    <3> DEFINE n == Newest(u)
    <3>1. \/ callback' = [callback EXCEPT ![u] = [pc |-> "api", session |-> n]]
          \/ callback' = [callback EXCEPT ![u].pc = "refuse"]
      BY <2>2 DEF ExchangeCode
    <3> HIDE DEF n
    <3> QED BY <1>1, <3>1 DEF n
  <2>3. CASE SaveReconnect(u)
    BY <1>1, <2>1, <2>3 DEF SaveReconnect
  <2> QED BY <2>2, <2>3
<1>5. api' \in [Users -> Saved]
  <2> DEFINE s == callback[u].session
  <2>1. \/ api' = api \/ api' = [api EXCEPT ![u].token = "reconnect"]
        \/ api' = [api EXCEPT ![u] = [session |-> s, token |-> "connected"]]
    BY DEF ExchangeCode, SaveReconnect
  <2> HIDE DEF s
  <2> QED BY <1>1, <2>1 DEF s
<1>6. code' \in [Users -> Codes] /\ health' \in [Users -> {"not_tested", "connected", "rejected"}]
  <2>1. code' = code \/ code' = [code EXCEPT ![u] = "valid"]
    BY DEF ExchangeCode, SaveReconnect
  <2>2. \E v \in {"connected", "rejected"} : health' = health \/ health' = [health EXCEPT ![u] = v]
    BY DEF ExchangeCode, SaveReconnect
  <2>3. code \in [Users -> Codes] /\ health \in [Users -> {"not_tested", "connected", "rejected"}]
    BY DEF LoginInv, LoginTypeOK
  <2> QED BY <2>1, <2>2, <2>3
<1>7. Held'
  BY <1>2, <1>3, HeldGrows
<1> QED BY <1>2, <1>3, <1>4, <1>5, <1>6, <1>7 DEF LoginInv, LoginTypeOK

\* The worker's own login.
LEMMA AdapterLogin ==
  ASSUME LoginInv, NEW u \in AliceUsers, AdapterBegins(u) \/ AdapterAsks(u) \/ AdapterSaves(u)
  PROVE  LoginInv'
<1> DEFINE Adapters == [pc : {"idle", "ask", "again", "save", "token", "health", "rejected"},
                        session : Sessions, code : Codes]
           Saved == [session : Sessions, token : {"none", "connected", "reconnect"}]
           s == adapter[u].session
           n == Newest(u)
<1>1. /\ u \in Users /\ adapter \in [Users -> Adapters] /\ adapter[u] \in Adapters
      /\ s \in Sessions /\ n \in Sessions
      /\ api \in [Users -> Saved] /\ api[u].session \in Sessions /\ code[u] \in Codes
      /\ checked \in [Users -> SUBSET Sessions]
  BY NewSession DEF LoginInv, LoginTypeOK, Users
<1>2. UNCHANGED <<opened, listed, client, login, markpc, callback>>
  BY DEF AdapterBegins, AdapterAsks, AdapterSaves, adapterOnly
<1>3. /\ good' \in [Users -> SUBSET (Sessions \ {0})] /\ issued' \in [Users -> Sessions]
      /\ checked' \in [Users -> SUBSET Sessions]
      /\ \A v \in Users : checked[v] \subseteq checked'[v]
  <2>1. CASE Issue(u)
    BY <1>1, <2>1, Issued DEF LoginInv
  <2>2. CASE UNCHANGED <<good, issued, checked>>
    BY <2>2 DEF LoginInv, LoginTypeOK
  <2>3. CASE UNCHANGED <<good, issued>> /\ checked' = [checked EXCEPT ![u] = @ \cup {s}]
    <3> HIDE DEF s
    <3> QED BY <1>1, <2>3 DEF LoginInv, LoginTypeOK
  <2> QED BY <2>1, <2>2, <2>3 DEF AdapterBegins, AdapterAsks, AdapterSaves, loginRows
<1>4. adapter' \in [Users -> Adapters]
  <2>1. NoAdapter \in Adapters
    BY LoginAssumption DEF NoAdapter, Sessions
  <2>2. CASE AdapterBegins(u)
    <3> DEFINE c == code[u]
               r == api[u].session
               pc == IF r = 0 /\ c = "none" THEN "rejected" ELSE "ask"
    <3>1. adapter' = [adapter EXCEPT ![u] = [pc |-> pc, session |-> r, code |-> c]]
      BY <2>2 DEF AdapterBegins
    <3>2. pc \in {"rejected", "ask"}
      OBVIOUS
    <3> HIDE DEF c, r, pc
    <3> QED BY <1>1, <3>1, <3>2 DEF c, r
  <2>3. CASE AdapterAsks(u)
    <3>1. \/ \E pc \in {"save", "again", "rejected", "token"} :
               adapter' = [adapter EXCEPT ![u].pc = pc]
          \/ adapter' = [adapter EXCEPT ![u] = [adapter[u] EXCEPT !.pc = "save", !.session = n]]
      BY <2>3 DEF AdapterAsks
    <3>2. \A pc \in {"save", "again", "rejected", "token"} :
            [adapter EXCEPT ![u].pc = pc] \in [Users -> Adapters]
      BY <1>1
    <3>3. [adapter EXCEPT ![u] = [adapter[u] EXCEPT !.pc = "save", !.session = n]] \in [Users -> Adapters]
      <4> HIDE DEF n
      <4> DEFINE r == adapter[u]
      <4>1. r \in Adapters
        BY <1>1
      <4> HIDE DEF r
      <4>2. [r EXCEPT !.pc = "save", !.session = n] \in Adapters
        BY <1>1, <4>1
      <4> QED BY <1>1, <4>2 DEF r
    <3> HIDE DEF Adapters, n
    <3> QED BY <3>1, <3>2, <3>3
  <2>4. CASE AdapterSaves(u)
    <3>1. \/ \E pc \in {"health", "rejected"} : adapter' = [adapter EXCEPT ![u].pc = pc]
          \/ adapter' = [adapter EXCEPT ![u] = NoAdapter]
      BY <2>4 DEF AdapterSaves
    <3>2. \A pc \in {"health", "rejected"} : [adapter EXCEPT ![u].pc = pc] \in [Users -> Adapters]
      BY <1>1
    <3> HIDE DEF Adapters
    <3> QED BY <1>1, <2>1, <3>1, <3>2
  <2> QED BY <2>2, <2>3, <2>4
<1>5. api' \in [Users -> Saved]
  <2>1. \/ api' = api \/ api' = [api EXCEPT ![u].token = "reconnect"]
        \/ api' = [api EXCEPT ![u] = [session |-> s, token |-> "connected"]]
    BY DEF AdapterBegins, AdapterAsks, AdapterSaves, loginRows
  <2> HIDE DEF s
  <2> QED BY <1>1, <2>1
<1>6. code' \in [Users -> Codes] /\ health' \in [Users -> {"not_tested", "connected", "rejected"}]
  <2>1. code' = code \/ code' = [code EXCEPT ![u] = "spent"] \/ code' = [code EXCEPT ![u] = code[u]]
    BY DEF AdapterBegins, AdapterAsks, AdapterSaves, loginRows
  <2>2. \E v \in {"connected", "rejected"} : health' = health \/ health' = [health EXCEPT ![u] = v]
    BY DEF AdapterBegins, AdapterAsks, AdapterSaves, loginRows
  <2>3. code \in [Users -> Codes] /\ health \in [Users -> {"not_tested", "connected", "rejected"}]
    BY DEF LoginInv, LoginTypeOK
  <2> QED BY <1>1, <2>1, <2>2, <2>3
<1>7. relog' \subseteq AliceUsers
  BY DEF LoginInv, LoginTypeOK, AdapterBegins, AdapterAsks, AdapterSaves
<1>8. Held'
  BY <1>2, <1>3, HeldGrows
<1> QED BY <1>2, <1>3, <1>4, <1>5, <1>6, <1>7, <1>8 DEF LoginInv, LoginTypeOK

LEMMA GoneLogin ==
  ASSUME LoginInv, LoginsGone
  PROVE  LoginInv'
<1>1. NoLogin \in Attempts /\ ~NoLogin.ok /\ NoLogin.copy = {} /\ NoLogin.pc # "save"
  BY LoginAssumption DEF Attempts, NoLogin, Sessions
<1>2. /\ login' \in [Threads -> Attempts] /\ listed' = {} /\ relog' = {}
      /\ client' \in [Users -> Sessions] /\ markpc' \in [Users -> {"idle", "api", "health"}]
      /\ checked' \in [Users -> SUBSET Sessions]
  BY <1>1, LoginAssumption DEF LoginsGone, Sessions
<1>3. adapter' \in [Users -> [pc : {"idle", "ask", "again", "save", "token", "health", "rejected"},
                              session : Sessions, code : Codes]]
  BY LoginAssumption DEF LoginsGone, NoAdapter, Sessions
<1>4. Held'
  BY <1>1 DEF LoginsGone, Held
<1>5. UNCHANGED <<good, issued, code, api, health, opened, callback>>
  BY DEF LoginsGone
<1> QED BY <1>2, <1>3, <1>4, <1>5 DEF LoginInv, LoginTypeOK

LEMMA ThreadLogin ==
  ASSUME LoginInv, NEW t \in Threads, Thread(t)
  PROVE  LoginInv'
BY LookLogin, AssignLogin, AskLogin, SaveLoginInv, RowLogin, OtherLoginInv, UpdateLogin DEF Thread

----------------------------------------------------------------------------
(* The feed. *)

WalkRows == [pc : WalkAt, at : 1 .. Len(Chain)]
Actives == [provider : Named, snapshot : BOOLEAN]

\* Between the switch to a provider and the end of the walk nobody else has a
\* websocket open either, but a late one.
Streams(m) ==
  /\ walk[m].pc = "idle" /\ active[m].provider # NoProvider /\ ~active[m].snapshot =>
       conn[m] \subseteq {active[m].provider} \cup late[m]
  /\ walk[m].pc \in {"row", "global"} =>
       /\ active[m].provider = Chain[walk[m].at] /\ ~active[m].snapshot
       /\ conn[m] \subseteq {active[m].provider} \cup late[m]
  /\ walk[m].pc \in {"warmrow", "warmglobal"} => active[m].snapshot

FeedInv == FeedTypeOK /\ \A m \in Managers : Streams(m)

LEMMA FeedUnchanged == FeedInv /\ UNCHANGED feedVars => FeedInv'
BY DEF FeedInv, FeedTypeOK, Streams, feedVars

USE DEF WalkAt

LEMMA ChainAt == \A i \in 1 .. Len(Chain) : Chain[i] \in Providers
BY FeedAssumption

LEMMA ChainLen == Len(Chain) \in Nat /\ 1 \in 1 .. Len(Chain)
BY FeedAssumption

LEMMA InitFeed ==
  ASSUME FeedInit
  PROVE  FeedInv
<1>1. FeedTypeOK
  BY ChainLen DEF FeedInit, FeedTypeOK, Named
<1>2. \A m \in Managers : Streams(m)
  BY DEF FeedInit, Streams
<1> QED BY <1>1, <1>2 DEF FeedInv

\* The walk of m goes on, and takes the next provider perhaps.
LEMMA WalksTo ==
  ASSUME walk \in [Managers -> WalkRows], NEW m \in Managers, NEW pc \in WalkAt, Walks(m, pc)
  PROVE  /\ walk' \in [Managers -> WalkRows]
         /\ \A n \in Managers \ {m} : walk'[n] = walk[n]
         /\ walk'[m].pc = pc /\ walk'[m].at = walk[m].at
BY DEF Walks, WalkRows

LEMMA NextTo ==
  ASSUME walk \in [Managers -> WalkRows], NEW m \in Managers, NextProvider(m)
  PROVE  /\ walk' \in [Managers -> WalkRows]
         /\ \A n \in Managers \ {m} : walk'[n] = walk[n]
         /\ walk'[m].pc \in {"connect", "none"}
<1>1. CASE walk' = [walk EXCEPT ![m] = [pc |-> "connect", at |-> walk[m].at + 1]]
           /\ walk[m].at < Len(Chain)
  <2> DEFINE i == walk[m].at + 1
  <2>1. i \in 1 .. Len(Chain)
    BY <1>1, ChainLen DEF WalkRows
  <2> HIDE DEF i
  <2>2. walk' = [walk EXCEPT ![m] = [pc |-> "connect", at |-> i]]
    BY <1>1 DEF i
  <2> QED BY <2>1, <2>2 DEF WalkRows
<1>2. CASE Walks(m, "none")
  BY <1>2, WalksTo
<1> QED BY <1>1, <1>2 DEF NextProvider

\* A step of m leaves the streams of the other manager alone.
LEMMA StreamsKept ==
  ASSUME FeedInv, NEW m \in Managers,
         \A n \in Managers \ {m} : /\ walk'[n] = walk[n] /\ active'[n] = active[n]
                                   /\ late'[n] = late[n] /\ conn'[n] \subseteq conn[n],
         Streams(m)'
  PROVE  (\A n \in Managers : Streams(n))'
<1> SUFFICES ASSUME NEW n \in Managers \ {m} PROVE Streams(n)'
  OBVIOUS
<1> QED BY DEF FeedInv, Streams

\* The types the steps of a walk read.
LEMMA FeedTypes ==
  ASSUME FeedInv
  PROVE  /\ walk \in [Managers -> WalkRows] /\ active \in [Managers -> Actives]
         /\ conn \in [Managers -> SUBSET Providers] /\ dialling \in [Managers -> SUBSET Providers]
         /\ orphan \in [Managers -> SUBSET Providers] /\ late \in [Managers -> SUBSET Providers]
         /\ fresh \subseteq Providers
         /\ feedRow \in [Providers -> {"not_started", "connected", "failed"}]
         /\ \A m \in Managers : walk[m].at \in 1 .. Len(Chain) /\ Chain[walk[m].at] \in Providers
BY ChainAt DEF FeedInv, FeedTypeOK, WalkRows, Actives

LEMMA ConnectFeed ==
  ASSUME FeedInv, NEW m \in Managers, Connect(m)
  PROVE  FeedInv'
<1> DEFINE p == Chain[walk[m].at]
<1>1. /\ walk \in [Managers -> WalkRows] /\ conn \in [Managers -> SUBSET Providers]
      /\ dialling \in [Managers -> SUBSET Providers] /\ orphan \in [Managers -> SUBSET Providers]
      /\ p \in Providers
  BY FeedTypes
<1>2. UNCHANGED <<service, active, late, fresh, feedRow, feedHealth>>
  BY DEF Connect
<1>3. \E pc \in {"opening", "subscribe", "failed"} : Walks(m, pc)
  BY DEF Connect
<1>4. \/ UNCHANGED <<orphan, conn, dialling>>
      \/ Dial(m, p)
  BY DEF Connect
<1>5. /\ walk' \in [Managers -> WalkRows] /\ \A n \in Managers \ {m} : walk'[n] = walk[n]
      /\ walk'[m].pc \in {"opening", "subscribe", "failed"}
  BY <1>1, <1>3, WalksTo
<1>6. /\ conn' \in [Managers -> SUBSET Providers] /\ dialling' \in [Managers -> SUBSET Providers]
      /\ orphan' \in [Managers -> SUBSET Providers]
      /\ \A n \in Managers \ {m} : conn'[n] = conn[n]
  <2> HIDE DEF p
  <2>1. conn' \in [Managers -> SUBSET Providers] /\ \A n \in Managers \ {m} : conn'[n] = conn[n]
    BY <1>1, <1>4 DEF Dial
  <2>2. dialling' \in [Managers -> SUBSET Providers]
    BY <1>1, <1>4 DEF Dial
  <2>3. orphan' \in [Managers -> SUBSET Providers]
    BY <1>1, <1>4 DEF Dial
  <2> QED BY <2>1, <2>2, <2>3
<1>7. Streams(m)'
  BY <1>5 DEF Streams
<1>8. (\A n \in Managers : Streams(n))'
  BY <1>2, <1>5, <1>6, <1>7, StreamsKept
<1> QED BY <1>2, <1>5, <1>6, <1>8 DEF FeedInv, FeedTypeOK, WalkRows

\* The steps that leave the websockets alone and do not end the walk.
LEMMA GoOnFeed ==
  ASSUME FeedInv, NEW m \in Managers, NEW wanted,
         OpenTimesOut(m) \/ Subscribe(m, wanted) \/ SaveFailed(m) \/ Warm(m, wanted)
  PROVE  FeedInv'
<1> DEFINE p == Chain[walk[m].at]
<1>1. /\ walk \in [Managers -> WalkRows] /\ fresh \subseteq Providers /\ p \in Providers
      /\ feedRow \in [Providers -> {"not_started", "connected", "failed"}]
  BY FeedTypes
<1>2. UNCHANGED <<service, active, conn, dialling, orphan, late, feedHealth>>
  BY DEF OpenTimesOut, Subscribe, SaveFailed, Warm, walkOnly
<1>3. (\E pc \in {"failed", "switch", "warm", "check"} : Walks(m, pc)) \/ NextProvider(m)
  BY DEF OpenTimesOut, Subscribe, SaveFailed, Warm
<1>4. /\ walk' \in [Managers -> WalkRows] /\ \A n \in Managers \ {m} : walk'[n] = walk[n]
      /\ walk'[m].pc \in {"failed", "switch", "warm", "check", "connect", "none"}
  BY <1>1, <1>3, WalksTo, NextTo
<1>5. fresh' \subseteq Providers
  BY <1>1 DEF OpenTimesOut, Subscribe, SaveFailed, Warm
<1>6. feedRow' \in [Providers -> {"not_started", "connected", "failed"}]
  <2>1. feedRow' = feedRow \/ feedRow' = [feedRow EXCEPT ![p] = "failed"]
    BY DEF OpenTimesOut, Subscribe, SaveFailed, Warm
  <2> HIDE DEF p
  <2> QED BY <1>1, <2>1
<1>7. Streams(m)'
  BY <1>4 DEF Streams
<1>8. (\A n \in Managers : Streams(n))'
  BY <1>2, <1>4, <1>7, StreamsKept
<1> QED BY <1>2, <1>4, <1>5, <1>6, <1>8 DEF FeedInv, FeedTypeOK, WalkRows

LEMMA SwitchFeed ==
  ASSUME FeedInv, NEW m \in Managers, Switch(m)
  PROVE  FeedInv'
<1> DEFINE p == Chain[walk[m].at]
<1>1. /\ walk \in [Managers -> WalkRows] /\ p \in Providers
      /\ active \in [Managers -> Actives]
      /\ conn \in [Managers -> SUBSET Providers] /\ late \in [Managers -> SUBSET Providers]
  BY FeedTypes
<1>2. UNCHANGED <<service, dialling, orphan, fresh, feedRow, feedHealth>>
  BY DEF Switch, walkOnly
<1>3. /\ walk' \in [Managers -> WalkRows] /\ \A n \in Managers \ {m} : walk'[n] = walk[n]
      /\ walk'[m].pc = "row" /\ Chain[walk'[m].at] = p
  BY <1>1, WalksTo DEF Switch
<1>4. /\ active' = [active EXCEPT ![m] = [provider |-> p, snapshot |-> FALSE]]
      /\ conn' = [conn EXCEPT ![m] = @ \cap {p}]
      /\ late' = [late EXCEPT ![m] = {}]
  BY DEF Switch
<1> HIDE DEF p
<1>5. /\ active' \in [Managers -> Actives] /\ active'[m] = [provider |-> p, snapshot |-> FALSE]
      /\ \A n \in Managers \ {m} : active'[n] = active[n]
  BY <1>1, <1>4 DEF Actives, Named
<1>6. /\ conn' \in [Managers -> SUBSET Providers] /\ conn'[m] \subseteq {p}
      /\ \A n \in Managers \ {m} : conn'[n] = conn[n]
  BY <1>1, <1>4
<1>7. late' \in [Managers -> SUBSET Providers] /\ \A n \in Managers \ {m} : late'[n] = late[n]
  BY <1>1, <1>4
<1>8. Streams(m)'
  BY <1>3, <1>5, <1>6 DEF Streams
<1>9. (\A n \in Managers : Streams(n))'
  BY <1>3, <1>5, <1>6, <1>7, <1>8, StreamsKept
<1> QED BY <1>2, <1>3, <1>5, <1>6, <1>7, <1>9 DEF FeedInv, FeedTypeOK, WalkRows, Actives

LEMMA SavedFeed ==
  ASSUME FeedInv, NEW m \in Managers, SaveConnected(m)
  PROVE  FeedInv'
<1> DEFINE p == Chain[walk[m].at]
<1>1. /\ walk \in [Managers -> WalkRows] /\ p \in Providers
      /\ feedRow \in [Providers -> {"not_started", "connected", "failed"}]
      /\ feedHealth \in [connected : BOOLEAN, active : Named]
  BY FeedTypes DEF FeedInv, FeedTypeOK
<1>2. UNCHANGED <<service, active, conn, dialling, orphan, late, fresh>>
  BY DEF SaveConnected, walkOnly
<1>3. \/ walk[m].pc = "row" /\ Walks(m, "global")
      \/ walk[m].pc = "global" /\ Walks(m, "idle")
      \/ walk[m].pc = "warmrow" /\ Walks(m, "warmglobal")
      \/ walk[m].pc = "warmglobal" /\ Walks(m, "idle")
  BY DEF SaveConnected, Connected
<1>4. /\ walk' \in [Managers -> WalkRows] /\ \A n \in Managers \ {m} : walk'[n] = walk[n]
      /\ walk'[m].at = walk[m].at
      /\ \/ walk[m].pc = "row" /\ walk'[m].pc = "global"
         \/ walk[m].pc = "global" /\ walk'[m].pc = "idle"
         \/ walk[m].pc = "warmrow" /\ walk'[m].pc = "warmglobal"
         \/ walk[m].pc = "warmglobal" /\ walk'[m].pc = "idle"
  BY <1>1, <1>3, WalksTo
<1>5. /\ feedRow' \in [Providers -> {"not_started", "connected", "failed"}]
      /\ feedHealth' \in [connected : BOOLEAN, active : Named]
  <2>1. feedRow' = feedRow \/ feedRow' = [feedRow EXCEPT ![p] = "connected"]
    BY DEF SaveConnected, Connected
  <2>2. feedHealth' = feedHealth \/ feedHealth' = [connected |-> TRUE, active |-> p]
    BY DEF SaveConnected, Connected
  <2> HIDE DEF p
  <2>3. feedRow' \in [Providers -> {"not_started", "connected", "failed"}]
    BY <1>1, <2>1
  <2>4. [connected |-> TRUE, active |-> p] \in [connected : BOOLEAN, active : Named]
    BY <1>1 DEF Named
  <2>5. feedHealth' \in [connected : BOOLEAN, active : Named]
    BY <1>1, <2>2, <2>4
  <2> QED BY <2>3, <2>5
<1>6. Streams(m)'
  BY <1>2, <1>4 DEF FeedInv, Streams
<1>7. (\A n \in Managers : Streams(n))'
  BY <1>2, <1>4, <1>6, StreamsKept
<1> QED BY <1>2, <1>4, <1>5, <1>7 DEF FeedInv, FeedTypeOK, WalkRows

LEMMA SnapshotFeed ==
  ASSUME FeedInv, NEW m \in Managers, NEW wanted, CheckWarm(m, wanted)
  PROVE  FeedInv'
<1> DEFINE p == Chain[walk[m].at]
<1>1. /\ walk \in [Managers -> WalkRows] /\ p \in Providers
      /\ active \in [Managers -> Actives]
  BY FeedTypes
<1>2. UNCHANGED <<service, conn, dialling, orphan, late, fresh, feedRow, feedHealth>>
  BY DEF CheckWarm, walkOnly
<1>3. CASE Walks(m, "warmrow") /\ active' = [active EXCEPT ![m] = [provider |-> p, snapshot |-> TRUE]]
  <2>1. /\ walk' \in [Managers -> WalkRows] /\ \A n \in Managers \ {m} : walk'[n] = walk[n]
        /\ walk'[m].pc = "warmrow"
    BY <1>1, <1>3, WalksTo
  <2>2. /\ active' \in [Managers -> Actives] /\ active'[m].snapshot
        /\ \A n \in Managers \ {m} : active'[n] = active[n]
    <3> HIDE DEF p
    <3> QED BY <1>1, <1>3 DEF Actives, Named
  <2>3. Streams(m)'
    BY <2>1, <2>2 DEF Streams
  <2>4. (\A n \in Managers : Streams(n))'
    BY <1>2, <2>1, <2>2, <2>3, StreamsKept
  <2> QED BY <1>2, <2>1, <2>2, <2>4 DEF FeedInv, FeedTypeOK, WalkRows, Actives
<1>4. CASE NextProvider(m) /\ UNCHANGED active
  <2>1. /\ walk' \in [Managers -> WalkRows] /\ \A n \in Managers \ {m} : walk'[n] = walk[n]
        /\ walk'[m].pc \in {"connect", "none"}
    BY <1>1, <1>4, NextTo
  <2>2. Streams(m)'
    BY <2>1 DEF Streams
  <2>3. (\A n \in Managers : Streams(n))'
    BY <1>2, <1>4, <2>1, <2>2, StreamsKept
  <2> QED BY <1>2, <1>4, <2>1, <2>3 DEF FeedInv, FeedTypeOK, WalkRows
<1> QED BY <1>3, <1>4 DEF CheckWarm

LEMMA NoneFeed ==
  ASSUME FeedInv, NEW m \in Managers, NoneConnected(m)
  PROVE  FeedInv'
<1>1. walk \in [Managers -> WalkRows] /\ active \in [Managers -> Actives]
  BY FeedTypes
<1>2. UNCHANGED <<service, conn, dialling, orphan, late, fresh, feedRow>>
  BY DEF NoneConnected, walkOnly
<1>3. /\ walk' \in [Managers -> WalkRows] /\ \A n \in Managers \ {m} : walk'[n] = walk[n]
      /\ walk'[m].pc = "idle"
  BY <1>1, WalksTo DEF NoneConnected
<1>4. /\ active' \in [Managers -> Actives] /\ active'[m].provider = NoProvider
      /\ \A n \in Managers \ {m} : active'[n] = active[n]
      /\ feedHealth' \in [connected : BOOLEAN, active : Named]
  BY <1>1 DEF NoneConnected, Actives, Named
<1>5. Streams(m)'
  BY <1>3, <1>4 DEF Streams
<1>6. (\A n \in Managers : Streams(n))'
  BY <1>2, <1>3, <1>4, <1>5, StreamsKept
<1> QED BY <1>2, <1>3, <1>4, <1>6 DEF FeedInv, FeedTypeOK, WalkRows, Actives

LEMMA WalkFeed ==
  ASSUME FeedInv, NEW m \in Managers, NEW wanted, WalkStep(m, wanted)
  PROVE  FeedInv'
BY ConnectFeed, GoOnFeed, SwitchFeed, SavedFeed, SnapshotFeed, NoneFeed DEF WalkStep

\* A websocket opens, or fails to: nobody's walk but the one that waits for it.
LEMMA OpenFeed ==
  ASSUME FeedInv, NEW m \in Managers, NEW p \in Providers, Open(m, p) \/ Error(m, p)
  PROVE  FeedInv'
<1>1. /\ walk \in [Managers -> WalkRows]
      /\ conn \in [Managers -> SUBSET Providers] /\ late \in [Managers -> SUBSET Providers]
      /\ dialling \in [Managers -> SUBSET Providers]
  BY FeedTypes
<1>2. UNCHANGED <<service, active, orphan, fresh, feedRow, feedHealth>>
  BY DEF Open, Error, feedOnly
<1>3. dialling' \in [Managers -> SUBSET Providers]
  BY <1>1 DEF Open, Error
<1>4. /\ conn' \in [Managers -> SUBSET Providers] /\ conn'[m] \subseteq conn[m] \cup {p}
      /\ \A n \in Managers \ {m} : conn'[n] = conn[n]
  BY <1>1 DEF Open, Error
<1>5. CASE Walks(m, "subscribe") /\ UNCHANGED late
  <2>1. /\ walk' \in [Managers -> WalkRows] /\ \A n \in Managers \ {m} : walk'[n] = walk[n]
        /\ walk'[m].pc = "subscribe"
    BY <1>1, <1>5, WalksTo
  <2>2. Streams(m)'
    BY <2>1 DEF Streams
  <2>3. (\A n \in Managers : Streams(n))'
    BY <1>2, <1>4, <1>5, <2>1, <2>2, StreamsKept
  <2> QED BY <1>2, <1>3, <1>4, <1>5, <2>1, <2>3 DEF FeedInv, FeedTypeOK, WalkRows
<1>6. CASE UNCHANGED walk /\ late' = [late EXCEPT ![m] = @ \cup {p}]
  <2>1. /\ late' \in [Managers -> SUBSET Providers] /\ late'[m] = late[m] \cup {p}
        /\ \A n \in Managers \ {m} : late'[n] = late[n]
    BY <1>1, <1>6
  <2>2. Streams(m)'
    BY <1>2, <1>4, <1>6, <2>1 DEF FeedInv, Streams
  <2>3. (\A n \in Managers : Streams(n))'
    BY <1>2, <1>4, <1>6, <2>1, <2>2, StreamsKept
  <2> QED BY <1>2, <1>3, <1>4, <1>6, <2>1, <2>3 DEF FeedInv, FeedTypeOK
<1>7. CASE UNCHANGED <<walk, conn, late>>
  <2>1. Streams(m)'
    BY <1>2, <1>7 DEF FeedInv, Streams
  <2>2. (\A n \in Managers : Streams(n))'
    BY <1>2, <1>7, <2>1, StreamsKept
  <2> QED BY <1>2, <1>3, <1>7, <2>2 DEF FeedInv, FeedTypeOK
<1> QED BY <1>5, <1>6, <1>7 DEF Open, Error

LEMMA ServiceFeed ==
  ASSUME FeedInv, NEW p \in Providers, Drop(p) \/ Return(p) \/ Tick(p) \/ Stale(p)
  PROVE  FeedInv'
<1>1. /\ conn \in [Managers -> SUBSET Providers] /\ orphan \in [Managers -> SUBSET Providers]
      /\ fresh \subseteq Providers /\ service \in [Providers -> {"up", "silent", "refusing"}]
  BY FeedTypes DEF FeedInv, FeedTypeOK
<1>2. UNCHANGED <<walk, active, dialling, late, feedRow, feedHealth>>
  BY DEF Drop, Return, Tick, Stale, feedOnly
<1>3. /\ conn' \in [Managers -> SUBSET Providers] /\ orphan' \in [Managers -> SUBSET Providers]
      /\ \A n \in Managers : conn'[n] \subseteq conn[n]
  BY <1>1 DEF Drop, Return, Tick, Stale
<1>4. fresh' \subseteq Providers /\ service' \in [Providers -> {"up", "silent", "refusing"}]
  BY <1>1 DEF Drop, Return, Tick, Stale
<1>5. \A n \in Managers : Streams(n)'
  BY <1>2, <1>3 DEF FeedInv, Streams
<1> QED BY <1>2, <1>3, <1>4, <1>5 DEF FeedInv, FeedTypeOK

\* A manager that starts over, or that begins a walk.
LEMMA BeginFeed ==
  ASSUME FeedInv, NEW m \in Managers, BeginWalk(m),
         UNCHANGED <<service, active, conn, dialling, orphan, late, fresh, feedRow, feedHealth>>
  PROVE  FeedInv'
<1>1. /\ walk' \in [Managers -> WalkRows] /\ \A n \in Managers \ {m} : walk'[n] = walk[n]
      /\ walk'[m].pc = "connect"
  BY FeedTypes, ChainLen DEF BeginWalk, WalkRows
<1>2. Streams(m)'
  BY <1>1 DEF Streams
<1>3. (\A n \in Managers : Streams(n))'
  BY <1>1, <1>2, StreamsKept
<1> QED BY <1>1, <1>3 DEF FeedInv, FeedTypeOK, WalkRows

LEMMA NewFeed ==
  ASSUME FeedInv, FeedGone \/ NewManager
  PROVE  FeedInv'
<1>1. PICK m \in Managers :
        /\ \E pc \in {"idle", "connect"} : walk' = [walk EXCEPT ![m] = [pc |-> pc, at |-> 1]]
        /\ active' = [active EXCEPT ![m] = [provider |-> NoProvider, snapshot |-> FALSE]]
        /\ conn' \in {[conn EXCEPT ![m] = {}], [conn EXCEPT ![m] = @ \cap Keeping]}
        /\ late' = [late EXCEPT ![m] = {}]
        /\ dialling' \in {dialling, [dialling EXCEPT ![m] = {}]}
        /\ orphan' \in {[orphan EXCEPT ![m] = {}], [orphan EXCEPT ![m] = @ \cup (conn[m] \ Keeping)]}
  BY DEF FeedGone, NewManager, BeginWalk, Managers
<1>2. UNCHANGED <<service, fresh, feedRow, feedHealth>>
  BY DEF FeedGone, NewManager
<1>3. /\ walk \in [Managers -> WalkRows] /\ active \in [Managers -> Actives]
      /\ conn \in [Managers -> SUBSET Providers] /\ late \in [Managers -> SUBSET Providers]
      /\ dialling \in [Managers -> SUBSET Providers] /\ orphan \in [Managers -> SUBSET Providers]
  BY FeedTypes
<1>4. /\ walk' \in [Managers -> WalkRows] /\ \A n \in Managers \ {m} : walk'[n] = walk[n]
      /\ walk'[m].pc \in {"idle", "connect"}
  BY <1>1, <1>3, ChainLen DEF WalkRows
<1>5. /\ active' \in [Managers -> Actives] /\ active'[m].provider = NoProvider
      /\ \A n \in Managers \ {m} : active'[n] = active[n]
  BY <1>1, <1>3 DEF Actives, Named
<1>6. /\ conn' \in [Managers -> SUBSET Providers] /\ late' \in [Managers -> SUBSET Providers]
      /\ \A n \in Managers \ {m} : conn'[n] = conn[n] /\ late'[n] = late[n]
  BY <1>1, <1>3
<1>7. dialling' \in [Managers -> SUBSET Providers] /\ orphan' \in [Managers -> SUBSET Providers]
  BY <1>1, <1>3
<1>8. Streams(m)'
  BY <1>4, <1>5 DEF Streams
<1>9. (\A n \in Managers : Streams(n))'
  BY <1>4, <1>5, <1>6, <1>8, StreamsKept
<1> QED BY <1>2, <1>4, <1>5, <1>6, <1>7, <1>9 DEF FeedInv, FeedTypeOK, WalkRows, Actives

----------------------------------------------------------------------------
(* The composition. *)

Requests == [pc : RequestAt, user : Users \cup {"none"}, login : BOOLEAN,
             feed : BOOLEAN, priced : BOOLEAN]

\* A request under way is somebody's.
RequestInv == request \in Requests /\ (request.pc # "idle" => request.user \in Users)

Inv == LoadOK /\ ControlInv /\ LoginInv /\ FeedInv /\ RequestInv

LEMMA InitInv == Init => Inv
<1> SUFFICES ASSUME Init PROVE Inv
  OBVIOUS
<1>1. LoadOK
  BY ControlAssumption, LoginAssumption DEF Init, LoadOK
<1>2. RequestInv
  BY DEF Init, RequestInv, Requests, NoRequest, RequestAt
<1> QED BY <1>1, <1>2, InitControl, InitLogin, InitFeed DEF Init, Inv

\* A workload only shrinks.
Spent == UNCHANGED load \/ \E b \in Budgets : Spend(b)

LEMMA SpentLoad == LoadOK /\ Spent => LoadOK'
<1>1. ASSUME LoadOK, UNCHANGED load PROVE LoadOK'
  BY <1>1 DEF LoadOK
<1> QED BY <1>1, SpendLoad DEF Spent

LEMMA ControlStep ==
  ASSUME Inv, Control
  PROVE  Inv'
<1>1. UNCHANGED <<loginVars, feedVars, request>>
  BY DEF Control, others
<1>2. Spent
  BY DEF Control, Spent, Budgets, Enqueue, Launch, MainStep, StartTrader, FirstHeartbeat,
         StartLoop, WaitReady, Report, Hello, NextPending, FindPending, MarkPending, Work, Bye,
         Signal, Complete, HandleFails, Beat, LoopDies, EngineUp, EngineFails, PeerStep,
         PeerLooks, PeerMarks, PeerHandles, PeerCompletes, PeerReports, PeerEnds
<1>3. ControlInv'
  BY EnqueueControl, MainControl, LoopControl, PeerControl DEF Control, Inv
<1>4. LoginInv' /\ FeedInv'
  BY <1>1, LoginUnchanged, FeedUnchanged DEF Inv
<1> QED BY <1>1, <1>2, <1>3, <1>4, SpentLoad DEF Inv, RequestInv

\* The loop hands the adapter its users, or begins a walk.
LEMMA RelogStep ==
  ASSUME LoginInv, relog' \subseteq AliceUsers, RelogOnly
  PROVE  LoginInv'
<1>1. Held'
  BY HeldGrows DEF RelogOnly
<1> QED BY <1>1 DEF LoginInv, LoginTypeOK, RelogOnly

LEMMA HandleStep ==
  ASSUME Inv, Handle
  PROVE  Inv'
<1>1. ControlInv' /\ UNCHANGED <<load, request>>
  BY HandleControl DEF Handle, Inv, HandleCommand
<1>2. LoginInv'
  <2>1. CASE relog' \subseteq AliceUsers /\ RelogOnly
    BY <2>1, RelogStep DEF Inv
  <2>2. CASE UNCHANGED loginVars
    BY <2>2, LoginUnchanged DEF Inv
  <2> QED BY <2>1, <2>2 DEF Handle
<1>3. FeedInv'
  <2>1. CASE UNCHANGED feedVars
    BY <2>1, FeedUnchanged DEF Inv
  <2>2. CASE BeginWalk("worker") /\ WalkOnly
    BY <2>2, BeginFeed DEF Inv, WalkOnly, Managers
  <2> QED BY <2>1, <2>2 DEF Handle
<1> QED BY <1>1, <1>2, <1>3 DEF Inv, LoadOK, RequestInv

LEMMA MaintainStep ==
  ASSUME Inv, Maintain
  PROVE  Inv'
<1>1. ControlInv' /\ UNCHANGED <<load, request>>
  BY LoopControl DEF Maintain, Inv, Maintenance
<1>2. LoginInv'
  BY RelogStep DEF Inv, Maintain
<1>3. FeedInv'
  BY BeginFeed DEF Inv, Maintain, WalkOnly, Managers
<1> QED BY <1>1, <1>2, <1>3 DEF Inv, LoadOK, RequestInv

LEMMA EndStep ==
  ASSUME Inv, End
  PROVE  Inv'
<1>1. Gone /\ LoginsGone /\ FeedGone /\ UNCHANGED request
  BY DEF End, Exit, Crash
<1>2. Spent
  BY DEF End, Exit, Crash, Spent, Budgets
<1> QED BY <1>1, <1>2, SpentLoad, GoneControl, GoneLogin, NewFeed DEF Inv, RequestInv

LEMMA AdapterKeeps ==
  ASSUME Inv, AdapterStep
  PROVE  Inv'
<1>1. LoginInv' /\ UNCHANGED <<controlVars, feedVars, request>>
  BY AdapterLogin DEF AdapterStep, Inv
<1>2. Spent
  BY DEF AdapterStep, AdapterBegins, AdapterAsks, AdapterSaves, loginRows, Spent, Budgets
<1> QED BY <1>1, <1>2, SpentLoad, ControlUnchanged, FeedUnchanged DEF Inv, RequestInv

LEMMA WalkSpent ==
  ASSUME NEW m \in Managers, NEW wanted, WalkStep(m, wanted)
  PROVE  Spent
BY DEF WalkStep, Connect, OpenTimesOut, Subscribe, Switch, SaveConnected, SaveFailed, Warm,
       CheckWarm, NoneConnected, Spent, Budgets

LEMMA WalkKeeps ==
  ASSUME Inv, WorkerWalk \/ ApiWalk
  PROVE  Inv'
<1>1. PICK m \in Managers, wanted \in BOOLEAN : WalkStep(m, wanted)
  BY DEF WorkerWalk, ApiWalk, Managers, Wanted
<1>2. UNCHANGED <<controlVars, loginVars, request>>
  BY DEF WorkerWalk, ApiWalk
<1>3. FeedInv'
  BY <1>1, WalkFeed DEF Inv
<1> QED BY <1>1, <1>2, <1>3, WalkSpent, SpentLoad, ControlUnchanged, LoginUnchanged
        DEF Inv, RequestInv

LEMMA LoginsKeep ==
  ASSUME Inv, Logins
  PROVE  Inv'
<1>1. UNCHANGED <<controlVars, feedVars, request>>
  BY DEF Logins
<1>2. LoginInv'
  BY StartLogin, ThreadLogin, BrokerLogin, CallbackLogin DEF Logins, ThreadStep, Inv
<1>3. Spent
  <2>1. ASSUME NEW t \in Threads, Thread(t) PROVE Spent
    BY <2>1 DEF Thread, FindNotLogged, CopyList, AssignList, Pick, Ask, SaveLogin, Refresh,
                SaveRefreshed, SaveHealth, Reread, Reject, OtherLogin, UpdateLoginState, Sleep,
                loginRows, Spent, Budgets
  <2>2. StartThreads => Spent
    BY DEF StartThreads, loginRows, Spent
  <2>3. ASSUME NEW u \in Users,
               Expire(u) \/ ExchangeCode(u) \/ SaveReconnect(u) \/ OrderUnauthorized(u)
                 \/ MarkReconnect(u)
        PROVE  Spent
    BY <2>3 DEF Expire, ExchangeCode, SaveReconnect, OrderUnauthorized, MarkReconnect, markOnly,
                Spent, Budgets
  <2> QED BY <2>1, <2>2, <2>3 DEF Logins, ThreadStep
<1> QED BY <1>1, <1>2, <1>3, SpentLoad, ControlUnchanged, FeedUnchanged DEF Inv, RequestInv

LEMMA ServicesKeep ==
  ASSUME Inv, Services
  PROVE  Inv'
<1>1. UNCHANGED <<controlVars, loginVars, request>>
  BY DEF Services
<1>2. FeedInv'
  BY OpenFeed, ServiceFeed DEF Services, ServiceStep, Inv
<1>3. Spent
  BY DEF Services, ServiceStep, Drop, Return, Tick, Stale, Open, Error, Spent, Budgets
<1> QED BY <1>1, <1>2, <1>3, SpentLoad, ControlUnchanged, LoginUnchanged DEF Inv, RequestInv

\* A request reads, walks, and in the end opens the strategy of its user.
LEMMA StartKeeps ==
  ASSUME Inv, Start
  PROVE  Inv'
<1>1. CASE ApiWalk
  BY <1>1, WalkKeeps
<1>2. ASSUME (\E u \in Users : AskStart(u)) \/ ReadLogin \/ ReadFeed \/ ReadPrices \/ AwaitPrice
               \/ CommitStart
      PROVE  Inv'
  <2>1. requestOnly
    BY <1>2 DEF AskStart, ReadLogin, ReadFeed, ReadPrices, AwaitPrice, CommitStart
  <2>2. Spent
    BY <1>2 DEF AskStart, ReadLogin, ReadFeed, ReadPrices, NewManager, AwaitPrice, CommitStart,
                Spent, Budgets
  <2>3. ControlInv'
    BY <2>1, ControlUnchanged DEF Inv, requestOnly
  <2>4. FeedInv'
    BY <1>2, FeedUnchanged, NewFeed
       DEF Inv, AskStart, ReadLogin, ReadFeed, ReadPrices, AwaitPrice, CommitStart
  <2>5. opened' \subseteq Users
    BY <1>2 DEF Inv, LoginInv, LoginTypeOK, RequestInv, AskStart, ReadLogin, ReadFeed, ReadPrices,
                AwaitPrice, CommitStart
  <2>6. Held'
    BY <2>1, HeldGrows DEF Inv, requestOnly
  <2>7. LoginInv'
    BY <2>1, <2>5, <2>6 DEF Inv, LoginInv, LoginTypeOK, requestOnly
  <2>8. RequestInv'
    <3>1. ASSUME NEW u \in Users, AskStart(u) PROVE RequestInv'
      BY <3>1 DEF Inv, RequestInv, Requests, RequestAt, AskStart, NoRequest
    <3>2. CASE ReadLogin
      BY <3>2 DEF Inv, RequestInv, Requests, RequestAt, ReadLogin
    <3>3. CASE ReadFeed
      BY <3>3 DEF Inv, RequestInv, Requests, RequestAt, ReadFeed, FeedInv, FeedTypeOK
    <3>4. CASE ReadPrices
      BY <3>4 DEF Inv, RequestInv, Requests, RequestAt, ReadPrices
    <3>5. CASE AwaitPrice
      BY <3>5 DEF Inv, RequestInv, Requests, RequestAt, AwaitPrice
    <3>6. CASE CommitStart
      BY <3>6 DEF Inv, RequestInv, Requests, RequestAt, CommitStart, NoRequest
    <3> QED BY <1>2, <3>1, <3>2, <3>3, <3>4, <3>5, <3>6
  <2> QED BY <2>2, <2>3, <2>4, <2>7, <2>8, SpentLoad DEF Inv
<1> QED BY <1>1, <1>2 DEF Start

LEMMA NextInv == Inv /\ [Next]_vars => Inv'
<1>1. ASSUME Inv, Next PROVE Inv'
  BY <1>1, ControlStep, HandleStep, MaintainStep, EndStep, AdapterKeeps, WalkKeeps, LoginsKeep,
     ServicesKeep, StartKeeps DEF Next
<1>2. ASSUME Inv, UNCHANGED vars PROVE Inv'
  BY <1>2, ControlUnchanged, LoginUnchanged, FeedUnchanged DEF vars, Inv, LoadOK, RequestInv
<1> QED BY <1>1, <1>2

\* The invariant is inductive: its four parts and the workload's.
THEOREM Invariant == Spec => []Inv
BY InitInv, NextInv, PTL DEF Spec

\* Every variable of the worker, the logins, the feed and the request keeps its
\* type.
THEOREM TypeCorrect == Spec => []TypeOK
<1>1. Inv => TypeOK
  BY DEF Inv, ControlInv, LoginInv, FeedInv, RequestInv, Requests, TypeOK
<1> QED BY <1>1, Invariant, PTL

\* The start gate of a live strategy reads a row that says "running" of the engine
\* of the process that runs, not of one before it.
THEOREM EngineToldAlways == Spec => []EngineTold
<1>1. Inv => EngineTold
  BY DEF Inv, ControlInv, Told
<1> QED BY <1>1, Invariant, PTL

\* Over any number of processes, up together or one after the other, a command
\* takes effect once at most unless the fallback of next_pending marked it after
\* another had taken it; an order has one job for each effect, and "completed"
\* means that it took effect.
THEOREM CommandOnceAlways == Spec => []CommandOnce
<1>1. Inv => CommandOnce
  BY DEF Inv, ControlInv, ControlTypeOK, Once, RowsOnce, CommandOnce
<1> QED BY <1>1, Invariant, PTL

\* The engine trades only with sessions the broker has accepted or issued since
\* the process began.
THEOREM SessionsCheckedAlways == Spec => []SessionsChecked
<1>1. Inv => SessionsChecked
  BY DEF Inv, LoginInv, Held, SessionsChecked
<1> QED BY <1>1, Invariant, PTL

\* A manager that has connected has no second provider's websocket open but a
\* late one.
THEOREM OneStreamAlways == Spec => []OneStream
<1>1. Inv => OneStream
  BY DEF Inv, FeedInv, Streams, OneStream
<1> QED BY <1>1, Invariant, PTL
=============================================================================
