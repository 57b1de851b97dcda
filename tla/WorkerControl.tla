--------------------------- MODULE WorkerControl ---------------------------
(***************************************************************************)
(* The trading worker process: its start-up (trading_worker_main.py), its  *)
(* control loop (trading_worker.py), the queue of commands an admin sends  *)
(* it and the one status row it reports in (control.py), and the deferred  *)
(* start of the strategy engine (exchangeload.py).                         *)
(*                                                                         *)
(* Three threads share the row: the main thread reports how the engine's   *)
(* start went, the loop reports that it lives, and every report is a $set  *)
(* of some fields, so each keeps what the other wrote in the rest.  A      *)
(* crash ends the three at any point; the row and the commands survive.    *)
(*                                                                         *)
(* In a rolling restart the process being replaced is still up.  Of such a *)
(* peer the module has the loop: the commands it takes, by the same two    *)
(* ways, and what its reports say of the worker.  Its logins, its feed and *)
(* its engine are its own and are left out.                                *)
(***************************************************************************)
EXTENDS Naturals, FiniteSets

CONSTANTS
  Commands,       \* the commands an admin sends in a behaviour
  NoCommand,      \* the loop has no command in hand
  Peers,          \* processes that are up beside the one modelled here
  Workloads       \* what may happen in a behaviour, see Workload

Kinds == {"stop", "start", "place_order", "relogin", "refresh_subscriptions", "other"}

(***************************************************************************)
(* A workload bounds what a behaviour may meet.  crashes: processes killed *)
(* or sent a signal; faults: database calls, engine starts and broker      *)
(* calls that fail; the other counts belong to the modules that extend     *)
(* this one.  kinds: the kinds of command sent; begun: whether the         *)
(* behaviour begins with a process that has come up; legacy and            *)
(* maintenance: the switches of the environment (the strategy engine, the  *)
(* worker's own logins and feed); window: whether strategies are inside    *)
(* their window and need a price to start; users: who may have a live      *)
(* strategy; paused, holding: whose live strategy, not opened, is paused,  *)
(* or still has a position; peers: the processes that are up beside.       *)
(***************************************************************************)
Budgets == {"commands", "crashes", "faults", "expiries", "reconnects", "drops", "starts"}
Switches == {"kinds", "users", "paused", "holding", "peers", "begun", "legacy",
             "maintenance", "window"}

ASSUME ControlAssumption ==
  /\ NoCommand \notin Commands
  /\ \A w \in Workloads : /\ Budgets \cup Switches \subseteq DOMAIN w
                          /\ w.kinds \subseteq Kinds /\ w.peers \subseteq Peers
                          /\ \A b \in Budgets : w[b] \in Nat

VARIABLES
  load,           \* what may still happen: [Budgets -> Nat] and the switches
  status,         \* the row of worker_status
  command,        \* the rows of worker_commands
  job,            \* how many jobs each command put in strategy_jobs
  handled,        \* history: how often each command was handled
  main,           \* where the main thread is
  engine,         \* DeferredTrader: the strategy engine of this process
  reported,       \* what the main thread is about to report of the engine
  loop,           \* where the loop is
  current,        \* the command the loop has taken
  stopping,       \* _stop_event
  quitting,       \* the engine's _shutdown_event
  peer,           \* the loops of the peers: where, with which command, told to stop
  retaken         \* history: the commands marked by somebody who had found them
                  \* pending, and no longer were

controlVars == <<status, command, job, handled, main, engine, reported,
                 loop, current, stopping, quitting, peer, retaken>>

States == {"unknown", "starting", "running", "degraded", "stopped"}
Engines == {"none", "starting", "running", "failed", "disabled"}
LoopAt == {"none", "hello", "top", "find", "mark", "handle", "complete", "work", "beat",
           "bye", "dead"}
MainAt == {"off", "begin", "hello", "spawn", "wait", "report", "giveup", "watch"}

Alive == loop \notin {"none", "dead"}

Spend(b) == load[b] > 0 /\ load' = [load EXCEPT ![b] = @ - 1]

Rows == [kind : Kinds \cup {"none"}, state : {"none", "pending", "processing", "completed", "failed"}]

ControlTypeOK ==
  /\ status \in [state : States, engine : Engines]
  /\ command \in [Commands -> Rows]
  /\ job \in [Commands -> Nat]
  /\ handled \in [Commands -> Nat]
  /\ main \in MainAt /\ engine \in Engines /\ reported \in Engines
  /\ loop \in LoopAt /\ current \in Commands \cup {NoCommand}
  /\ stopping \in BOOLEAN /\ quitting \in BOOLEAN
  /\ peer \in [Peers -> [at : LoopAt, has : Commands \cup {NoCommand}, stopping : BOOLEAN]]
  /\ retaken \subseteq Commands

\* A behaviour begins with no process, or with one that has come up; a peer has.
ControlInit ==
  /\ command = [c \in Commands |-> [kind |-> "none", state |-> "none"]]
  /\ job = [c \in Commands |-> 0] /\ handled = [c \in Commands |-> 0]
  /\ reported = "none" /\ current = NoCommand /\ stopping = FALSE /\ quitting = FALSE
  /\ peer = [p \in Peers |-> [at |-> IF p \in load.peers THEN "top" ELSE "none",
                              has |-> NoCommand, stopping |-> FALSE]]
  /\ retaken = {}
  /\ status = (IF load.begun \/ load.peers # {} THEN [state |-> "running", engine |-> "running"]
               ELSE [state |-> "unknown", engine |-> "none"])
  /\ IF load.begun THEN main = "watch" /\ engine = "running" /\ loop = "top"
                   ELSE main = "off" /\ engine = "none" /\ loop = "none"

(***************************************************************************)
(* The commands and the row (control.py).                                  *)
(***************************************************************************)

Enqueue(c) ==
  /\ command[c].state = "none" /\ Spend("commands")
  /\ \E k \in load.kinds : command' = [command EXCEPT ![c] = [kind |-> k, state |-> "pending"]]
  /\ UNCHANGED <<status, job, handled, main, engine, reported, loop, current,
                 stopping, quitting, peer, retaken>>

Heartbeat(state) == status' = [status EXCEPT !.state = state]

HeartbeatEngine(state, told) ==
  status' = [state |-> state, engine |-> told]

\* get_status calls the worker healthy when the row says "running" and is at most
\* ten seconds old.  The age is not kept: a row may be too old at any time, the
\* loop being busy, dead or between two reports.
MayBeHealthy == status.state = "running"

(***************************************************************************)
(* The main thread.  When it ends, the other threads, all daemons, end     *)
(* with it.                                                                *)
(***************************************************************************)

mainOnly == UNCHANGED <<command, job, handled, current, quitting, peer, retaken>>

Launch ==
  /\ main = "off" /\ main' = "begin"
  /\ UNCHANGED <<load, status, engine, reported, loop, stopping>> /\ mainOnly

\* The engine is built in a thread of its own; what cannot even be begun is
\* marked unavailable.
StartTrader ==
  /\ main = "begin" /\ main' = "hello"
  /\ \/ ~load.legacy /\ engine' = "disabled" /\ UNCHANGED load
     \/ load.legacy /\ engine' = "starting" /\ UNCHANGED load
     \/ load.legacy /\ engine' = "failed" /\ Spend("faults")
  /\ UNCHANGED <<status, reported, loop, stopping>> /\ mainOnly

\* As a first heartbeat that leaves strategy_engine as the last process left it.
FirstHeartbeatKeeps ==
  /\ main = "hello" /\ main' = "spawn"
  /\ IF engine = "disabled" THEN HeartbeatEngine("running", "disabled")
                            ELSE Heartbeat("starting")
  /\ UNCHANGED <<load, engine, reported, loop, stopping>> /\ mainOnly

FirstHeartbeat ==
  /\ main = "hello" /\ main' = "spawn"
  /\ IF engine = "disabled" THEN HeartbeatEngine("running", "disabled")
                            ELSE HeartbeatEngine("starting", "starting")
  /\ UNCHANGED <<load, engine, reported, loop, stopping>> /\ mainOnly

StartLoop ==
  /\ main = "spawn" /\ main' = (IF engine = "disabled" THEN "watch" ELSE "wait")
  /\ loop' = "hello"
  /\ UNCHANGED <<load, status, engine, reported, stopping>> /\ mainOnly

EngineUp ==
  /\ engine = "starting" /\ engine' = "running"
  /\ UNCHANGED <<load, status, main, reported, loop, stopping>> /\ mainOnly

EngineFails ==
  /\ engine = "starting" /\ engine' = "failed" /\ Spend("faults")
  /\ UNCHANGED <<status, main, reported, loop, stopping>> /\ mainOnly

\* wait_ready returns when the engine is up or has failed, or after 180 s; one
\* still starting then is reported as failed.
WaitReady ==
  /\ main = "wait" /\ main' = "report"
  /\ \/ engine \in {"running", "failed"} /\ reported' = engine /\ UNCHANGED load
     \/ engine = "starting" /\ reported' = "failed" /\ Spend("faults")
  /\ UNCHANGED <<status, engine, loop, stopping>> /\ mainOnly

Report ==
  /\ main = "report"
  /\ IF reported = "running"
     THEN HeartbeatEngine("running", reported) /\ main' = "watch" /\ UNCHANGED stopping
     ELSE HeartbeatEngine("degraded", reported) /\ main' = "giveup" /\ stopping' = TRUE
  /\ UNCHANGED <<load, engine, reported, loop>> /\ mainOnly

\* After SIGTERM or SIGINT the handler stops an engine that is up and the
\* loop; the main thread then goes on where it was.
Signal ==
  /\ main \in {"spawn", "wait", "report", "watch"} /\ Spend("crashes")
  /\ stopping' = TRUE /\ quitting' = (quitting \/ engine = "running")
  /\ UNCHANGED <<status, command, job, handled, main, engine, reported, loop, current,
                 peer, retaken>>

\* What the end of the process leaves of it.
Gone ==
  /\ main' = "off" /\ engine' = "none" /\ reported' = "none" /\ loop' = "none"
  /\ current' = NoCommand /\ stopping' = FALSE /\ quitting' = FALSE
  /\ UNCHANGED <<status, command, job, handled, peer, retaken>>

\* The main thread ends when the loop has, or, when the engine failed, after
\* having waited five seconds for the loop.
Exit ==
  /\ main = "giveup" \/ (main = "watch" /\ ~Alive)
  /\ Gone /\ UNCHANGED load

Crash == main # "off" /\ Spend("crashes") /\ Gone

(***************************************************************************)
(* The loop.                                                               *)
(***************************************************************************)

loopOnly == UNCHANGED <<main, engine, reported, quitting, peer, retaken>>

Hello ==
  /\ loop = "hello" /\ loop' = "top" /\ Heartbeat("running")
  /\ UNCHANGED <<load, command, job, handled, current, stopping>> /\ loopOnly

NonePending == \A c \in Commands : command[c].state # "pending"
SetState(c, state) == command' = [command EXCEPT ![c].state = state]
Takes(c) == command[c].state = "pending" /\ SetState(c, "processing")

\* As a next_pending that leaves the mark to complete.
NextPendingUnmarked ==
  /\ loop = "top" /\ UNCHANGED command
  /\ \/ stopping /\ loop' = "bye" /\ UNCHANGED current
     \/ ~stopping /\ NonePending /\ loop' = "find" /\ UNCHANGED current
     \/ /\ ~stopping
        /\ \E c \in Commands : command[c].state = "pending" /\ current' = c /\ loop' = "handle"
  /\ UNCHANGED <<load, status, job, handled, stopping>> /\ loopOnly

\* As a loop that runs on whatever the stop event says.
NextPendingAlways ==
  /\ loop = "top"
  /\ \/ NonePending /\ loop' = "find" /\ UNCHANGED <<command, current>>
     \/ \E c \in Commands : Takes(c) /\ current' = c /\ loop' = "handle"
  /\ UNCHANGED <<load, status, job, handled, stopping>> /\ loopOnly

\* As a loop that looks for commands only with the strategy engine up.
NextPendingGated ==
  /\ loop = "top"
  /\ \/ stopping /\ loop' = "bye" /\ UNCHANGED <<command, current>>
     \/ ~stopping /\ engine # "running" /\ loop' = "work" /\ UNCHANGED <<command, current>>
     \/ ~stopping /\ engine = "running" /\ NonePending /\ loop' = "find" /\ UNCHANGED <<command, current>>
     \/ /\ ~stopping /\ engine = "running"
        /\ \E c \in Commands : Takes(c) /\ current' = c /\ loop' = "handle"
  /\ UNCHANGED <<load, status, job, handled, stopping>> /\ loopOnly

\* next_pending takes a command and marks it in one operation; ...
NextPending ==
  /\ loop = "top"
  /\ \/ stopping /\ loop' = "bye" /\ UNCHANGED <<command, current>>
     \/ ~stopping /\ NonePending /\ loop' = "find" /\ UNCHANGED <<command, current>>
     \/ ~stopping /\ \E c \in Commands : Takes(c) /\ current' = c /\ loop' = "handle"
  /\ UNCHANGED <<load, status, job, handled, stopping>> /\ loopOnly

\* ... having found none it looks again, ...
FindPending ==
  /\ loop = "find"
  /\ \/ NonePending /\ loop' = "work" /\ UNCHANGED current
     \/ \E c \in Commands : command[c].state = "pending" /\ current' = c /\ loop' = "mark"
  /\ UNCHANGED <<load, status, command, job, handled, stopping>> /\ loopOnly

Retake(c) == retaken' = (IF command[c].state = "pending" THEN retaken ELSE retaken \cup {c})

\* ... and what it then finds it marks by its id, whatever became of it.
MarkPending ==
  /\ loop = "mark" /\ loop' = "handle"
  /\ SetState(current, "processing") /\ Retake(current)
  /\ UNCHANGED <<load, status, job, handled, current, stopping, main, engine, reported,
                 quitting, peer>>

\* What handle_command does here; the login of relogin and the sweep of
\* refresh_subscriptions follow in the modules of the broker and the feed.
TakesEffect(c) ==
  /\ handled' = [handled EXCEPT ![c] = @ + 1]
  /\ job' = [job EXCEPT ![c] = IF command[c].kind = "place_order" THEN @ + 1 ELSE @]

HandleCommand ==
  /\ loop = "handle" /\ loop' = "complete" /\ TakesEffect(current)
  /\ stopping' = (stopping \/ command[current].kind = "stop")
  /\ UNCHANGED <<load, status, command, current>> /\ loopOnly

Complete ==
  /\ loop = "complete" /\ loop' = "work" /\ current' = NoCommand
  /\ SetState(current, "completed")
  /\ UNCHANGED <<load, status, job, handled, stopping>> /\ loopOnly

\* An exception, in the handler or in complete itself, marks the command failed.
HandleFails ==
  /\ loop \in {"handle", "complete"} /\ Spend("faults")
  /\ loop' = "work" /\ current' = NoCommand
  /\ SetState(current, "failed")
  /\ UNCHANGED <<status, job, handled, stopping>> /\ loopOnly

\* process_strategy_jobs (StrategyJobs) and the report that ends a round, ...
Work ==
  /\ loop = "work" /\ loop' = "top" /\ Heartbeat("running")
  /\ UNCHANGED <<load, command, job, handled, current, stopping>> /\ loopOnly

\* ... which wait for the maintenance when that is due.
Maintenance ==
  /\ loop = "work" /\ load.maintenance /\ loop' = "beat"
  /\ UNCHANGED <<load, status, command, job, handled, current, stopping>> /\ loopOnly

Beat ==
  /\ loop = "beat" /\ loop' = "top" /\ Heartbeat("running")
  /\ UNCHANGED <<load, command, job, handled, current, stopping>> /\ loopOnly

Bye ==
  /\ loop = "bye" /\ loop' = "dead" /\ Heartbeat("stopped")
  /\ UNCHANGED <<load, command, job, handled, current, stopping>> /\ loopOnly

\* An exception outside the handling of a command ends the thread and tells
\* nobody: the row keeps saying "running".
LoopDies ==
  /\ loop \in {"hello", "top", "find", "mark", "work", "beat", "bye"} /\ Spend("faults")
  /\ loop' = "dead"
  /\ UNCHANGED <<status, command, job, handled, current, stopping>> /\ loopOnly

(***************************************************************************)
(* The loop of a peer.  A stop, by command or by signal, ends the process  *)
(* that took it.                                                           *)
(***************************************************************************)

peerOnly == UNCHANGED <<main, engine, reported, loop, current, stopping, quitting>>

Moves(p, at, c) == peer' = [peer EXCEPT ![p] = [@ EXCEPT !.at = at, !.has = c]]

PeerLooks(p) ==
  /\ \/ /\ peer[p].at = "top" /\ peer[p].stopping
        /\ Moves(p, "bye", NoCommand) /\ UNCHANGED command
     \/ /\ peer[p].at = "top" /\ ~peer[p].stopping /\ NonePending
        /\ Moves(p, "find", NoCommand) /\ UNCHANGED command
     \/ /\ peer[p].at = "top" /\ ~peer[p].stopping
        /\ \E c \in Commands : Takes(c) /\ Moves(p, "handle", c)
     \/ /\ peer[p].at = "find" /\ UNCHANGED command
        /\ \/ NonePending /\ Moves(p, "work", NoCommand)
           \/ \E c \in Commands : command[c].state = "pending" /\ Moves(p, "mark", c)
  /\ UNCHANGED <<load, status, job, handled, retaken>> /\ peerOnly

PeerMarks(p) ==
  LET c == peer[p].has IN
  /\ peer[p].at = "mark" /\ Moves(p, "handle", c)
  /\ SetState(c, "processing") /\ Retake(c)
  /\ UNCHANGED <<load, status, job, handled>> /\ peerOnly

PeerHandles(p) ==
  LET c == peer[p].has IN
  /\ peer[p].at = "handle" /\ TakesEffect(c)
  /\ \/ /\ command[c].kind = "stop"
        /\ peer' = [peer EXCEPT ![p] = [@ EXCEPT !.at = "complete", !.stopping = TRUE]]
     \/ command[c].kind # "stop" /\ Moves(p, "complete", c)
  /\ UNCHANGED <<load, status, command, retaken>> /\ peerOnly

PeerCompletes(p) ==
  /\ \/ peer[p].at = "complete" /\ SetState(peer[p].has, "completed") /\ UNCHANGED load
     \/ peer[p].at \in {"handle", "complete"} /\ SetState(peer[p].has, "failed") /\ Spend("faults")
  /\ Moves(p, "work", NoCommand)
  /\ UNCHANGED <<status, job, handled, retaken>> /\ peerOnly

PeerReports(p) ==
  /\ \/ peer[p].at = "work" /\ Heartbeat("running") /\ Moves(p, "top", NoCommand)
     \/ peer[p].at = "bye" /\ Heartbeat("stopped") /\ Moves(p, "dead", NoCommand)
  /\ UNCHANGED <<load, command, job, handled, retaken>> /\ peerOnly

\* A signal, or the end of the process wherever its loop is.
PeerEnds(p) ==
  /\ peer[p].at \notin {"none", "dead"} /\ Spend("crashes")
  /\ peer' = [peer EXCEPT ![p].stopping = TRUE] \/ Moves(p, "dead", NoCommand)
  /\ UNCHANGED <<status, command, job, handled, retaken>> /\ peerOnly

PeerStep(p) ==
  PeerLooks(p) \/ PeerMarks(p) \/ PeerHandles(p) \/ PeerCompletes(p) \/ PeerReports(p) \/ PeerEnds(p)

(***************************************************************************)
(* The main thread's own steps.                                            *)
(***************************************************************************)

MainStep == StartTrader \/ FirstHeartbeat \/ StartLoop \/ WaitReady \/ Report

----------------------------------------------------------------------------

(***************************************************************************)
(* Once a process has made its first report, a row that says the strategy  *)
(* engine runs says so of the engine of this process: what the last        *)
(* process left in the field cannot come back to life through the reports  *)
(* of the loop, which say "running" of the worker while its engine still   *)
(* starts.  This is what the gate of api_start_ssalgo relies on.           *)
(***************************************************************************)
EngineTold ==
  main \notin {"off", "begin", "hello"} /\ status.engine = "running" =>
    engine = "running"

(***************************************************************************)
(* Over all the processes that may be up together or die with a command in *)
(* hand, a command takes effect at most once, unless somebody marked it by *)
(* its id after another had taken it: the fallback of next_pending is the  *)
(* only way to a second effect.  One reported completed has taken effect,  *)
(* and an order has put in the queue one job for each effect it took.      *)
(***************************************************************************)
CommandOnce ==
  \A c \in Commands :
    /\ handled[c] > 1 => c \in retaken
    /\ job[c] = (IF command[c].kind = "place_order" THEN handled[c] ELSE 0)
    /\ command[c].state = "completed" => handled[c] >= 1

(***************************************************************************)
(* A stop, by command or by signal, ends the process however long the      *)
(* queue of commands is; and a worker that stays up takes every command in *)
(* the end, its strategy engine up or not.                                 *)
(***************************************************************************)
StopEnds == stopping ~> ~stopping

CommandsTaken ==
  \A c \in Commands :
    <>[]Alive => (command[c].state = "pending" ~> command[c].state # "pending")
=============================================================================
