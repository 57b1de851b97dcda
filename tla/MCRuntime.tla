----------------------------- MODULE MCRuntime -----------------------------
(***************************************************************************)
(* The trading runtime on a chain of two providers, Upstox, whose connect  *)
(* waits, and Zerodha, whose does not, with one user of each of the        *)
(* three kinds of broker.  A workload is one story; the run explores them  *)
(* all.                                                                    *)
(***************************************************************************)
EXTENDS Runtime, TLC

MCChain == <<"upstox", "zerodha">>

\* One engine up, and nothing happens.
Quiet == [b \in Budgets |-> 0]
         @@ [users |-> {}, paused |-> {}, holding |-> {}, peers |-> {}, kinds |-> {},
             begun |-> TRUE, legacy |-> TRUE, maintenance |-> FALSE, window |-> TRUE]

\* Commands, crashes, signals, and starts of the engine that fail; no engine.
Controlled ==
  {[Quiet EXCEPT !.begun = FALSE, !.commands = 2, !.kinds = {"stop", "place_order"},
                 !.crashes = 1],
   [Quiet EXCEPT !.begun = FALSE, !.commands = 1, !.kinds = {"stop", "place_order"},
                 !.crashes = 1, !.faults = 1],
   [Quiet EXCEPT !.begun = FALSE, !.commands = 1, !.kinds = {"other"}, !.crashes = 1,
                 !.legacy = FALSE]}

\* A rolling restart: the process being replaced still takes commands.
Replaced ==
  {[Quiet EXCEPT !.peers = {"old"}, !.commands = 2, !.kinds = {"stop", "place_order"}],
   [Quiet EXCEPT !.peers = {"old"}, !.begun = FALSE, !.commands = 1, !.kinds = {"place_order"},
                 !.crashes = 1],
   [Quiet EXCEPT !.peers = {"old"}, !.commands = 1, !.kinds = {"place_order"}, !.faults = 1]}

\* Two users at once; one user, and sessions that expire, calls that fail, a
\* crash, the worker's own login, also beside a reconnect.
LoggedIn ==
  {[Quiet EXCEPT !.users = {"alice", "dhan"}],
   [Quiet EXCEPT !.users = {"mstock", "dhan"}],
   [Quiet EXCEPT !.users = {"mstock"}, !.paused = {"mstock"}, !.faults = 1],
   [Quiet EXCEPT !.users = {"alice"}, !.expiries = 1],
   [Quiet EXCEPT !.users = {"alice"}, !.reconnects = 1],
   [Quiet EXCEPT !.users = {"alice"}, !.faults = 1],
   [Quiet EXCEPT !.users = {"mstock"}, !.crashes = 1],
   [Quiet EXCEPT !.users = {"alice"}, !.commands = 1, !.kinds = {"relogin"}],
   [Quiet EXCEPT !.users = {"alice"}, !.holding = {"alice"}, !.begun = FALSE,
                 !.legacy = FALSE, !.commands = 1, !.kinds = {"relogin"}, !.reconnects = 1, !.faults = 1]}

\* A service that drops, a call that fails; the sweep asked for by command.
Fed ==
  {[Quiet EXCEPT !.users = {"dhan"}, !.maintenance = TRUE, !.drops = 1],
   [Quiet EXCEPT !.users = {"dhan"}, !.maintenance = TRUE, !.faults = 1],
   [Quiet EXCEPT !.users = {"dhan"}, !.commands = 1, !.kinds = {"refresh_subscriptions"},
                 !.begun = FALSE, !.legacy = FALSE, !.faults = 1, !.drops = 1]}

\* A start request while the worker comes up or crashes, a call of its walk
\* fails, or the worker feeds; outside the window.
Starting ==
  {[Quiet EXCEPT !.users = {"dhan"}, !.begun = FALSE, !.starts = 1, !.crashes = 1],
   [Quiet EXCEPT !.users = {"dhan"}, !.starts = 1, !.faults = 1],
   [Quiet EXCEPT !.users = {"dhan"}, !.starts = 1, !.maintenance = TRUE],
   [Quiet EXCEPT !.users = {"alice"}, !.starts = 1, !.window = FALSE]}

MCWorkloads == Controlled \cup Replaced \cup LoggedIn \cup Fed \cup Starting
=============================================================================
