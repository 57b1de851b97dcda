# TLA+ models of the ssAlgo backend

The repository is a trading backend: a web process (`fastapi_app:app`) through which users manage
strategies, and a worker process (`python -m app.workers.trading_worker_main`) that evaluates the
strategies, sends orders to brokers and keeps the positions. They share nothing but MongoDB.
No write of either process is in a transaction, most are built from documents read earlier, and
real money moves between two of them. These models are about what can go wrong there.

## Inventory

| component | code | state | operations | talks to |
|---|---|---|---|---|
| strategy engine, Algo 143 options | `connectors/exchange.py` `_datascript`, `process_strategy`, `EMA`, `OBUY`, `OSELL`, `OBUYEXIT`, `OSELLEXIT` | `strategies` (status, position, entry_order_state, lifecycle_revision), `Opositions` | one round: read, exit, claim, recheck, order, record, settle | brokers; every other writer of the two collections |
| position refresher | `_positionshold`, `_refresh_open_opositions_snapshot` | copies of the open rows | repair of `position`, exit marks, whole-row write-back | the same two collections |
| subscription sweep | `_stopnotsubusers` | a list of strategies | find, then pause | `strategies` |
| strategy lifecycle API | `app/api/legacy_compat/strategies.py`, `dashboard.py`, `common.py` | none of its own | start, stop, delete, edit, exit one position; admin forms | both collections |
| worker process | `app/workers/trading_worker_main.py` | threads | start-up repair, start, crash, shutdown | the loops above |
| order job queue and worker | `app/workers/trading_worker.py` | `strategy_jobs` (pending, processing, completed, failed) | enqueue, claim, check, place, complete | risk control, adapters, `strategies` |
| risk control | `app/domain/risk/service.py` | `risk_settings` | `check_order`: kill switch, idempotency key, daily limits | `strategy_jobs`, `normalized_orders`, `Opositions` |
| order lifecycle | `app/domain/orders/lifecycle.py` | `normalized_orders` and their events | create, transition, cancel | adapters, order API |
| broker adapters of the worker | `app/domain/brokers/adapters/*.py` | sessions | login, place, cancel | brokers |
| worker control | `app/workers/control.py`, `trading_worker.py`, `trading_worker_main.py` | `worker_commands`, `worker_status` | start of loop and engine, enqueue, claim, handle, complete, heartbeat, stop, healthy test | API, engine, adapters, feed |
| broker logins | `exchange.py` `_login_*`, `_process_broker_relogins`, `app/api/fastapi_routers.py`, `adapters/aliceblue.py` | `userloggedin`, clients, rows of `apis`, `broker_health` | first login, relogin loop, refresh, reconnect, rejection, adapter login | brokers, start requests |
| market data feed | `app/domain/market_data/*.py` | websockets, active provider, prices, health rows | walk the provider chain, connect, wait, subscribe, switch, snapshot | price services, worker loop, start requests |
| fractal time hedge | `exchange.py` `FRACTALNUBIATIMEHEDGEORDER`, `common.py`, `fastapi_routers.py` | locks, entry and exit states, order ids in strategy and row | enter leg by leg, exit leg by leg, postbacks, reset | brokers, refresher |
| index futures of Algo 143 | `FBUY`, `FSELL`, `FEXIT` | as the options | the same without the claim; slices of large lots | brokers |
| equities, commodities | `EQSSALGO`, `EBUY`, `EBUYEXIT`; `MCXSTRATEGY` and its helpers | the same collections | one position per symbol; at most so many rows a day | brokers |
| pure rules | `exchange.py` | none | signals, exit levels, lot progression, market windows | engine |
| other strategy families, accounts, payments, reports, vendored SDKs | see `PROJECT.json` | | | |

What is hard here:

* **Stale whole-document writes.** A finished exit writes the strategy document it read at the
  start of the round; the refresher and the exit loop write whole rows they read earlier.
* **Orders between two writes.** A broker call sits between "attempted" and the row: exceptions,
  lost replies and crashes leave an order nobody recorded.
* **Lifecycle changes during a round.** Stop, delete, edit and the sweep commit at any point of it.
* **Partial exits and retries.** An exit is repeated until the row is closed, from the quantity the
  row says is left.
* **Limits and keys that are read, then acted on** in the job queue, with a job left in
  "processing" by a crash.
* **One exit order per leg.** A hedge is squared off leg by leg, by an engine that may die between
  two legs, under locks in a row that two other writers overwrite.
* **Threads that share a list and a session**: the login threads replace and append to one list of
  users, and engine, reconnect and worker adapter save each the session it knows.
* **Reports that another process acts on**: a start is refused or allowed by what worker, logins
  and feed last wrote of themselves.

What makes each part correct: no unit the account holds is forgotten; an order of a superseded
strategy never leaves; one live exposure per strategy; a stopped strategy ends flat; only the
engine resolves an entry it attempted (engine, refresher, sweep, API, worker). At most one accepted
order per idempotency key, no order for a stopped strategy, every job eventually resolved (queue,
risk). A finished order does not come back (order lifecycle). A command takes effect once, a row that says
"running" is true of the engine (control). Whoever the engine trades for has a session the broker
accepted; whoever can be logged in is, in the end (logins). One websocket streams, and prices
return when a provider works (feed). Each leg is squared off once, and a closed hedge is flat
(hedge).
The hazards, each at its line and with the property that catches it, are in `PROJECT.json`.

## Plan

1. **`AlgoStrategy`** (done): the strategy document and its rows between engine, refresher, sweep,
   requests and crashes, one MongoDB operation or broker call per action; `AlgoStrategyProofs`.
2. **`StrategyJobs`** (done): `strategy_jobs`, the order documents the daily limit counts, and the
   strategy status, between the API, overlapping workers and their deaths; `check_order` is split
   where it reads a collection. Abstract specification **`OrderOnce`** (done), refined by
   `StrategyJobs`; `StrategyJobsProofs`.
3. **`WorkerControl`**, **`BrokerLogins`**, **`MarketFeed`** (done): one module for each part of the
   running worker; **`Runtime`** (done) composes them with the request that starts a strategy, which
   reads what the three report; `RuntimeProofs`.
4. **`FractalHedge`** (done): the hedge, leg by leg, between the order loop, the refresher,
   postbacks, resets and crashes; `FractalHedgeProofs`.
5. **`DirectEntries`** (done): what the strategies without the claim share, and on top of it
   **`FuturesStrategy`**, **`EquityStrategy`**, **`McxStrategy`**, composed in
   **`DirectStrategies`**; `DirectProofs`.
6. **`AlgoRules`**: signals, exit levels, lot progression and market windows as operators. Left.
7. The composition of `StrategyJobs` with the lifecycle of `AlgoStrategy`, and an abstract
   specification of exposure (recorded, in flight or lost) that `AlgoStrategy` and
   `DirectStrategies` both implement. Left.

## AlgoStrategy

One EMA strategy on options (no `onspot`). Variables and the code:

| variable | code |
|---|---|
| `strat` | the `strategies` document: `status`, `position`, `entry_order_state` ("none" = absent), `lifecycle_revision` |
| `rows` | the `Opositions` documents by entry order: `status`, `decision`, remaining net quantity (`_open_position_quantity`) |
| `live` | `trade['live']`: broker account or paper (one of `Accounts`); constant, see below |
| `held`, `issued` | the broker account: units held from each accepted entry order (negative: short), orders accepted |
| `lost`, `crashed` | history: orders the records lose units of, and those lost by a crash |
| `pc`, `snap`, `mem`, `todo`, `fill`, `flag` | the engine thread: position in the code, `trade`/`config`, `trades` and the rows left to visit, `filled_quantity`, the new row's `decision` |
| `rpc`, `rcopy`, `rtodo` | the refresher: position, rows read, rows left |
| `sweep`, `req` | the sweep, and each web request between two of its operations; a start keeps the failed entry state it read (`saw`), an edit the status and position |
| `superseded` | history: a lifecycle change committed since `snap` was in the database |
| `undone` | history: kinds of stale writes that undid a newer one: a start over a newer entry, an edit that takes an "in" strategy out, a row written back open after its exit |

Actions are grouped as in the code. *Engine*: `Load` (the query `status opened or position in` and
the re-read), exit path `FindOpen`, `SetOut`, `KeepOpen`, `ExitOrder`, `ExitAcknowledged`,
`ExitRaises`, `SaveExitRow`, `KeepPositionIn`, `SaveConfig`, entry path `Claim`, `MarkAttempted`,
`CheckCurrent`, `Release`, `BrokerAccepts`, `BrokerRejects`, `SettleRefused`, `BuildRow`,
`InsertRow`, `Settle`, and the handlers of exceptions `EntryRaises`, `OrderRaises`, `ReplyLost`,
`PriceRaises`, `EntryFailed`. *Refresher*: `Scan`, `ReadStrategy`, `RepairPosition`, `WriteBack`,
`SkipRow`. *Requests*: `Retire` (stop, delete) then `MarkExit`; `ReadToStart` then `CommitStart`;
`ReadToEdit` then `CommitEdit`; `ExitPosition`; `RequestDies`. *Sweep*: `SweepFind`, `SweepPause`.
*Process*: `Crash`, `CrashInCall`, `Restart`.

`OBUY` and `OSELL` differ in the option they pick and the broker request they build, `OBUYEXIT` and
`OSELLEXIT` in the sign of the prices: each pair is one set of actions. One round of `_datascript`
visits each strategy once and joins its threads before the next, so a strategy has one engine
thread. A partial entry fill is recorded as reported; a reported fill of an exit is capped by the
quantity asked for (`_apply_exit_fill`), so `k` runs up to the remaining quantity.

What the environment may do is named in `Faults`: `raise` (an exception before the broker accepts),
`lost_reply` (accepted, the call raises), `quote` (no market price after the acceptance),
`unreported` (an answer that does not say what was filled). Requests and loops that run are named in
`Ops`.

`live` is constant. An edit may change the strategy's flag, but a row keeps the one it was opened
with and exits by it (`exchange.py:9359`, 9875), so that a change is seen by the next entry only.
`Restart` is one step although the start-up repair finds, counts and updates: it is over before the
engine and the refresher run, and its update repeats its condition on the document, so that only
a row inserted meanwhile could tell, which nobody but the engine inserts.

Left to choice or out: signals, prices, exit levels, lots and market windows (the model enters,
exits and waits whenever it likes, which is more than the code does); the time of the retry delay
after `preflight_failed`; failures of MongoDB itself; fills that arrive after an answer "pending";
how each broker's request and answer is formatted (`Buy`, `Sell` and the crash are external).

### Runs of AlgoStrategy

| run | instance | shows |
|---|---|---|
| `core` | 1 order of 2 units, broker account and paper, every operation and fault, 2 lifecycle changes, 1 crash | `TypeOK`, `ExposureTracked`, `NoSupersededOrder` |
| `single` | 2 orders of 1 unit on a broker account, 2 requests at a time, start, stop, refresher, exceptions before acceptance, 4 lifecycle changes, 1 crash | `SingleExposure`, `CrashedEntryBlocks`, `OwnOutcome` |
| `flat` | 1 order of 2 units, stop, edit, refresher, exceptions and lost replies, 1 crash | `StoppedGoesFlat` under `FairSpec` |
| `duplicate` | 2 orders, a quote fails after an acceptance | `NoDuplicateEntry` violated |
| `restopped` | stop during an exit | `StoppedStaysStopped` violated |
| `remaining` | refresher against an exit | `RemainingNetPreserved` violated |
| `confirmed` | an exit answer without quantity | `ClosedIsFlat` violated |

Bounds. Two units make a partial fill possible on entry and on exit. One entry order is enough for
what relates one order to the documents; `single` has two, the number its invariant is about. Two
lifecycle changes are a stop and a start inside one round, or a stop that a stale write reverts.
One crash reaches every point of the engine. `MaxShort` lets `flat` and `remaining` sell the account
one unit further than it holds, which happens when a lost reply or a stale row makes an exit be
sent twice; in `core` such an exit is left out, and the proof of its properties covers it.

`single` is about a start that read a failure and commits late. That takes two requests at a time
(both read the failed entry, one opens the strategy, the engine attempts the next entry) and four
lifecycle changes (the start of the failed entry, a stop, the first of the two starts, another stop,
which lets the second one pass its condition). The two requests are interchangeable: `single`
declares symmetry over them, which is sound as all its properties are safety. Faults after
acceptance are left out because `duplicate` shows what they do, edits and the other requests for
size: the proof covers them. Order numbers are ordered, so no other run of the module declares
symmetry.

Two hazards are in no run of the module with all that they need: rows behind rows with every fault
(`core` has one entry), and the sweep next to two entries (`single` has no sweep). There the
theorems alone cover `ExposureTracked` and `SingleExposure`.

Deadlock is checked in the passing runs. The four violation runs switch it off, since they bound
what the system may still do and are about one property each.

Fairness (`FairSpec`). The engine and refresher loops run until shutdown, each round on a thread of
its own, hence weak fairness of `Engine` and of `Refresher`. The platform starts a dead worker again
(`Procfile`), hence weak fairness of `Restart`; crashes are bounded, so the worker dies finitely
often. Strong fairness of a complete exit: an exit that is tried again and again is not refused or
half filled for ever. Nothing is assumed of users: the property speaks of strategies that stay
stopped (`<>[](status # "opened")`).

### Findings of AlgoStrategy

* **A failure after acceptance is a "preflight failure"** (`duplicate`). The quote for the new row
  is read after the order was accepted (`exchange.py:9322`); if it raises, the handler at 9418 takes
  the strategy out with `preflight_failed`, and the next signal enters again
  (`NoDuplicateEntry`, which is the guide's sentence without conditions). The guide
  (`docs/algorithm-143-end-to-end.md:503`) says the entry state prevents duplicate live entries.
* **A finished exit reverts a stop** (`restopped`). `{'$set': config}` at 9939 writes status and
  revision as they were when the round began.
* **The refresher undoes a fill** (`remaining`). The row written back at 2545 holds the quantities
  read before the exit, so a filled quantity is owed again. The guide (427) says the remaining net
  quantity is preserved.
* **Three stale writes lift the guard of an entry**: a start that read a failed entry and commits
  after the next attempt clears the new entry's state (`legacy_compat/strategies.py:483` to 506), an
  edit writes the position it read (line 189) over an entry that settled meanwhile, and the
  refresher reopens a row whose exit finished (2545). They are the exceptions of
  `CrashedEntryBlocks`, `OwnOutcome` and `SingleExposure`, recorded in `undone`; the theorems below
  say there is no other.
* **An exit without a quantity counts as complete** (`confirmed`). `_execute_exit_for_open_quantity`
  falls back on the quantity asked for; the guide (432) closes a row on a fully confirmed exit only.

### Proofs (`AlgoStrategyProofs`)

For every number and size of entry orders, every set of requests, operations and faults, and all
bounds, from `BoundsAssumption` alone:

* `Invariance`: `Spec => []IInv`,
* `TypeCorrect`: `Spec => []TypeOK`,
* `ExposureIsTracked`: `Spec => []ExposureTracked`,
* `OrdersAreCurrent`: `Spec => NoSupersededOrder`,
* `EntryInvariance`: `Spec => []EntryInv`,
* `DeadEntriesBlock`: `Spec => []CrashedEntryBlocks`,
* `OutcomesAreOwn`: `Spec => OwnOutcome`,
* `ExposureIsSingle`: `Spec => []SingleExposure`.

`IInv == TypeOK /\ RowsInv /\ InFlight /\ RowlessUnits /\ Revisions`.
`ExposureTracked` alone is not inductive: rows are overwritten by the engine's and the refresher's
copies. `RowsInv` therefore says of the document and of both copies that a row asks for at least
what is still held (`Covered`: a fill lowers what is held, and copies only lag behind), that a closed
row asks for nothing (`Closed`), that an order not yet accepted has no row (`Fresh`), and that the
loops visit rows they read (`Visiting`). `InFlight` ties the recorded fill to the account between
acceptance and row; `RowlessUnits` says units without a row are in flight or lost. `Revisions` says
that the engine's copy is never newer than the document and is older once superseded, which makes
the comparison of revisions in `StillCurrent` decisive: with the revision equal, nothing superseded
the copy.

The proof has one lemma per part of the state (`StrategyStep`, `RowsStep`, `BrokerStep`,
`EngineStep`, `RefresherStep`, `OthersStep`) for the types and one per conjunct of `IInv`, each by
cases on the actions that can disturb it.

The last three need a second invariant, `EntryInv`, on top of `IInv`: what the entry state says of
the order in flight, and who may be in its way.

* `AttemptSeen`: between the read and the claim the engine's copy knows of an attempt that the
  document records, because only the engine attempts. So no whole-document write of an exit clears
  one: `SaveConfig` writes "attempted" back (`OutcomesAreOwn`).
* `AttemptMarked`: from the recheck to the settled row the document says "attempted", as long as no
  stale start took it back. `DeadAttempt`: after a death that took an order along it says so for
  ever, and the engine stays in front of `EntryBlocked` (`DeadEntriesBlock`). The steps to look
  at are the start-up repair, which leaves an attempted entry alone, and the handlers of exceptions,
  which a restarted engine reaches only past `EntryBlocked`.
* `OneOpen`: one row is open at most; an open row has the strategy "in" or the entry blocked; no row
  is open where an order is on its way or where the exit path takes the strategy out. The claim
  alone does not give this: it asks for position "out", and what has to be shown is that the
  position never goes "out" over an open row, which is `KeepPositionIn` after a partial exit, the
  refresher's repair, and every whole-document write. `Refreshing` is the part about the
  refresher's copies.
* `Solo`: at a death that loses an order nothing else is held (`OneHeld`), and nothing is bought
  after it. With `OneOpen` and `RowsInv` of the first invariant this is `ExposureIsSingle`.

`OneOpen` and `Solo` hold up to `undone = {}`, and none of its three kinds can be dropped: TLC finds
two exposures after an edit alone (two entries), after a start alone (three entries, two requests)
and after a reopened row alone (three entries, `MaxShort` 1). `OwnOutcome` and `SingleExposure`
were first stated without these exceptions, as the bounds of their runs did not reach them: the
proofs failed at the commit of a start and at the write-back of a row, and TLC confirmed both on
larger instances.

Only model-checked: `StoppedGoesFlat` (liveness under fairness is outside TLAPS).

## StrategyJobs and OrderOnce

The queue of one user with one strategy. A request becomes a `strategy_jobs` document, a worker
claims it, checks it, sends its order through an adapter and completes it.

| variable | code |
|---|---|
| `strat`, `kill` | the strategy (opened or not, `lifecycle_revision`); `risk_settings.kill_switch` |
| `status` | `strategy_jobs.status`; "none" = not requested yet |
| `sent` | the broker account: orders accepted for the job |
| `recorded` | jobs with a `normalized_orders` document of today |
| `wpc`, `wjob` | each worker process: position in `process_strategy_jobs`, the `job` it works on |
| `asked`, `orphans`, `crashes` | history: revision at the request, jobs whose worker died, deaths |

A worker goes through `Claim` (`find_one_and_update`), `CheckStrategy`, `Login` (broker selection and
`adapter.login`), then the adapter's `place_order`: `ReadSettings`, `CheckKey` and `CheckLimits` are
`check_order` at its three reads of other documents; `PlaceOrder` or `PlaceRaises` is the broker
call, `CreateOrder` and `Transition` are `record_order_result`. `Complete`, `Audit`, and for an
exception at any point `Fail`, end the job. `Enqueue`, `Lifecycle` and `KillSwitch` are the user's.
`Crash` is the death of a worker, also of its thread when the handler's own write raises.

`OrderOnce` is the promise made of idempotency keys: an order counts for its key from the broker's
acceptance until its job is reported failed, and no order is accepted for a key that has one.
`StrategyJobs` implements it with `standing` = `sent` for jobs not failed.

Left to choice or out: the checks of mode, market hours, quantity, loss, positions, cooldown, broker
health and quote age may refuse at any time; keys, modes and strategy of the requests are constants
(`KeyOf`, `Live`, `Bound`), every key that of the same user; a live job whose user has selected no
broker goes to the paper adapter and counts as paper; `sent` does not count paper orders, which
exist nowhere but in their document; later statuses of an order document, which the queue does not
read; the end of the day, which only lowers the count of orders; the fallback of `_next_strategy_job`
for a database without `find_one_and_update`. `Faults` names an exception before the broker accepts (`raise`), one
after (`lost_reply`), and a write after the call that raises (`record`).

Runs:

* `queue`: three requests, two of them live with one key, the third on paper; two workers, which is
  what a rolling restart makes of one; a daily limit of one, so that both workers can stand at the
  limit together; one lifecycle change, one crash, every fault. Two jobs of one key in the hands of
  two workers are every race on a key; the third makes the limit bite across keys. `TypeOK` (no job
  is sent twice), `OneOrderPerKey`, `LimitOvershoot` and, under `FairSpec`, `JobsResolved`. No
  symmetry is declared, since liveness is checked.
* `stale`: `QueuedOrdersCurrent` is violated by a stop and a start while the job waits. It bounds the
  system to one job and so switches the deadlock check off.

Fairness: `run` calls `process_strategy_jobs` for ever and the platform starts a dead worker again
(`Procfile`), hence weak fairness of `Work` and of `Restart` for each worker. Nothing is assumed of
users. Every broker call is taken to return or raise: some adapters pass a time-out of 15 seconds
(`aliceblue.py:279`, `mstock.py:43`), the others leave it to the broker's SDK.

Finding: **a queued order carries no revision** (`stale`). `trading_worker.py:242` compares
`lifecycle_revision` of the job with the strategy's, but the job is a dump of `WorkerOrderRequest`
(line 174), which has no such field. The guide (`docs/algorithm-143-end-to-end.md:504`) says the
revision lets stale queued orders be rejected.

What `OneOrderPerKey` does not say: a job reported failed frees its key, and after a lost reply or a
failed write the broker has its order all the same. The idempotency key protects against repeated
requests, not against a retry after such a failure.

### Proofs (`StrategyJobsProofs`)

For all requests, keys, workers, faults and bounds, from `QueueAssumption` alone:

* `Invariance`: `Spec => []IInv`, and `TypeCorrect`: `Spec => []TypeOK`,
* `KeysAreHonoured`: `Spec => OneOrderPerKey`, the refinement of `OrderOnce`,
* `LimitIsBounded`: `Spec => []LimitOvershoot`.

`IInv == TypeOK /\ Hands /\ Unsent /\ LiveOnly /\ Exclusive`. `Hands`: a claimed job is in the hands of
one worker at most, because the claim is atomic. `Unsent`: nothing was sent for a job before its call.
`LiveOnly`: only live jobs are sent, and those have had their key checked. `Exclusive` is what the
check of the key gives, and why it is enough although it is read long before the call: of two
jobs with one key past their checks, one has failed. It is inductive because a claimed job counts
as a duplicate from its claim on: whichever worker checks second sees the first one's job in
"processing". It has to count a worker between check and call as past the check already, since what
the other jobs do afterwards is not read again. From `IInv`, `SendIsAccept` shows that every
acceptance is an `Accept` of `OrderOnce`, `FailIsWithdraw` that a failure is a `Withdraw` or a
stutter, and `StepPromise` that every other step stutters.

For the limit the invariant is `Room`: orders recorded plus workers between check and record never
exceed the limit by more than the number of workers less one. A worker that passes the check adds
itself to the second term while the first is below the limit; `CreateOrder` moves one from the
second to the first.

Only model-checked: `JobsResolved`, which is liveness.

## FractalHedge

One hedge of several option legs is one row of `Opositions`. A round of the order loop squares off
the legs of every open row and then, perhaps, enters the legs of a new one.

| variable | code |
|---|---|
| `account` | selected broker, `trade['live']`, `trade['usetype']`, the status at first |
| `strat` | status, position, `entry_order_state` (`entry`), the fire key (`fire`), `entry_leg_locks` |
| `rows` | `Opositions` by insertion: status, legs, and of each leg exit state, order id, exit lock |
| `held`, `orders` | the account: contracts of each leg, exit orders accepted and their outcome |
| `failed`, `reopened` | history: exits seen to fail or cut off by a death; rows an old copy reopened |
| `pc`, `mem`, `copies`, `todo`, `cur`, `leg`, `tally` | the order loop: where it is, its copies, the row and leg in hand, what its exit has counted |
| `rpc`, `rcopies`, `rtodo` | the refresher |
| `pb`, `req` | a postback, and a start or an edit, each between what it read and its write |

The exit through AliceBlue (`Find`, `LockExitLeg`, `PeekLock`, `SquareOff`, `CheckExitOrder`, `MarkFailed`, `EndAliceExit`)
takes a lock for each leg by a conditional update before it orders. `SquareOff` is two broker calls:
`SquareOffPosition`, and after an answer that is not ok, which is taken to mean that there is no
order, `SquareOffLimit`; the limit order alone looks for a duplicate of the last 30 seconds, which
here can only be an order for the same leg. The exit through the other brokers (`SendExit`,
`EndExit`) takes no lock. The entry goes from the group lock through one lock and one order per leg
to the row (`FindBeforeInsert`, `InsertNewRow`: the code looks for a row, then inserts one) and its
settlement. `Market` is the exchange that trades or rejects an order of any broker, `Postback` is
`dhan_postback` with its two writes. Requests are read and written in two steps:
`ReadToStart` is a user's start, which clears an entry that failed when it read it
(`legacy_compat/strategies.py` 479 to 492); `ReadToReset` a start or an edit of the legs, with the reset; `ReadToEdit`
any other edit, which writes back the status and the position it read. `CommitReset` and
`CommitEdit` are the writes, `Retire` is stop and delete, then the crash and the start-up repair,
which is one step for the reason given under `AlgoStrategy`.

The run `hedge` (1,620,905 states): two legs (one leg left over is what makes an exit partial), the hedge at the start
and two more, two accepted exit orders (one each; a third can only be a repeated one, and the
property fails at the second), one request or death, one reopened row, every fault, and five
accounts: AliceBlue with and without `usetype`, Dhan, another broker, paper. The third hedge is there
for `OneHedge`, whose exception two hedges do not show: an old copy reopens a row over an entry that
left no row, the next round squares the row off again, which clears the marks, and enters over what
the account holds. It shows

* `ExitOnce`: through AliceBlue a leg is sent one exit order, but for rows an old copy reopened;
* `ClosedIsFlat`: a closed row stands for a flat hedge, but for legs Dhan refused at once;
* `OneHedge`: no second hedge is entered over a leg of the first, until an old copy reopens a row;
  a late reset alone does not lead to one, because a hedge is visited only while it has an open row;
* `LostEntryKept`: the mark of an entry that left no row survives but for the entry's own end, a
  reset that read before the entry was active or when it had failed, an exit of a reopened row, and
  the start-up repair;
* `StoppedEndsFlat`: a strategy stopped for good ends flat, but for hedges whose exit failed.

The exceptions are what the code does, and each is a hazard of `PROJECT.json`. The exit writes back
the row it read when the round began (`exchange.py:5397`), the refresher the one it read before
the exit (2546): either reopens a closed row, which is then squared off twice.
`tests/test_fractal_hedge_exit.py` has a test that repeated stops send no second exit; it has no
second writer. `dhan_postback` closes a row when every leg *that has an order id* is complete
(`fastapi_routers.py:1019`). A row in `exit_failed` or `exit_pending` is never found again (5748
looks for "open"), and a postback that arrives before the ids are stored finds no row. A death
between lock and mark leaves "exit_submitting" for good. A reset decides on an entry state it read
before the entry took its lock (`common.py:352`).

Deadlock is not checked: orders and hedges are bounded. Fairness (`FairSpec`): weak fairness of the
rounds, of the refresher, of the restart (`Procfile`) and of `Market`, because an exchange answers
the market orders it accepted. Left to choice: strikes, premiums, rollover dates, signals and exit
reasons.

### Proofs (`FractalHedgeProofs`)

From `HedgeAssumption`, for all accounts and all numbers of hedges, legs and orders:

* `Invariant`: `Spec => []IInv`,
* `TypeCorrect`, `ExitOnceAlways`, `ClosedIsFlatAlways`, `OneHedgeAlways`: `Spec => []TypeOK` and the
  three invariants above,
* `LostEntryKeptAlways`: `Spec => LostEntryKept`.

Four writers put whole rows back (order loop, refresher, postback, lock), so the invariant speaks of
a row and of each copy of one alike. `RowsHold`, `CopiesHold`, `RCopiesHold` and `PostbackHolds` say
that what a row or a copy tells of its exit orders is true (`Matched`: an id is the id of an order of
that leg, "complete" means executed), that an open one has no exit yet (`Fresh`), and that copies
have the legs of their row. Old copies therefore lose news but never invent any, which is what
`ClosedIsFlat` needs: `CloseHolds` says that the legs a loop has counted were executed, `SentHolds`
that a row of Dhan is written with an answer for each leg, so that a postback that sees all ids
complete has seen all legs. `HeldHolds` gives the step from executed to flat: the account holds a
leg once, and not after its exit.

`ExitOnce` rests on `OnceHolds`: an open AliceBlue row has no exit order, the legs still to come have
none, and the first lock takes the row out of "open" for every later round and every later process;
only an old copy puts it back. `OneHedge` rests on `OneHolds`: while no row was reopened, an open row
owns whatever is held, an entry begins with nothing held (`AllFlat`) and until its row is inserted
owns what it bought (`Bought`), and after an exit the copy of the strategy says "out" only if
nothing is left. `OneHedge` was first stated without its condition; the proof failed at the entry
after an exit, TLC confirmed it with three hedges, and the run has three since.

Only model-checked: `StoppedEndsFlat` (liveness).

## DirectStrategies

Three families enter without the claim and the recheck of the options. They share documents,
account, refresher, requests and the life of the worker (`DirectEntries`); each has a module for its
round, and `DirectStrategies` is their disjunction with the properties. A behaviour is of one
strategy, `case`, which also bounds it.

| variable | code |
|---|---|
| `strat` | status, position, `entry_order_state`, the contract of an MCX strategy, whether an equity strategy has its step counts |
| `rows` | `Opositions` by entry: status, `decision`, quantity left, `kind` (the symbol of an equity row, the contract of an MCX row) and `side` (BUY or SELL) |
| `held` | the account: units of each entry, -1 when it was sold too much |
| `unseen`, `phantom` | history: entries the documents lose sight of; rows that stand for more than was bought |
| `book`, `recent`, `accepted` | AliceBlue by symbol and side: the entry of the last order of the order book of 30 s, the keys the engine remembers (`recent_broker_order_keys`), history: entry orders of a key |
| `pc`, `copy`, `mem`, `todo`, `cur`, `sent`, `bad`, `left` | the engine: where it is, its copies, the rows to visit, the entry under way, the symbols to look at |
| `rpc`, `rcopy`, `rtodo`, `req`, `upsets` | refresher, a request between two operations, requests and deaths so far |

*Futures* (`FuturesStrategy`): `FEXIT` (`FindNothing`, `SetOut`, `SaveConfig`, with the shared
`ExitOrder`, `SaveRow`), then `FBUY` or `FSELL` in the same round: `EnterFuture`, `MarkAttempted`,
one `SendSlice` for each slice of a large lot, `InsertFuture`, `SettleFuture`, or the handler
`FailFuture`. *Equities* (`EquityStrategy`): a pass over the symbols (`EnterEquity` inserts the row
before its order, `SendEquity` ignores the answer), then the open rows. *Commodities*
(`McxStrategy`): `ExitMcx` orders the contract the strategy has now; `EnterMcx` counts the rows of
the day.

With AliceBlue an order may be answered and not sent: for 30 seconds one of the same symbol and side
is a duplicate, answered "Ok" with the id of the order before (`_place_aliceblue_limit_order`,
`_place_aliceblue_square_off`). A limit order, which every entry is and every order for commodities,
looks at the engine's memory, which only an answer fills, and at the order book, which may not be
readable (`blind`); an exit of a future squares off and looks at the memory alone. An order before
that has no id makes the duplicate count as refused (`no_id`).

`window` says whether a case is on AliceBlue, and whether it lasts `one` window or `many`
(`WindowPasses`). Commodities have no other live broker (`exchange.py:3670`), so that `DirectAssumption`
puts every live commodity case in a window. What a duplicate does: an entry's is taken as accepted
(`EntryAnswered`, of a slice or of `SendMcx`), and the row stands for an order that is its own, or of
an entry that was lost and is adopted (`Adopts`), or is accounted for already, which makes the row a
phantom. An exit's closes the row (`ExitAnswered`, `ExitMcxAnswered`) whatever the account holds,
or is tried again (`ExitBlocked`, and as an exception in `ExitMcxRaises`). Equities have no window: a
duplicate of theirs differs from a refusal or an unreported answer, which they have, by nothing
the properties see.

The run `direct` shows, in the fifteen cases of `MCDirectStrategies`:

* `RowBacked`: an open row asks for no more than the account holds, but for phantoms. What makes one:
  `EBUY` whose order is refused, a copy of a row written back late, an entry answered as a duplicate of
  an order that is accounted for (a slice of a future, or an MCX entry on the side of an exit
  less than 30 s before), an exit that was filled and whose reply was lost;
* `ExposureTracked`: every unit is in an open row or in an entry under way, but for unseen entries:
  an exception or a death after an acceptance, partial slices (`broker_failed`, never exited), an
  MCX exit after the contract was edited, an exit answered without quantity, an exit answered as a
  duplicate of another order of its side while the account holds the units;
* `OnePosition`: an equity strategy has one position of each symbol, with both exceptions; the others
  one position, until a row goes astray (a phantom, or a row whose units were lost sight of);
* `DayLimit`: an MCX strategy never has more rows of the day than `max_trades_per_day`;
* `WindowHolds`: inside a window AliceBlue gets at most one entry order of a side, whatever is lost,
  raises or dies, if its order book can be read;
* `StoppedGoesFlat`: a strategy stopped for good ends without rows and without units but of unseen
  entries, if stale copies undo its exits finitely often.

The premise of the last one is not fairness of the code but a hope about it. The refresher writes a
row as it read it, however long ago (`exchange.py:2546`), and nothing keeps it from reading each
time before an exit and writing after it: scan, exit and write-back may alternate for ever, and
the model lets them. `Reverts` is such a write. A stop that a stale write of the status undoes falsifies
the other premise; that hazard is `restopped`'s, not this property's.

Bounds (819,983 states): two entries, since a second position needs two, and in two cases without
faults three, since a row that goes astray needs another, as does an MCX entry that follows an exit
that follows an entry; two slices, for the partial acceptance;
one request or death with all faults and one entry, none with two entries and all faults, one
stop with two entries. Two symbols or contracts; `sides` says which of BUY and SELL the signals of a
case ask for, both where a duplicate of the other side's exit is the point. Fairness: weak of the
round, the refresher and the restart, strong of an exit order that is filled or answered as a duplicate
(`FullExit`): an exit tried again and again is not refused, blocked or raising for ever, as in
`AlgoStrategy`. The live flag is constant: an edit that changes it under an open MCX row, whose exit
goes by the strategy's flag and not by the row's (`exchange.py:3747`), is a hazard that is listed
and not modelled. An edit that adds symbols to an equity strategy makes it save its step counts again
(`CommitEdit`, `SaveSteps`). Deadlock is not checked, since
entries are bounded. `TOPBOTTOM`, `EOBUY` and `EFBUY` are called by no loop, `CHARTINK` enters
nothing. The strategies that differ from `EMA` in their signal alone (`SSALGO`, `PEMA`, `RF`,
`UTBOT`, `SSTRIKE`) order through the functions modelled here and in `AlgoStrategy`.

### Proofs (`DirectProofs`)

From `DirectAssumption`, for all cases and all numbers of entries and slices:

* `Invariant`: `Spec => []IInv`,
* `TypeCorrect`: `Spec => []TypeOK`,
* `RowBackedAlways`, `ExposureTrackedAlways`: rows and account, each way,
* `OnePositionAlways`: `Spec => []OnePosition`,
* `DayLimitAlways`: `Spec => []DayLimit`,
* `WindowHoldsAlways`: `Spec => []WindowHolds`.

They hold with AliceBlue's duplicates of futures and commodities, entries and exits, which
`DirectAssumption` leaves free for futures and requires of live commodities.

None of them is inductive. Rows are written whole from copies, so that `RowBacked` and
`ExposureTracked` need both to hold of the copies of the engine and the refresher at all times
(`Copies`), of the result of an exit before it is saved, and of an entry before it has a row:
`Ordering` relates the orders sent, the slices the row will stand for and what the account holds,
and `Tracked` sharpens `ExposureTracked` by the place from which on the row speaks for the entry. That
no row is inserted over another is `FreshEntry`, that the engine has a row in hand where the code
uses one, `Places`. `Days` leaves room for the row of the entry under way, whose count of the day's
rows was read before its order; `Windows` keeps the accepted order of a window in the order book
until the window ends.

`OnePosition` rests on `Solo`: the document and the engine's copy say "out" only when nothing is
held, and while an entry is made nothing else is; and, since an exit that is saved takes the strategy
out, the row in hand is the only position. `Listed` says that the rows in hand are open
and of the kind their copies have, `PerSymbol` that a symbol found free stays free until the row of
its entry is inserted. Without the condition on rows that go astray the statement is false, though two
entries do not show it: a stale copy that the refresher writes back reopens a row while another
position is open; the exit of the reopened row sets `position` to "out", and a third entry follows
beside the second. The case with three entries keeps the condition honest.

Each conjunct has a lemma for its step, by cases on the actions, those that leave its variables
alone in groups. Only model-checked: `StoppedGoesFlat` (liveness).

## Runtime

`WorkerControl` is the worker process, its main thread, its loop and the commands; `BrokerLogins` the
login threads of the engine, the reconnect through the API and the login of the worker's adapter;
`MarketFeed` the provider chain with its websockets. `Runtime` composes them: the maintenance of the
loop logs in and walks the chain, a command "relogin" or "refresh_subscriptions" asks for the
same, the end of the process takes clients and websockets with it, and a request that starts a
strategy reads `status`, `health`, `feedHealth` and prices, perhaps walks the chain with a manager of its
own, and makes its user and symbol ones the other parts care for. In a rolling restart the process
that is being replaced is still up. Of such a peer the model has the command loop and its reports in
`worker_status`; its logins, feed and engine are its own and left out.

| variable | code |
|---|---|
| `status`, `command`, `job` | `worker_status` (state, engine), `worker_commands`, jobs put in `strategy_jobs` |
| `main`, `engine`, `reported`, `stopping`, `quitting` | the main thread, `DeferredTrader`, what it is about to report, `_stop_event`, `_shutdown_event` |
| `loop`, `current` | `run`: where it is, the command it has taken |
| `peer` | the loops of processes up beside this one: the same, and whether they are to stop |
| `good`, `issued`, `code` | the broker: sessions it accepts, the newest, the auth code of a user |
| `api`, `health` | rows of `apis` and `broker_health` |
| `listed`, `client`, `login` | `userloggedin`, the clients, the login threads |
| `markpc`, `callback`, `relog`, `adapter` | an order answered unauthorized, the reconnect, the worker's own login |
| `service`, `conn`, `dialling`, `orphan` | price services; websockets open, still to open, open and held by nobody |
| `walk`, `active`, `fresh`, `feedRow`, `feedHealth` | a manager's walk, its provider, prices not stale, health rows |
| `request`, `opened` | the start under way, users with a live strategy |
| `load` | what a workload may still do |
| `handled`, `retaken`, `checked`, `late` | history: times a command was handled, commands marked by id after another took them, sessions accepted or issued, websockets that opened after their connect gave up |

Actions: `Launch`, `StartTrader`, `FirstHeartbeat`, `StartLoop`, `WaitReady`, `Report`, `Signal`, `Exit`,
`Crash`, `EngineUp`, `EngineFails` of the process; `Hello`, `NextPending`, `FindPending`, `MarkPending`,
`HandleCommand`, `Complete`, `HandleFails`, `Work`, `Maintenance`, `Beat`, `Bye`, `LoopDies` of the
loop, `PeerStep` of a peer's. A command is taken in two ways (`control.py` 27 to 45): `NextPending`
finds one and marks it in one operation; having found none the loop looks again (`FindPending`) and
marks what it finds by its id, whatever became of it since (`MarkPending`). Login threads go from the
list (`FindNotLogged`, `CopyList`, `AssignList`, `Pick`) through the broker (`Ask`, `Refresh`,
`OtherLogin`) and the rows (`SaveLogin`, `SaveRefreshed`, `SaveHealth`, `Reject`) to `UpdateLoginState`.
A walk is `Connect`, `OpenTimesOut`, `Subscribe`, `Switch`, `SaveConnected` or `SaveFailed`, then the
snapshot (`Warm`, `CheckWarm`); `Open`, `Error`, `Tick`, `Stale`, `Drop` and `Return` are the services.

The run `runtime` (200,962 states) explores twenty-two workloads, each one story with its budget
(`MCRuntime`): two commands with a crash; a rolling restart, with two commands, with a crash or
signal, or with a call that fails; two users at once, so that the copy of the list meets an append;
sessions that expire, calls that fail, a crash or a reconnect for one user; drops and failures of a
chain of two providers, one whose connect waits for its websocket and one whose does not; a start
request while the worker comes up, crashes or feeds. Two sessions (an old and a new one), one fault
or crash a story: the hazards are of two actors and one failure. It shows

* `EngineTold`: after the first report of a process its row says "running" of the engine only
  while that engine runs;
* `CommandOnce`: over all processes, up together or one after the other, a command takes effect once,
  unless the second way of taking it marked it after another process had taken it; an order puts one
  job in the queue for each effect, and a completed command had one;
* `SessionsChecked`: who the engine trades for has a client with a session the broker accepted or
  issued since the process began, whichever of the writers saved last;
* `OneStream`: a connected manager has no second provider's websocket open, but late ones;
* `StopEnds`, `CommandsTaken`: a stop ends the process; a worker that stays up takes every command;
* `UserListed`: with the engine up for good, a user with a relogin loop and a good code is listed in
  the end, though a copy of the list may lose his append;
* `PricesReturn`: a provider that works for good gives prices again and again, if those before it
  in the chain wait for their websocket and answer without error.

Fairness: threads that can run do run (main, loop, engine, each login thread); a handled command, an
adapter login and a walk go on; a service that is up opens, reports an error or ticks. Strong
fairness of the maintenance: it comes due every few minutes, and the loop passes that point for
ever, though commands may keep it busy in between. Nothing is assumed of `Launch`: no supervisor in
the repository starts a worker that has ended in good order, and of requests, commands, crashes
and faults. Deadlock is not checked: a workload may be over.

A user needs a login if a strategy of his is opened, paused or in a position (`Needed`,
`exchange.py` 1269 to 1286), while the worker's adapter asks for opened ones and those in a
position (`Trading`). Zerodha's client is one object per process (`kite_market_data.py:131`), so that
a new manager in the process keeps a socket that is open (`Keeping`); the others dial.

What the exceptions stand for. Two loops can both find a command that came in after their first look,
and both mark and handle it: `retaken`. Upstox's error event sets the event its connect waits for
(`providers.py:188`), so a refusing service counts as connected and hides the chain behind it. Each
sweep dials anew, and a new websocket leaves the old one open with nobody holding it. A
provider whose connect does not wait always wins. The relogin loop replaces the list by
`list(set(...))` (`exchange.py:1294`) while others append. A user listed with an expired session is
never logged in again (`_refresh_aliceblue_session` has no callers). The row says "running" for up
to ten seconds after its loop died, and a late report of the main thread can follow the loop's
"stopped"; a command taken by a worker that dies stays "processing". The age of the heartbeat is
left out (`MayBeHealthy` may be true of any row that says "running").

### Proofs (`RuntimeProofs`)

For all commands, peers, users, sessions, providers and workloads, from the assumptions on the constants:

* `Invariant`: `Spec => []Inv`, and `TypeCorrect`: `Spec => []TypeOK`,
* `EngineToldAlways`, `CommandOnceAlways`, `SessionsCheckedAlways`, `OneStreamAlways`: `[]` of the run's
  four safety invariants.

`Inv == LoadOK /\ ControlInv /\ LoginInv /\ FeedInv /\ RequestInv`, one part for each component, so
that a step of one leaves the parts of the others alone. `CommandOnce` needs `Hand` (a loop past its look, this one's or a
peer's, has a command) and `Once`: a command not taken was never handled nor retaken (`RowsOnce`);
one in hand was taken, and not handled before its handler unless retaken (`LoopOnce`, `PeersOnce`);
two hold one command only if it was retaken (`TwoHold`), which is what the atomic first way gives and
the second way takes away. `EngineTold` needs `Told`: what the main thread is about to report is what
the engine was, and an engine does not stop running while the process lives. `SessionsChecked` needs
`Held`: the client of every listed user, and of every user in a thread's copy of the list, has a
checked session, and so is the session a thread has from the broker until it is listed; what a
thread has only read from a row is not. `OneStream` needs `Streams`, for each manager:
what may be open or dialling at each point of a walk. The proof has a lemma for each action of a
component, then one for each component's part of `Next`.

`StopEnds`, `CommandsTaken`, `UserListed` and `PricesReturn` are liveness, and only model-checked.

## Not modelled

`PROJECT.json` lists each part with the reason.

* **Signals, exit levels, lot progression, market windows.** Pure functions of candles, prices and
  clock; the models let every decision they feed be taken either way.
* **Payments and subscriptions.** Async handlers that check, mark and extend in separate
  operations: a death between the mark of a payment and the extension loses the days paid for, and no
  retry repeats it. It is one sequence of three writes with no second actor but the user's repeat.
* **Order postbacks** of the brokers other than Dhan's to a hedge change documents the queue and the
  engine do not read back.
* **Creating a strategy, forms, accounts, reports, reconciliation, audit, back-testing**: documents no
  other part reads back, or reads without acting on them.
* **Adapters' request formats, vendor SDKs, browser automation, token maps**: I/O. What brokers and
  services may answer is a choice in the models.
* **MongoDB itself.** An operation succeeds and is atomic; a failing write is modelled where the
  code catches it (the queue's order record, the worker's completion of a command).

What the map does not cover is for the most part of three kinds: code that is called by nothing in
the web process or the worker (`scripts/dev`, vendored SDKs, front-end libraries), the request
formats of eleven brokers (in `OBUY`, `OSELL`, `FBUY`, `FSELL` a few hundred lines each, of which one
definition stands for the outcome), and the computation of indicators. A definition names the code of
one of a pair of twins (`FBUY`, not `FSELL`), although it models both.
