---------------------------- MODULE StrategyJobs ----------------------------
(***************************************************************************)
(* The order queue of one user: requests become strategy_jobs documents,   *)
(* worker processes claim them, check them, send their orders to a broker  *)
(* and complete them.  Strategies are stopped and started and the kill     *)
(* switch is thrown meanwhile, and worker processes die.                   *)
(*                                                                         *)
(* An action is one MongoDB operation or one broker call of a worker with  *)
(* the code up to the next one.  check_order makes three reads the model   *)
(* keeps apart: the settings, the jobs with the same idempotency key and   *)
(* the orders of the day; its other checks may refuse at any time.         *)
(***************************************************************************)
EXTENDS Integers, FiniteSets

CONSTANTS
    Jobs,           \* the requests explored (bound)
    KeyOf,          \* their idempotency keys
    Live,           \* those that go to a live broker adapter; others: paper
    Bound,          \* those that name the strategy
    Workers,        \* worker processes that run at the same time
    NoJob,
    DailyLimit,     \* max_orders_per_day
    Faults,         \* which failures the environment produces
    MaxRev,         \* lifecycle changes explored (bound)
    MaxCrash        \* crashes explored (bound)

ASSUME QueueAssumption ==
    /\ IsFiniteSet(Jobs) /\ Live \subseteq Jobs /\ Bound \subseteq Jobs
    /\ IsFiniteSet(Workers) /\ Workers # {}
    /\ NoJob \notin Jobs
    /\ DailyLimit \in Nat \ {0}
    /\ Faults \subseteq {"raise",       \* an exception before the broker accepts
                         "lost_reply",  \* the broker accepts, the call raises
                         "record"}      \* a write after the broker call raises
    /\ MaxRev \in Nat /\ MaxCrash \in Nat

JobStatuses == {"none", "pending", "processing", "completed", "failed"}
WorkerPCs   == {"idle", "strategy", "login", "settings", "key", "limit", "call",
                "create", "transition", "complete", "audit", "fail", "down"}

VARIABLES
    strat,      \* the strategy: is it opened, and its lifecycle_revision
    kill,       \* the user's kill switch
    status,     \* the strategy_jobs documents
    asked,      \* history: revision its strategy had when a job was requested
    sent,       \* orders the broker accepted for the job
    recorded,   \* jobs with a normalized_orders document
    wpc, wjob,  \* each worker: where it is, and the job in its hands
    orphans,    \* history: jobs that were in the hands of a worker that died
    crashes     \* crashes so far

jobs    == <<status, asked>>
market  == <<sent, recorded>>
user    == <<strat, kill>>
deaths  == <<orphans, crashes>>
vars    == <<user, jobs, market, wpc, wjob, deaths>>

TypeOK ==
    /\ strat \in [opened : BOOLEAN, rev : Nat]
    /\ kill \in BOOLEAN
    /\ status \in [Jobs -> JobStatuses]
    /\ asked \in [Jobs -> Nat]
    /\ sent \in [Jobs -> 0 .. 1]
    /\ recorded \subseteq Jobs
    /\ wpc \in [Workers -> WorkerPCs]
    /\ wjob \in [Workers -> Jobs \cup {NoJob}]
    /\ orphans \subseteq Jobs
    /\ crashes \in 0 .. MaxCrash

Init ==
    /\ strat \in [opened : BOOLEAN, rev : {0}]
    /\ kill = FALSE
    /\ status = [j \in Jobs |-> "none"]
    /\ asked = [j \in Jobs |-> 0]
    /\ sent = [j \in Jobs |-> 0]
    /\ recorded = {}
    /\ wpc = [w \in Workers |-> "idle"]
    /\ wjob = [w \in Workers |-> NoJob]
    /\ orphans = {}
    /\ crashes = 0

-----------------------------------------------------------------------------
(* The user and the API.                                                   *)

\* enqueue_strategy_order.  The document is a dump of WorkerOrderRequest, which
\* has no lifecycle_revision: only "asked" remembers what it was.
Enqueue(j) ==
    /\ status[j] = "none"
    /\ status' = [status EXCEPT ![j] = "pending"]
    /\ asked' = IF j \in Bound THEN [asked EXCEPT ![j] = strat.rev] ELSE asked
    /\ UNCHANGED <<user, market, wpc, wjob, deaths>>

\* Start and stop of the strategy.
Lifecycle ==
    /\ strat.rev < MaxRev
    /\ strat' = [opened |-> ~strat.opened, rev |-> strat.rev + 1]
    /\ UNCHANGED <<kill, jobs, market, wpc, wjob, deaths>>

KillSwitch ==
    /\ kill' = ~kill
    /\ UNCHANGED <<strat, jobs, market, wpc, wjob, deaths>>

-----------------------------------------------------------------------------
(* A worker with a job in its hands.                                       *)

Goto(w, label) ==
    /\ wpc' = [wpc EXCEPT ![w] = label]
    /\ UNCHANGED <<wjob, deaths, user>>

At(w, label) == wpc[w] = label

Put(w, s) == status' = [status EXCEPT ![wjob[w]] = s]

\* The job is put down and the next one looked for.
PutDown(w) ==
    /\ wpc' = [wpc EXCEPT ![w] = "idle"]
    /\ wjob' = [wjob EXCEPT ![w] = NoJob]
    /\ UNCHANGED <<deaths, user>>

\* Mutant: the status is read first and written without a condition.
ClaimUnguarded(w, j) ==
    /\ At(w, "idle") /\ status[j] \in {"pending", "processing"}
    /\ status' = [status EXCEPT ![j] = "processing"]
    /\ wpc' = [wpc EXCEPT ![w] = "strategy"]
    /\ wjob' = [wjob EXCEPT ![w] = j]
    /\ UNCHANGED <<asked, market, deaths, user>>

\* _next_strategy_job: find_one_and_update, pending to processing.
Claim(w, j) ==
    /\ At(w, "idle") /\ status[j] = "pending"
    /\ status' = [status EXCEPT ![j] = "processing"]
    /\ wpc' = [wpc EXCEPT ![w] = "strategy"]
    /\ wjob' = [wjob EXCEPT ![w] = j]
    /\ UNCHANGED <<asked, market, deaths, user>>

\* "Strategy is not active".  The comparison of revisions that follows it is
\* skipped for a job without lifecycle_revision, which is every job.
CheckStrategy(w) ==
    /\ At(w, "strategy")
    /\ Goto(w, IF wjob[w] \in Bound /\ ~strat.opened THEN "fail" ELSE "login")
    /\ UNCHANGED <<jobs, market>>

\* Broker selection and adapter.login; both may raise.  A disabled adapter
\* refuses the order itself, with no check and no record.
Login(w) ==
    /\ At(w, "login")
    /\ \/ Goto(w, "settings")
       \/ Goto(w, "fail")
       \/ wjob[w] \in Live /\ Goto(w, "complete")
    /\ UNCHANGED <<jobs, market>>

\* settings_for_user; only live orders have their key checked.
ReadSettings(w) ==
    /\ At(w, "settings")
    /\ Goto(w, IF kill THEN "fail" ELSE IF wjob[w] \in Live THEN "key" ELSE "limit")
    /\ UNCHANGED <<jobs, market>>

\* Mutant: only finished jobs count as duplicates.
DuplicateCompleted(j) ==
    \E i \in Jobs \ {j} : KeyOf[i] = KeyOf[j] /\ status[i] = "completed"

\* _duplicate_idempotency_key: another job with the key that did not fail.
Duplicate(j) ==
    \E i \in Jobs \ {j} : KeyOf[i] = KeyOf[j] /\ status[i] \notin {"none", "failed"}

CheckKey(w) ==
    /\ At(w, "key")
    /\ Goto(w, IF Duplicate(wjob[w]) THEN "fail" ELSE "limit")
    /\ UNCHANGED <<jobs, market>>

\* Mutant: the order that reaches the limit is let through.
LimitReachedLate == Cardinality(recorded) > DailyLimit

\* _orders_today counts the order documents of the day.
LimitReached == Cardinality(recorded) >= DailyLimit

\* The limits of the day, and every check that looks at data left out here.
CheckLimits(w) ==
    /\ At(w, "limit")
    /\ \/ Goto(w, IF LimitReached THEN "fail" ELSE "call")
       \/ Goto(w, "fail")
    /\ UNCHANGED <<jobs, market>>

\* place_order: a live broker accepts the order or refuses it; a paper order
\* is executed in the order document itself.
PlaceOrder(w) ==
    /\ At(w, "call")
    /\ \/ UNCHANGED sent
       \/ wjob[w] \in Live /\ sent' = [sent EXCEPT ![wjob[w]] = @ + 1]
    /\ Goto(w, "create")
    /\ UNCHANGED <<jobs, recorded>>

\* The call raises, before the broker accepted or after.
PlaceRaises(w) ==
    /\ At(w, "call") /\ wjob[w] \in Live
    /\ \/ "raise" \in Faults /\ UNCHANGED sent
       \/ "lost_reply" \in Faults /\ sent' = [sent EXCEPT ![wjob[w]] = @ + 1]
    /\ Goto(w, "fail")
    /\ UNCHANGED <<jobs, recorded>>

\* record_order_result: create_order ...
CreateOrder(w) ==
    /\ At(w, "create")
    /\ recorded' = recorded \cup {wjob[w]}
    /\ Goto(w, "transition")
    /\ UNCHANGED <<jobs, sent>>

\* ... and the transition to "submitted", "rejected" or (paper) "filled".
Transition(w) ==
    /\ At(w, "transition")
    /\ Goto(w, "complete")
    /\ UNCHANGED <<jobs, market>>

\* _complete_strategy_job
Complete(w) ==
    /\ At(w, "complete")
    /\ Put(w, "completed")
    /\ Goto(w, "audit")
    /\ UNCHANGED <<asked, market>>

\* The audit row is inserted inside the same try block.
Audit(w) ==
    /\ At(w, "audit")
    /\ PutDown(w)
    /\ UNCHANGED <<jobs, market>>

\* One of the writes after the broker call raises.
WriteRaises(w) ==
    /\ "record" \in Faults
    /\ wpc[w] \in {"create", "transition", "complete", "audit"}
    /\ Goto(w, "fail")
    /\ UNCHANGED <<jobs, market>>

\* Mutant: the handler logs and goes on.
FailSilently(w) ==
    /\ At(w, "fail")
    /\ PutDown(w)
    /\ UNCHANGED <<jobs, market>>

\* except Exception: _complete_strategy_job with an error.
Fail(w) ==
    /\ At(w, "fail")
    /\ Put(w, "failed")
    /\ PutDown(w)
    /\ UNCHANGED <<asked, market>>

Work(w) ==
    \/ \E j \in Jobs : Claim(w, j)
    \/ CheckStrategy(w) \/ Login(w) \/ ReadSettings(w) \/ CheckKey(w)
    \/ CheckLimits(w) \/ PlaceOrder(w) \/ PlaceRaises(w) \/ CreateOrder(w)
    \/ Transition(w) \/ Complete(w) \/ Audit(w) \/ WriteRaises(w) \/ Fail(w)

\* The process dies, inside the broker call perhaps, or its thread does when
\* the handler's own write raises.  Nothing takes a "processing" job up again.
Crash(w) ==
    /\ ~At(w, "down")
    /\ crashes < MaxCrash /\ crashes' = crashes + 1
    /\ \/ UNCHANGED sent
       \/ At(w, "call") /\ wjob[w] \in Live /\ sent' = [sent EXCEPT ![wjob[w]] = @ + 1]
    /\ orphans' = orphans \cup ({wjob[w]} \ {NoJob})
    /\ wpc' = [wpc EXCEPT ![w] = "down"]
    /\ wjob' = [wjob EXCEPT ![w] = NoJob]
    /\ UNCHANGED <<user, jobs, recorded>>

Restart(w) ==
    /\ At(w, "down")
    /\ wpc' = [wpc EXCEPT ![w] = "idle"]
    /\ UNCHANGED <<user, jobs, market, wjob, deaths>>

-----------------------------------------------------------------------------
Next ==
    \/ \E j \in Jobs : Enqueue(j)
    \/ Lifecycle \/ KillSwitch
    \/ \E w \in Workers : Work(w) \/ Crash(w) \/ Restart(w)

Spec == Init /\ [][Next]_vars

\* A worker goes through its queue, and a dead one is started again.
Fairness == \A w \in Workers : WF_vars(Work(w)) /\ WF_vars(Restart(w))

FairSpec == Spec /\ Fairness

-----------------------------------------------------------------------------
(* Properties.                                                             *)

\* An order counts for its key until its job is reported failed.
Standing == [j \in Jobs |-> IF status[j] = "failed" THEN 0 ELSE sent[j]]

Promise == INSTANCE OrderOnce WITH standing <- Standing

\* The queue implements the promise: whatever the workers' reads of the jobs
\* and their claims, completions, failures and crashes interleave to, no key
\* carries two accepted orders unless the first was reported failed.
OneOrderPerKey == Promise!Spec

\* Workers that check the daily limit at the same time pass it together, but
\* never by more than one order for each further worker.
LimitOvershoot == Cardinality(recorded) <= DailyLimit + Cardinality(Workers) - 1

\* Every job queued is completed or failed in the end, unless the worker that
\* had claimed it died.
JobsResolved ==
    \A j \in Jobs :
        status[j] = "pending" ~> status[j] \in {"completed", "failed"} \/ j \in orphans

\* A queued order goes ahead only if its strategy is still at the revision it
\* had when the order was requested.
QueuedOrdersCurrent ==
    [][\A w \in Workers :
          wpc[w] = "strategy" /\ wpc'[w] = "login" /\ wjob[w] \in Bound
            => asked[wjob[w]] = strat.rev]_vars
=============================================================================
