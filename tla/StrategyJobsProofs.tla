------------------------- MODULE StrategyJobsProofs -------------------------
(***************************************************************************)
(* What is proved of StrategyJobs for every set of requests, keys and      *)
(* workers, every limit, and all faults and crashes.                       *)
(*                                                                         *)
(* The promise of one order per key needs to know more than the orders     *)
(* sent: a worker that passed the key check may send one at any time, so   *)
(* Exclusive counts its job as past the check already.                     *)
(***************************************************************************)
EXTENDS StrategyJobs, FiniteSetTheorems, TLAPS

Active(w) == wpc[w] \notin {"idle", "down"}

\* A worker holds one job, claimed and not failed, that no other one holds.
Hands ==
    /\ \A w \in Workers : Active(w) =>
          /\ wjob[w] \in Jobs
          /\ \/ status[wjob[w]] = "processing"
             \/ status[wjob[w]] = "completed" /\ wpc[w] \in {"audit", "fail"}
    /\ \A w \in Workers : ~Active(w) => wjob[w] = NoJob
    /\ \A v, w \in Workers : Active(v) /\ Active(w) /\ wjob[v] = wjob[w] => v = w

\* Up to the call nothing was sent for the job in hand.
Unsent ==
    /\ \A j \in Jobs : status[j] \in {"none", "pending"} => sent[j] = 0
    /\ \A w \in Workers :
          wpc[w] \in {"strategy", "login", "settings", "key", "limit", "call"}
            => sent[wjob[w]] = 0

\* Only live jobs have their key checked and their orders sent.
LiveOnly ==
    /\ \A j \in Jobs : sent[j] = 1 => j \in Live
    /\ \A w \in Workers : wpc[w] = "key" => wjob[w] \in Live

\* The job was sent, or may be without a further look at the other jobs.
Past(j) ==
    /\ j \in Live
    /\ sent[j] = 1 \/ \E w \in Workers : wjob[w] = j /\ wpc[w] \in {"limit", "call"}

\* Of two jobs with one key that are past the check, one has failed.
Exclusive ==
    \A i, j \in Jobs : i # j /\ KeyOf[i] = KeyOf[j] /\ Past(i) /\ Past(j)
        => status[i] = "failed" \/ status[j] = "failed"

IInv == TypeOK /\ Hands /\ Unsent /\ LiveOnly /\ Exclusive

-----------------------------------------------------------------------------
USE DEF user, jobs, market, deaths, Goto, At, Put, PutDown, JobStatuses, WorkerPCs

LEMMA TypeStep == ASSUME IInv, Next PROVE TypeOK'
<1> USE QueueAssumption DEF IInv, TypeOK, Hands, Unsent, Active
<1>1. ASSUME NEW j \in Jobs, Enqueue(j) PROVE TypeOK'
  BY <1>1 DEF Enqueue
<1>2. CASE Lifecycle \/ KillSwitch
  <2>1. CASE Lifecycle
    BY <2>1 DEF Lifecycle
  <2>2. CASE KillSwitch
    BY <2>2 DEF KillSwitch
  <2> QED  BY <1>2, <2>1, <2>2
<1>3. ASSUME NEW w \in Workers, NEW j \in Jobs, Claim(w, j) PROVE TypeOK'
  BY <1>3 DEF Claim
<1>4. ASSUME NEW w \in Workers, CheckStrategy(w) \/ Login(w) \/ ReadSettings(w)
      PROVE  TypeOK'
  BY <1>4 DEF CheckStrategy, Login, ReadSettings
<1>5. ASSUME NEW w \in Workers, CheckKey(w) PROVE TypeOK'
  BY <1>5 DEF CheckKey
<1>6. ASSUME NEW w \in Workers, CheckLimits(w) PROVE TypeOK'
  BY <1>6 DEF CheckLimits
<1>7. ASSUME NEW w \in Workers, PlaceOrder(w) PROVE TypeOK'
  BY <1>7 DEF PlaceOrder
<1>8. ASSUME NEW w \in Workers, PlaceRaises(w) PROVE TypeOK'
  BY <1>8 DEF PlaceRaises
<1>9. ASSUME NEW w \in Workers, CreateOrder(w) \/ Transition(w)
      PROVE  TypeOK'
  BY <1>9 DEF CreateOrder, Transition
<1>10. ASSUME NEW w \in Workers, WriteRaises(w) PROVE TypeOK'
  BY <1>10 DEF WriteRaises
<1>11. ASSUME NEW w \in Workers, Complete(w) PROVE TypeOK'
  BY <1>11 DEF Complete
<1>12. ASSUME NEW w \in Workers, Audit(w) PROVE TypeOK'
  BY <1>12 DEF Audit
<1>13. ASSUME NEW w \in Workers, Fail(w) PROVE TypeOK'
  BY <1>13 DEF Fail
<1>14. ASSUME NEW w \in Workers, Crash(w) PROVE TypeOK'
  BY <1>14 DEF Crash
<1>15. ASSUME NEW w \in Workers, Restart(w) PROVE TypeOK'
  BY <1>15 DEF Restart
<1> QED
  BY <1>1, <1>2, <1>3, <1>4, <1>5, <1>6, <1>7, <1>8, <1>9, <1>10, <1>11,
     <1>12, <1>13, <1>14, <1>15 DEF Next, Work

LEMMA HandsStep == ASSUME IInv, Next PROVE Hands'
<1> USE QueueAssumption DEF IInv, TypeOK, Hands, Active
<1>1. ASSUME NEW j \in Jobs, Enqueue(j) PROVE Hands'
  BY <1>1 DEF Enqueue
<1>2. CASE Lifecycle \/ KillSwitch
  BY <1>2 DEF Lifecycle, KillSwitch
<1>3. ASSUME NEW w \in Workers, NEW j \in Jobs, Claim(w, j) PROVE Hands'
  BY <1>3 DEF Claim
<1>4. ASSUME NEW w \in Workers, CheckStrategy(w) \/ Login(w) \/ ReadSettings(w)
      PROVE  Hands'
  BY <1>4 DEF CheckStrategy, Login, ReadSettings
<1>5. ASSUME NEW w \in Workers, CheckKey(w) PROVE Hands'
  BY <1>5 DEF CheckKey
<1>6. ASSUME NEW w \in Workers, CheckLimits(w) PROVE Hands'
  BY <1>6 DEF CheckLimits
<1>7. ASSUME NEW w \in Workers, PlaceOrder(w) PROVE Hands'
  BY <1>7 DEF PlaceOrder
<1>8. ASSUME NEW w \in Workers, PlaceRaises(w) PROVE Hands'
  BY <1>8 DEF PlaceRaises
<1>9. ASSUME NEW w \in Workers, CreateOrder(w) \/ Transition(w)
      PROVE  Hands'
  BY <1>9 DEF CreateOrder, Transition
<1>10. ASSUME NEW w \in Workers, WriteRaises(w) PROVE Hands'
  BY <1>10 DEF WriteRaises
<1>11. ASSUME NEW w \in Workers, Complete(w) PROVE Hands'
  BY <1>11 DEF Complete
<1>12. ASSUME NEW w \in Workers, Audit(w) PROVE Hands'
  BY <1>12 DEF Audit
<1>13. ASSUME NEW w \in Workers, Fail(w) PROVE Hands'
  BY <1>13 DEF Fail
<1>14. ASSUME NEW w \in Workers, Crash(w) PROVE Hands'
  BY <1>14 DEF Crash
<1>15. ASSUME NEW w \in Workers, Restart(w) PROVE Hands'
  BY <1>15 DEF Restart
<1> QED
  BY <1>1, <1>2, <1>3, <1>4, <1>5, <1>6, <1>7, <1>8, <1>9, <1>10, <1>11,
     <1>12, <1>13, <1>14, <1>15 DEF Next, Work

LEMMA UnsentStep == ASSUME IInv, Next PROVE Unsent'
<1> USE QueueAssumption DEF IInv, TypeOK, Hands, Unsent, Active
<1>1. ASSUME NEW j \in Jobs, Enqueue(j) PROVE Unsent'
  BY <1>1 DEF Enqueue
<1>2. CASE Lifecycle \/ KillSwitch
  BY <1>2 DEF Lifecycle, KillSwitch
<1>3. ASSUME NEW w \in Workers, NEW j \in Jobs, Claim(w, j) PROVE Unsent'
  BY <1>3 DEF Claim
<1>4. ASSUME NEW w \in Workers, CheckStrategy(w) \/ Login(w) \/ ReadSettings(w)
      PROVE  Unsent'
  BY <1>4 DEF CheckStrategy, Login, ReadSettings
<1>5. ASSUME NEW w \in Workers, CheckKey(w) PROVE Unsent'
  BY <1>5 DEF CheckKey
<1>6. ASSUME NEW w \in Workers, CheckLimits(w) PROVE Unsent'
  BY <1>6 DEF CheckLimits
<1>7. ASSUME NEW w \in Workers, PlaceOrder(w) PROVE Unsent'
  BY <1>7 DEF PlaceOrder
<1>8. ASSUME NEW w \in Workers, PlaceRaises(w) PROVE Unsent'
  BY <1>8 DEF PlaceRaises
<1>9. ASSUME NEW w \in Workers, CreateOrder(w) \/ Transition(w)
      PROVE  Unsent'
  BY <1>9 DEF CreateOrder, Transition
<1>10. ASSUME NEW w \in Workers, WriteRaises(w) PROVE Unsent'
  BY <1>10 DEF WriteRaises
<1>11. ASSUME NEW w \in Workers, Complete(w) PROVE Unsent'
  BY <1>11 DEF Complete
<1>12. ASSUME NEW w \in Workers, Audit(w) PROVE Unsent'
  BY <1>12 DEF Audit
<1>13. ASSUME NEW w \in Workers, Fail(w) PROVE Unsent'
  BY <1>13 DEF Fail
<1>14. ASSUME NEW w \in Workers, Crash(w) PROVE Unsent'
  BY <1>14 DEF Crash
<1>15. ASSUME NEW w \in Workers, Restart(w) PROVE Unsent'
  BY <1>15 DEF Restart
<1> QED
  BY <1>1, <1>2, <1>3, <1>4, <1>5, <1>6, <1>7, <1>8, <1>9, <1>10, <1>11,
     <1>12, <1>13, <1>14, <1>15 DEF Next, Work

LEMMA LiveStep == ASSUME IInv, Next PROVE LiveOnly'
<1> USE QueueAssumption DEF IInv, TypeOK, Hands, LiveOnly, Active
<1>1. ASSUME NEW j \in Jobs, Enqueue(j) PROVE LiveOnly'
  BY <1>1 DEF Enqueue
<1>2. CASE Lifecycle \/ KillSwitch
  BY <1>2 DEF Lifecycle, KillSwitch
<1>3. ASSUME NEW w \in Workers, NEW j \in Jobs, Claim(w, j) PROVE LiveOnly'
  BY <1>3 DEF Claim
<1>4. ASSUME NEW w \in Workers, CheckStrategy(w) \/ Login(w) \/ ReadSettings(w)
      PROVE  LiveOnly'
  BY <1>4 DEF CheckStrategy, Login, ReadSettings
<1>5. ASSUME NEW w \in Workers, CheckKey(w) PROVE LiveOnly'
  BY <1>5 DEF CheckKey
<1>6. ASSUME NEW w \in Workers, CheckLimits(w) PROVE LiveOnly'
  BY <1>6 DEF CheckLimits
<1>7. ASSUME NEW w \in Workers, PlaceOrder(w) PROVE LiveOnly'
  BY <1>7 DEF PlaceOrder
<1>8. ASSUME NEW w \in Workers, PlaceRaises(w) PROVE LiveOnly'
  BY <1>8 DEF PlaceRaises
<1>9. ASSUME NEW w \in Workers, CreateOrder(w) \/ Transition(w)
      PROVE  LiveOnly'
  BY <1>9 DEF CreateOrder, Transition
<1>10. ASSUME NEW w \in Workers, WriteRaises(w) PROVE LiveOnly'
  BY <1>10 DEF WriteRaises
<1>11. ASSUME NEW w \in Workers, Complete(w) PROVE LiveOnly'
  BY <1>11 DEF Complete
<1>12. ASSUME NEW w \in Workers, Audit(w) PROVE LiveOnly'
  BY <1>12 DEF Audit
<1>13. ASSUME NEW w \in Workers, Fail(w) PROVE LiveOnly'
  BY <1>13 DEF Fail
<1>14. ASSUME NEW w \in Workers, Crash(w) PROVE LiveOnly'
  BY <1>14 DEF Crash
<1>15. ASSUME NEW w \in Workers, Restart(w) PROVE LiveOnly'
  BY <1>15 DEF Restart
<1> QED
  BY <1>1, <1>2, <1>3, <1>4, <1>5, <1>6, <1>7, <1>8, <1>9, <1>10, <1>11,
     <1>12, <1>13, <1>14, <1>15 DEF Next, Work

LEMMA ExclusiveStep == ASSUME IInv, Next PROVE Exclusive'
<1> USE QueueAssumption DEF IInv, TypeOK, Hands, Unsent, LiveOnly, Exclusive, Past, Active
<1>1. ASSUME NEW j \in Jobs, Enqueue(j) PROVE Exclusive'
  BY <1>1 DEF Enqueue
<1>2. CASE Lifecycle \/ KillSwitch
  BY <1>2 DEF Lifecycle, KillSwitch
<1>3. ASSUME NEW w \in Workers, NEW j \in Jobs, Claim(w, j) PROVE Exclusive'
  BY <1>3 DEF Claim
<1>4. ASSUME NEW w \in Workers, CheckStrategy(w) \/ Login(w) \/ ReadSettings(w)
      PROVE  Exclusive'
  BY <1>4 DEF CheckStrategy, Login, ReadSettings
<1>5. ASSUME NEW w \in Workers, CheckKey(w) PROVE Exclusive'
  BY <1>5 DEF CheckKey, Duplicate
<1>6. ASSUME NEW w \in Workers, CheckLimits(w) PROVE Exclusive'
  BY <1>6 DEF CheckLimits
<1>7. ASSUME NEW w \in Workers, PlaceOrder(w) PROVE Exclusive'
  BY <1>7 DEF PlaceOrder
<1>8. ASSUME NEW w \in Workers, PlaceRaises(w) PROVE Exclusive'
  BY <1>8 DEF PlaceRaises
<1>9. ASSUME NEW w \in Workers, CreateOrder(w) \/ Transition(w)
      PROVE  Exclusive'
  BY <1>9 DEF CreateOrder, Transition
<1>10. ASSUME NEW w \in Workers, WriteRaises(w) PROVE Exclusive'
  BY <1>10 DEF WriteRaises
<1>11. ASSUME NEW w \in Workers, Complete(w) PROVE Exclusive'
  BY <1>11 DEF Complete
<1>12. ASSUME NEW w \in Workers, Audit(w) PROVE Exclusive'
  BY <1>12 DEF Audit
<1>13. ASSUME NEW w \in Workers, Fail(w) PROVE Exclusive'
  BY <1>13 DEF Fail
<1>14. ASSUME NEW w \in Workers, Crash(w) PROVE Exclusive'
  BY <1>14 DEF Crash
<1>15. ASSUME NEW w \in Workers, Restart(w) PROVE Exclusive'
  BY <1>15 DEF Restart
<1> QED
  BY <1>1, <1>2, <1>3, <1>4, <1>5, <1>6, <1>7, <1>8, <1>9, <1>10, <1>11,
     <1>12, <1>13, <1>14, <1>15 DEF Next, Work

LEMMA InitInv == Init => IInv
<1> SUFFICES ASSUME Init PROVE IInv
  OBVIOUS
<1> USE QueueAssumption DEF Init
<1>1. TypeOK
  <2>1. strat \in [opened : BOOLEAN, rev : Nat]
    BY 0 \in Nat
  <2>2. /\ status \in [Jobs -> JobStatuses] /\ asked \in [Jobs -> Nat]
        /\ sent \in [Jobs -> 0 .. 1] /\ recorded \subseteq Jobs
    OBVIOUS
  <2>3. /\ wpc \in [Workers -> WorkerPCs] /\ wjob \in [Workers -> Jobs \cup {NoJob}]
        /\ orphans \subseteq Jobs /\ crashes \in 0 .. MaxCrash
    OBVIOUS
  <2> QED  BY <2>1, <2>2, <2>3 DEF TypeOK
<1>2. Hands /\ Unsent /\ LiveOnly
  BY DEF Hands, Unsent, LiveOnly, Active
<1>3. Exclusive
  BY DEF Exclusive, Past
<1> QED  BY <1>1, <1>2, <1>3 DEF IInv

LEMMA Stutter == ASSUME IInv, UNCHANGED vars PROVE IInv'
<1> USE DEF vars, IInv
<1>1. TypeOK'
  BY DEF TypeOK
<1>2. Hands' /\ Unsent' /\ LiveOnly'
  BY DEF Hands, Unsent, LiveOnly, Active
<1>3. Exclusive'
  BY DEF Exclusive, Past
<1> QED  BY <1>1, <1>2, <1>3

\* The inductive invariant holds in every reachable state of the queue.
THEOREM Invariance == Spec => []IInv
<1>1. IInv /\ [Next]_vars => IInv'
  <2> SUFFICES ASSUME IInv, [Next]_vars PROVE IInv'
    OBVIOUS
  <2>1. CASE Next
    BY <2>1, TypeStep, HandsStep, UnsentStep, LiveStep, ExclusiveStep DEF IInv
  <2>2. CASE UNCHANGED vars
    BY <2>2, Stutter
  <2> QED  BY <2>1, <2>2
<1> QED  BY <1>1, InitInv, PTL DEF Spec

\* The documents keep their types; a job is sent at most once, however many
\* workers look for work at the same time and however they die.
THEOREM TypeCorrect == Spec => []TypeOK
<1>1. IInv => TypeOK
  BY DEF IInv
<1> QED  BY <1>1, Invariance, PTL

-----------------------------------------------------------------------------
(* The queue implements OrderOnce.                                         *)

\* A worker that has an order accepted takes the promise's Accept step.
LEMMA SendIsAccept ==
    ASSUME IInv, NEW w \in Workers, wpc[w] = "call", wjob[w] \in Live,
           sent' = [sent EXCEPT ![wjob[w]] = @ + 1], UNCHANGED status
    PROVE  Promise!Accept(wjob[w])
<1> DEFINE j == wjob[w]
<1> USE DEF IInv, TypeOK
<1>1. j \in Jobs /\ status[j] = "processing" /\ sent[j] = 0 /\ Past(j)
  BY DEF Hands, Active, Unsent, Past
<1>2. ASSUME NEW i \in Jobs, KeyOf[i] = KeyOf[j] PROVE Standing[i] = 0
  <2>1. CASE i = j
    BY <1>1, <2>1 DEF Standing
  <2>2. CASE i # j /\ sent[i] = 1
    <3>1. Past(i)
      BY <2>2 DEF LiveOnly, Past
    <3> QED  BY <1>1, <1>2, <2>2, <3>1 DEF Exclusive, Standing
  <2>3. CASE sent[i] = 0
    BY <2>3 DEF Standing
  <2> QED  BY <2>1, <2>2, <2>3
<1>3. Standing' = [Standing EXCEPT ![j] = 1]
  <2>1. sent'[j] = 1 /\ \A i \in Jobs \ {j} : sent'[i] = sent[i]
    BY <1>1
  <2>2. Standing' = [i \in Jobs |-> IF status[i] = "failed" THEN 0 ELSE sent'[i]]
    BY DEF Standing
  <2> QED  BY <1>1, <2>1, <2>2 DEF Standing
<1> QED  BY <1>1, <1>2, <1>3 DEF Promise!Accept, Promise!SameKey

\* A job reported failed withdraws its order, if it had one.
LEMMA FailIsWithdraw ==
    ASSUME IInv, NEW w \in Workers, Fail(w)
    PROVE  Promise!Next \/ UNCHANGED Standing
<1> DEFINE j == wjob[w]
<1> USE DEF IInv, TypeOK
<1>1. j \in Jobs /\ status[j] # "failed"
  BY DEF Fail, Hands, Active
<1>2. status' = [status EXCEPT ![j] = "failed"] /\ sent' = sent
  BY DEF Fail
<1>3. Standing' = [Standing EXCEPT ![j] = 0]
  BY <1>1, <1>2 DEF Standing
<1>4. CASE sent[j] = 1
  <2>1. Standing[j] = 1
    BY <1>1, <1>4 DEF Standing
  <2> QED  BY <1>1, <1>3, <2>1 DEF Promise!Next, Promise!Withdraw
<1>5. CASE sent[j] = 0
  <2>1. Standing[j] = 0 /\ Standing = [i \in Jobs |-> Standing[i]]
    BY <1>1, <1>5 DEF Standing
  <2> QED  BY <1>3, <2>1
<1> QED  BY <1>1, <1>4, <1>5

LEMMA StepPromise ==
    ASSUME IInv, Next PROVE Promise!Next \/ UNCHANGED Standing
<1> USE DEF IInv, TypeOK
<1>1. ASSUME NEW w \in Workers, PlaceOrder(w) \/ PlaceRaises(w) \/ Crash(w)
      PROVE  Promise!Next \/ UNCHANGED Standing
  <2>1. UNCHANGED status
    BY <1>1 DEF PlaceOrder, PlaceRaises, Crash
  <2>2. CASE UNCHANGED sent
    BY <2>1, <2>2 DEF Standing
  <2>3. CASE ~UNCHANGED sent
    <3>1. wpc[w] = "call" /\ wjob[w] \in Live
          /\ sent' = [sent EXCEPT ![wjob[w]] = @ + 1]
      BY <1>1, <2>3 DEF PlaceOrder, PlaceRaises, Crash
    <3>2. wjob[w] \in Jobs
      BY <3>1 DEF Hands, Active
    <3> QED  BY <2>1, <3>1, <3>2, SendIsAccept DEF Promise!Next
  <2> QED  BY <2>2, <2>3
<1>2. ASSUME NEW j \in Jobs, Enqueue(j) PROVE UNCHANGED Standing
  BY <1>2 DEF Enqueue, Standing
<1>3. ASSUME NEW w \in Workers, NEW j \in Jobs, Claim(w, j) PROVE UNCHANGED Standing
  BY <1>3 DEF Claim, Standing
<1>4. ASSUME NEW w \in Workers, Complete(w) PROVE UNCHANGED Standing
  <2>1. wjob[w] \in Jobs /\ status[wjob[w]] # "failed"
    BY <1>4 DEF Complete, Hands, Active
  <2> QED  BY <1>4, <2>1 DEF Complete, Standing
<1>5. ASSUME NEW w \in Workers,
             CheckStrategy(w) \/ Login(w) \/ ReadSettings(w) \/ CheckKey(w) \/
             CheckLimits(w) \/ CreateOrder(w) \/ Transition(w) \/ Audit(w) \/
             WriteRaises(w) \/ Restart(w)
      PROVE  UNCHANGED Standing
  <2>1. UNCHANGED <<status, sent>>
    BY <1>5 DEF CheckStrategy, Login, ReadSettings, CheckKey, CheckLimits,
       CreateOrder, Transition, Audit, WriteRaises, Restart
  <2> QED  BY <2>1 DEF Standing
<1>6. CASE Lifecycle \/ KillSwitch
  <2>1. UNCHANGED <<status, sent>>
    BY <1>6 DEF Lifecycle, KillSwitch
  <2> QED  BY <2>1 DEF Standing
<1> QED
  BY <1>1, <1>2, <1>3, <1>4, <1>5, <1>6, FailIsWithdraw DEF Next, Work

\* Whatever workers, failures and crashes interleave to, no idempotency key
\* carries two accepted orders unless the first was reported failed.
THEOREM KeysAreHonoured == Spec => OneOrderPerKey
<1>1. Init => Promise!Init
  BY QueueAssumption DEF Init, Promise!Init, Standing
<1>2. IInv /\ [Next]_vars => [Promise!Next]_Standing
  <2> SUFFICES ASSUME IInv, [Next]_vars PROVE [Promise!Next]_Standing
    OBVIOUS
  <2>1. CASE Next
    BY <2>1, StepPromise
  <2>2. CASE UNCHANGED vars
    BY <2>2 DEF vars, Standing
  <2> QED  BY <2>1, <2>2
<1> QED  BY <1>1, <1>2, Invariance, PTL DEF Spec, OneOrderPerKey, Promise!Spec

-----------------------------------------------------------------------------
(* The daily limit.                                                        *)

\* Workers that passed the limit and have not recorded their order yet.
AtLimit == {w \in Workers : wpc[w] \in {"call", "create"}}

\* When a worker passes, there is room for its order and at most every worker
\* is between the check and the record: recording only trades one for the other.
Room == Cardinality(recorded) + Cardinality(AtLimit) <= DailyLimit - 1 + Cardinality(Workers)

LEMMA Sizes ==
    ASSUME TypeOK
    PROVE  /\ IsFiniteSet(recorded) /\ Cardinality(recorded) \in Nat
           /\ IsFiniteSet(AtLimit) /\ Cardinality(AtLimit) \in Nat
           /\ Cardinality(Workers) \in Nat
           /\ Cardinality(AtLimit) <= Cardinality(Workers)
<1>1. IsFiniteSet(recorded)
  BY QueueAssumption, FS_Subset DEF TypeOK
<1>2. AtLimit \in SUBSET Workers
  BY DEF AtLimit
<1>3. IsFiniteSet(AtLimit) /\ Cardinality(AtLimit) <= Cardinality(Workers)
  BY QueueAssumption, <1>2, FS_Subset
<1> QED  BY <1>1, <1>3, QueueAssumption, FS_CardinalityType

LEMMA RoomKept ==
    ASSUME TypeOK, TypeOK', Room, UNCHANGED recorded, AtLimit' \subseteq AtLimit
    PROVE  Room'
<1>1. Cardinality(AtLimit') <= Cardinality(AtLimit)
  BY Sizes, FS_Subset
<1>2. Cardinality(AtLimit') \in Nat
  BY Sizes, FS_Subset, FS_CardinalityType
<1> QED  BY <1>1, <1>2, Sizes, QueueAssumption DEF Room

LEMMA RoomStep == ASSUME IInv, IInv', Room, Next PROVE Room'
<1> USE DEF IInv
<1>1. ASSUME NEW w \in Workers, CheckLimits(w) PROVE Room'
  <2>1. UNCHANGED recorded
    BY <1>1 DEF CheckLimits
  <2>2. CASE wpc' = [wpc EXCEPT ![w] = "fail"]
    <3>1. AtLimit' \subseteq AtLimit
      BY <2>2 DEF AtLimit, TypeOK
    <3> QED  BY <2>1, <3>1, RoomKept
  <2>3. CASE ~LimitReached
    <3>1. Cardinality(recorded) <= DailyLimit - 1
      BY <2>3, Sizes, QueueAssumption DEF LimitReached
    <3>2. /\ AtLimit' \in SUBSET Workers
          /\ Cardinality(AtLimit') <= Cardinality(Workers)
          /\ Cardinality(AtLimit') \in Nat
      BY QueueAssumption, FS_Subset, FS_CardinalityType DEF AtLimit
    <3> QED  BY <2>1, <3>1, <3>2, Sizes, QueueAssumption DEF Room
  <2> QED  BY <1>1, <2>2, <2>3 DEF CheckLimits
<1>2. ASSUME NEW w \in Workers, CreateOrder(w) PROVE Room'
  <2>1. w \in AtLimit /\ AtLimit' = AtLimit \ {w}
    BY <1>2 DEF CreateOrder, AtLimit, TypeOK
  <2>2. Cardinality(AtLimit') = Cardinality(AtLimit) - 1
    BY <2>1, Sizes, FS_RemoveElement
  <2>3. recorded' = recorded \cup {wjob[w]}
    BY <1>2 DEF CreateOrder
  <2>4. Cardinality(recorded') \in {Cardinality(recorded), Cardinality(recorded) + 1}
    BY <2>3, Sizes, FS_AddElement
  <2> QED  BY <2>2, <2>4, Sizes, QueueAssumption DEF Room
<1>3. ASSUME NEW w \in Workers,
             CheckStrategy(w) \/ Login(w) \/ ReadSettings(w) \/ CheckKey(w) \/
             PlaceOrder(w) \/ PlaceRaises(w) \/ Transition(w) \/ Complete(w) \/
             Audit(w) \/ WriteRaises(w) \/ Fail(w) \/ Crash(w) \/ Restart(w)
      PROVE  Room'
  <2>1. UNCHANGED recorded
    BY <1>3 DEF CheckStrategy, Login, ReadSettings, CheckKey, PlaceOrder,
       PlaceRaises, Transition, Complete, Audit, WriteRaises, Fail, Crash, Restart
  <2>2. AtLimit' \subseteq AtLimit
    BY <1>3 DEF CheckStrategy, Login, ReadSettings, CheckKey, PlaceOrder,
       PlaceRaises, Transition, Complete, Audit, WriteRaises, Fail, Crash,
       Restart, AtLimit, TypeOK
  <2> QED  BY <2>1, <2>2, RoomKept
<1>4. ASSUME NEW w \in Workers, NEW j \in Jobs, Claim(w, j) PROVE Room'
  <2>1. UNCHANGED recorded /\ AtLimit' \subseteq AtLimit
    BY <1>4 DEF Claim, AtLimit, TypeOK
  <2> QED  BY <2>1, RoomKept
<1>5. ASSUME NEW j \in Jobs, Enqueue(j) PROVE Room'
  <2>1. UNCHANGED recorded /\ AtLimit' \subseteq AtLimit
    BY <1>5 DEF Enqueue, AtLimit
  <2> QED  BY <2>1, RoomKept
<1>6. CASE Lifecycle \/ KillSwitch
  <2>1. UNCHANGED recorded /\ AtLimit' \subseteq AtLimit
    BY <1>6 DEF Lifecycle, KillSwitch, AtLimit
  <2> QED  BY <2>1, RoomKept
<1> QED
  BY <1>1, <1>2, <1>3, <1>4, <1>5, <1>6 DEF Next, Work

\* Workers that check the daily limit at the same time exceed it by no more
\* than one order for each further worker.
THEOREM LimitIsBounded == Spec => []LimitOvershoot
<1>1. Init => Room
  <2> SUFFICES ASSUME Init PROVE Room
    OBVIOUS
  <2>1. recorded = {} /\ AtLimit = {}
    BY DEF Init, AtLimit
  <2>2. Cardinality(Workers) \in Nat /\ Cardinality({}) = 0
    BY QueueAssumption, FS_EmptySet, FS_CardinalityType
  <2> QED  BY <2>1, <2>2, QueueAssumption DEF Room
<1>2. IInv /\ IInv' /\ Room /\ [Next]_vars => Room'
  <2> SUFFICES ASSUME IInv, IInv', Room, [Next]_vars PROVE Room'
    OBVIOUS
  <2>1. CASE Next
    BY <2>1, RoomStep
  <2>2. CASE UNCHANGED vars
    <3>1. UNCHANGED recorded /\ AtLimit' \subseteq AtLimit
      BY <2>2 DEF vars, AtLimit
    <3> QED  BY <3>1, RoomKept DEF IInv
  <2> QED  BY <2>1, <2>2
<1>3. IInv /\ Room => LimitOvershoot
  BY Sizes, QueueAssumption DEF IInv, Room, LimitOvershoot
<1> QED  BY <1>1, <1>2, <1>3, Invariance, PTL DEF Spec
=============================================================================
