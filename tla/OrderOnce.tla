----------------------------- MODULE OrderOnce -----------------------------
(***************************************************************************)
(* What the order queue promises of idempotency keys: at any time a key    *)
(* carries at most one order that a broker accepted and that was not       *)
(* reported failed.                                                        *)
(***************************************************************************)
EXTENDS Naturals

CONSTANTS Jobs, KeyOf

VARIABLE standing   \* accepted orders of each job, failed jobs aside

Init == standing = [j \in Jobs |-> 0]

SameKey(i, j) == KeyOf[i] = KeyOf[j]

Accept(j) ==
    /\ \A i \in Jobs : SameKey(i, j) => standing[i] = 0
    /\ standing' = [standing EXCEPT ![j] = 1]

\* The job is reported failed: whoever asked may ask again with its key.
Withdraw(j) ==
    /\ standing[j] = 1
    /\ standing' = [standing EXCEPT ![j] = 0]

Next == \E j \in Jobs : Accept(j) \/ Withdraw(j)

Spec == Init /\ [][Next]_standing
=============================================================================
