--------------------------- MODULE MCStrategyJobs ---------------------------
(* The instances of StrategyJobs that TLC checks. *)
EXTENDS StrategyJobs

CONSTANTS j1, j2, j3

\* Two requests with one key, and a third with a key of its own.
MCKeyOf == [j \in {j1, j2, j3} |-> IF j = j3 THEN "k2" ELSE "k1"]
=============================================================================
