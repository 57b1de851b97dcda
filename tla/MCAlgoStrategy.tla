--------------------------- MODULE MCAlgoStrategy ---------------------------
(* The instances of AlgoStrategy that TLC checks. *)
EXTENDS AlgoStrategy, TLC

MCAllOps    == AllOps
MCAllFaults == AllFaults

\* Requests differ by nothing but their name.
MCSymmetry  == Permutations(Requests)
=============================================================================
