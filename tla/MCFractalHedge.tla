--------------------------- MODULE MCFractalHedge ---------------------------
(***************************************************************************)
(* Values for TLC: the selected broker decides which exit code runs.       *)
(***************************************************************************)
EXTENDS FractalHedge

Account(b, l, u, s) == [broker |-> b, live |-> l, usetype |-> u, status |-> s]

MCAccounts ==
    {Account("aliceblue", TRUE, TRUE, "opened"), Account("aliceblue", TRUE, FALSE, "closed"),
     Account("dhan", TRUE, TRUE, "opened"),
     Account("other", TRUE, FALSE, "closed"), Account("other", FALSE, TRUE, "opened")}

=============================================================================
