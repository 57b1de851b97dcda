------------------------- MODULE MCDirectStrategies -------------------------
(***************************************************************************)
(* One strategy of each of the three families, live and on paper.  A case  *)
(* gives its family, whether it is live, whether the account is AliceBlue's*)
(* and the windows it lasts, its limit of trades per day, how many entries *)
(* the signals ask for, the slices of an entry, how many requests and      *)
(* crashes may upset it, which requests, and which faults.  With all       *)
(* requests and faults one entry is enough to lose or forget units; a      *)
(* second position needs a second entry, and fewer upsets.                 *)
(***************************************************************************)
EXTENDS DirectStrategies

Case(f, l, w, d, n, e, s, u, o, a) ==
    [family |-> f, live |-> l, window |-> w, sides |-> d, limit |-> n, entries |-> e, slices |-> s,
     upsets |-> u, ops |-> o, faults |-> a]
All == {"stop", "delete", "start", "edit", "exit"}
MCCases == {Case("futures", TRUE, "none", {2}, 1, 1, 2, 1, All, Faults),
            Case("futures", TRUE, "none", {1}, 1, 2, 1, 1, {"stop"}, {}),
            Case("futures", TRUE, "none", {1}, 1, 2, 1, 0, {}, Faults),
            Case("futures", TRUE, "many", {1, 2}, 1, 1, 2, 0, {}, Faults),
            Case("futures", TRUE, "one", {1}, 1, 2, 1, 1, {}, {"lost_reply"}),
            Case("futures", TRUE, "one", {2}, 1, 1, 2, 1, {"stop", "start"}, {"raise", "lost_reply", "blind"}),
            Case("futures", FALSE, "none", {1}, 1, 1, 1, 1, All, Faults),
            Case("equity", TRUE, "none", {1}, 1, 1, 1, 1, All, Faults),
            Case("equity", TRUE, "none", {1}, 1, 2, 1, 0, {}, {"raise", "lost_reply"}),
            Case("mcx", TRUE, "many", {1}, 1, 1, 1, 1, All, Faults),
            Case("mcx", TRUE, "many", {1}, 1, 2, 1, 1, {"stop"}, {"raise", "lost_reply"}),
            Case("mcx", FALSE, "none", {1}, 1, 1, 1, 2, {"stop", "edit"}, {}),
            Case("futures", FALSE, "none", {1}, 1, 3, 1, 0, {}, {}),
            Case("mcx", TRUE, "one", {1, 2}, 2, 2, 1, 0, {}, {"lost_reply"}),
            Case("mcx", TRUE, "one", {1, 2}, 3, 3, 1, 0, {}, {})}
=============================================================================
