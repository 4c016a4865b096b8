----------------------------- MODULE MCPowFloat -----------------------------
(***************************************************************************)
(* Numbers of three digits on a stack of four, and tables of two digits.   *)
(***************************************************************************)
EXTENDS PowFloat, TwoDigitTables

MCPow10 == [k \in 0..(D + 1) |-> ten[k]]
MCDigitSteps == <<2, 1, 1, 1>>

(***************************************************************************)
(* Every positive coefficient: the ones whose powers are cut in the loop,  *)
(* such as 78, are few and far between.                                    *)
(***************************************************************************)
MCBases == [c : -1..PackMax, e : {-7, -6, -3, -2, -1, 0, 1, 2, 3, 6}]
MCPowers == [c : {-134, -100, -35, -10, -5, -3, -2, -1, 0, 1, 2, 3, 4, 5, 6, 9, 10, 15, 25, 50, 99, 100, 133, 134},
             e : {-7, -6, -3, -2, -1, 0, 1, 2, 4}]
            \cup {[c |-> PackMin, e |-> -1], [c |-> PackMin, e |-> PackExpMax]}
=============================================================================
