----------------------------- MODULE MCLogFloat -----------------------------
(***************************************************************************)
(* Numbers of four digits on a stack of five, and tables of two digits.    *)
(* The value used for the last antilog, 97, is one below the rounded one,  *)
(* as it is in the code.                                                   *)
(***************************************************************************)
EXTENDS LogFloat, TwoDigitTables

MCPow10 == [n \in 0..(D + 1) |-> ten[n]]
MCDigitSteps == <<2, 1, 1, 1>>

(***************************************************************************)
(* All coefficients of two digits and the ones around each limit.          *)
(***************************************************************************)
MCFloats == [c : -120..140 \cup 570..600 \cup 890..1020 \cup (PackMax - 9)..PackMax \cup {PackMin},
             e : PackExp]

(***************************************************************************)
(* "y = y1 + ((x - x1) * (y2 - y1)) / (x2 - x1)" (unitLinearInterpolation): *)
(* log10 is the linear interpolation of the table.  The position x2 is     *)
(* computed unchecked and wraps for coefficients whose next table entry    *)
(* lies above int256.max.                                                  *)
(***************************************************************************)
LogIsInterpolatedEverywhere ==
  Returned("log10") /\ Order(a) >= 0 => WithinOneUnit(out, InterpolatedLog(a), LogUnit(a))
=============================================================================
