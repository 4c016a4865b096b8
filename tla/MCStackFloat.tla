---------------------------- MODULE MCStackFloat ----------------------------
(***************************************************************************)
(* int256 coefficients of up to four digits around every power of ten and  *)
(* limit, exponents around both limits of int256 and around zero.          *)
(***************************************************************************)
EXTENDS StackFloat, ExactNumbers

MCPow10 == [n \in 0..(D + 1) |-> ten[n]]
MCDigitSteps == <<2, 1, 1, 1>>

Positive == {1, 3, 9, 10, 99, 578, 579, 999, 1000, 1157, 2894, CoefMax - 1, CoefMax}
MCCoefficients == Positive \cup {-x : x \in {1, 7, 10, 578, 1000, CoefMax}} \cup {0, CoefMin}

MCExponents == ExpMin..(ExpMin + 1) \cup (ExpMin + D)..(ExpMin + D + 3)
               \cup {-D - 2, -1, 0, D + 1} \cup (ExpMax - 1)..ExpMax
=============================================================================
