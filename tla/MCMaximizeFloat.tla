-------------------------- MODULE MCMaximizeFloat --------------------------
(***************************************************************************)
(* Widths with seven decimals: two stages of one digit leave the loop up   *)
(* to two rounds, the last two stages and a digit to spare.                *)
(***************************************************************************)
EXTENDS MaximizeFloat, TLC

MCPow10  == [n \in 0..(D + 1) |-> <<1, 10, 100, 1000, 10000, 100000, 1000000, 10000000, 100000000>>[n + 1]]
MCStages == <<1, 1>>

(***************************************************************************)
(* Every number of digits, the edges of each and of int256, both signs.    *)
(***************************************************************************)
Positive == UNION {{Pow10[k] - 1, Pow10[k], Pow10[k] + 1, 5 * Pow10[k] - 1} : k \in 0..D}
            \cup {CoefMax \div 10, CoefMax \div 10 + 1, CoefMax - 1, CoefMax}
MCCoefficients == Positive \cup {-x : x \in Positive} \cup {0, CoefMin, CoefMin \div 10}

(***************************************************************************)
(* From no headroom at all to more than any coefficient can use.           *)
(***************************************************************************)
MCExponents == ExpMin..(ExpMin + D + 2) \cup {0, ExpMax}
=============================================================================
