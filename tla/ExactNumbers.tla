---------------------------- MODULE ExactNumbers ----------------------------
(***************************************************************************)
(* Exact decimal arithmetic, the reference that results are held against.  *)
(* A number is an unbounded integer times a power of ten.  Orders are      *)
(* decided by dividing, so that products of full coefficients stay small.  *)
(***************************************************************************)
EXTENDS DecimalWidths

ten[n \in Nat] == IF n = 0 THEN 1 ELSE 10 * ten[n - 1]

(***************************************************************************)
(* n \div 10^x.  Of a number of at most nine digits nothing is left after  *)
(* more than nine are cut off.                                             *)
(***************************************************************************)
CutTo(n, x) == IF x > 9 /\ n < ten[9] THEN 0 ELSE n \div ten[x]

(***************************************************************************)
(* m * 10^p < n * 10^q for m >= 0: what is left of an integer after a cut  *)
(* compares as the integer does.                                           *)
(***************************************************************************)
Below(m, p, n, q) == IF p >= q THEN n > 0 /\ m <= CutTo(n - 1, p - q)
                               ELSE CutTo(m, q - p) < n

LessNumber(c1, e1, c2, e2) ==
  CASE Sign(c1) # Sign(c2)           -> Sign(c1) < Sign(c2)
    [] Sign(c1) = Sign(c2) /\ c1 > 0 -> Below(c1, e1, c2, e2)
    [] Sign(c1) = Sign(c2) /\ c1 < 0 -> Below(-c2, e2, -c1, e1)
    [] c1 = 0 /\ c2 = 0               -> FALSE

AtMost(c1, e1, c2, e2) == ~LessNumber(c2, e2, c1, e1)

(***************************************************************************)
(* The order of magnitude of x > 0: 10^Order(x) <= x < 10^(Order(x) + 1).  *)
(* No coefficient and no exponent has more digits than Length looks for.   *)
(***************************************************************************)
Length(n) == CHOOSE k \in 1..(D + 1 + ExpMax) : n < ten[k] /\ (k > 1 => n >= ten[k - 1])
Order(x)  == x.e + Length(x.c) - 1

(***************************************************************************)
(* The integer below a number, and what is left, in units of 10^x.e.       *)
(***************************************************************************)
FloorOf(x)    == IF x.e >= 0 THEN x.c * ten[x.e] ELSE x.c \div ten[-x.e]
FractionOf(x) == IF x.e >= 0 THEN 0 ELSE x.c % ten[-x.e]
IsInteger(x)  == FractionOf(x) = 0
=============================================================================
