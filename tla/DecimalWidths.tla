--------------------------- MODULE DecimalWidths ---------------------------
(***************************************************************************)
(* The integer widths of the library and the EVM integer operations its    *)
(* code relies on.                                                         *)
(*                                                                         *)
(* The code computes on int256 coefficients and int256 exponents and       *)
(* stores an int224 coefficient beside an int32 exponent.  The widths are  *)
(* constants here.  What the algorithms depend on is where the powers of   *)
(* ten fall between the limits, so a model instance keeps the leading      *)
(* digits of the real limits and drops orders of magnitude:                *)
(*                                                                         *)
(*             code                  |  constant  |  e.g.                  *)
(*     int256.max   = 5.789..e76     |  CoefMax   |  5788                  *)
(*     10^76, the last power below   |  D         |  3                     *)
(*     int224.max   = 1.347..e67     |  PackMax   |  13                    *)
(*     10^67, the last power below   |  PackD     |  1                     *)
(*     the 10^5 jump of packLossy    |  Jump      |  2                     *)
(*     int256.max of an exponent     |  ExpMax    |  40                    *)
(*     int32.max  of an exponent     |  PackExpMax|  4                     *)
(***************************************************************************)
EXTENDS Integers

CONSTANTS
  CoefMax,     \* type(int256).max, of a coefficient
  PackMax,     \* type(int224).max, of a packed coefficient
  ExpMax,      \* type(int256).max, of an exponent
  PackExpMax,  \* type(int32).max, of a packed exponent
  D,           \* 76
  PackD,       \* 67
  Jump,        \* 5, the power of ten packLossy drops at once
  Pow10        \* the EVM's 10 ** n, for every n the code may ask for

(***************************************************************************)
(* Signed types are asymmetric: the minimum is one further from zero.      *)
(***************************************************************************)
CoefMin    == -CoefMax - 1
PackMin    == -PackMax - 1
ExpMin     == -ExpMax - 1
PackExpMin == -PackExpMax - 1
UintMax    == 2 * CoefMax + 1

Coef    == CoefMin..CoefMax
Packed  == PackMin..PackMax
Exp     == ExpMin..ExpMax
PackExp == PackExpMin..PackExpMax

(***************************************************************************)
(* What the real widths satisfy and the algorithms depend on.  10^77 still *)
(* fits a uint256 and 10^76 an int256; 10^67 is the last power of ten an   *)
(* int224 holds; a coefficient of at least 10^72 cannot be packed without  *)
(* dropping 5 digits (10^(PackD+Jump-1) does not fit an int224); ten times *)
(* an int224 fits an int256.  Packed exponents go below 10^-67, and leave  *)
(* room for the digits of two operands in an int256.                       *)
(***************************************************************************)
ASSUME WidthsAreInts ==
  /\ CoefMax \in Nat /\ PackMax \in Nat /\ ExpMax \in Nat /\ PackExpMax \in Nat
  /\ D \in Nat /\ PackD \in Nat /\ Jump \in Nat

ASSUME Pow10Def ==
  /\ Pow10 \in [0..(D + 1) -> Nat \ {0}]
  /\ Pow10[0] = 1 /\ Pow10[1] = 10
  /\ \A m, n \in 0..(D + 1) : m + n <= D + 1 => Pow10[m + n] = Pow10[m] * Pow10[n]

ASSUME WidthsFitDecimals ==
  /\ Pow10[D] <= CoefMax /\ CoefMax < Pow10[D + 1] - 1 /\ Pow10[D + 1] <= UintMax
  /\ 1 <= Jump /\ 1 <= PackD /\ PackD + Jump <= D
  /\ Pow10[PackD] <= PackMax /\ PackMax < Pow10[PackD + 1] - 1 /\ 10 * (PackMax + 1) <= CoefMax

ASSUME ExponentsFit == PackD <= PackExpMax /\ 2 * PackExpMax + 3 * (D + 1) <= ExpMax

-----------------------------------------------------------------------------

(***************************************************************************)
(* Solidity's signed division and remainder: both truncate towards zero.   *)
(***************************************************************************)
Abs(x) == IF x < 0 THEN -x ELSE x

Quot(x, y) == IF (x < 0) = (y < 0) THEN Abs(x) \div Abs(y)
                                    ELSE -(Abs(x) \div Abs(y))

Rem(x, y) == x - y * Quot(x, y)

(***************************************************************************)
(* Two's complement wrap-around of unchecked signed arithmetic.            *)
(***************************************************************************)
WrapTo(x, max) == ((x + max + 1) % (2 * (max + 1))) - max - 1
WrapCoef(x)    == WrapTo(x, CoefMax)
WrapExp(x)     == WrapTo(x, ExpMax)

-----------------------------------------------------------------------------

(***************************************************************************)
(* c1 * 10^e1 and c2 * 10^e2 are the same number, for coefficients below   *)
(* 10^Reach.                                                               *)
(***************************************************************************)
Reach == D + 1

Sign(x) == IF x > 0 THEN 1 ELSE IF x < 0 THEN -1 ELSE 0

SameNumber(c1, e1, c2, e2) ==
  \/ c1 = 0 /\ c2 = 0
  \/ e1 >= e2 /\ e1 - e2 <= Reach /\ c1 * Pow10[e1 - e2] = c2
  \/ e2 >= e1 /\ e2 - e1 <= Reach /\ c2 * Pow10[e2 - e1] = c1

(***************************************************************************)
(* c1 * 10^e1 is the smaller number.  Further apart than Reach, the number *)
(* of the larger exponent is beyond all others.                            *)
(***************************************************************************)
SmallerNumber(c1, e1, c2, e2) ==
  \/ e1 >= e2 /\ e1 - e2 <= Reach /\ c1 * Pow10[e1 - e2] < c2
  \/ e2 >= e1 /\ e2 - e1 <= Reach /\ c1 < c2 * Pow10[e2 - e1]
  \/ e1 - e2 > Reach /\ (c1 < 0 \/ (c1 = 0 /\ c2 > 0))
  \/ e2 - e1 > Reach /\ (c2 > 0 \/ (c2 = 0 /\ c1 < 0))

(***************************************************************************)
(* c * 10^e is m * 10^p, or m / d * 10^p, cut off after c's last digit.    *)
(***************************************************************************)
CutDigits(c, e, m, p) == \E k \in 0..Reach : e = p + k /\ c = m \div Pow10[k]

CutQuotient(c, e, m, d, p) ==
  \E k \in 0..Reach : \/ e = p + k /\ c = m \div (d * Pow10[k])
                      \/ e = p - k /\ c = (m * Pow10[k]) \div d
=============================================================================
