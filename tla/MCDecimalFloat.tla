--------------------------- MODULE MCDecimalFloat ---------------------------
(***************************************************************************)
(* Every packed float of a model with one packed decimal digit (int224     *)
(* holds -14..13), three in an int256, exponents -4..3.                    *)
(***************************************************************************)
EXTENDS DecimalFloatCorrect

MCPow10 == [n \in 0..(D + 1) |-> ten[n]]
MCDigitSteps == <<2, 1, 1, 1>>

AllFloats == PackedFloat

NoValues == {}

Arithmetic == {"add", "sub", "mul", "div", "minus", "abs", "inv"}
Comparison == {"eq", "lt", "gt", "lte", "gte", "isZero", "min", "max"}
Rounding   == {"floor", "ceil", "integer", "frac"}
FixedPoint == ToFixed \cup FromFixed
AllCalls == Arithmetic \cup Comparison \cup Rounding \cup FixedPoint \cup Constants
FourOperations == {"add", "sub", "mul", "div"}

(***************************************************************************)
(* Fixed point values around every limit of the conversions.               *)
(***************************************************************************)
MCValues == 0..30 \cup 128..152 \cup {999, 1000, 1001, 1300, 1399, 1400}
            \cup (CoefMax - 12)..(CoefMax + 12) \cup (UintMax - 12)..UintMax
MCDecimals == 0..5

(***************************************************************************)
(* Floats of four digits, whose products exceed a uint256 as those of the  *)
(* 67 digits of the code do; some are the same number written twice.       *)
(***************************************************************************)
WidePositive == {1, 3, 9, 10, 86, 99, 116, 134, 429, 579, 999, 1000, 1003, 1158, PackMax - 1, PackMax}
WideFloats == [c : WidePositive \cup {-1, -7, -1000, -1158, PackMin}, e : {-4, -3, 0, 3}]

NoTexts == {}
NoLimits == {}

(***************************************************************************)
(* Texts around the limits of each width: digits that only fit with or     *)
(* without their fraction, products that wrap back into an int224, both    *)
(* signs, long fractions, exponents at the ends of both exponent types,    *)
(* missing digits and characters too many.                                 *)
(***************************************************************************)
MCWholes == {NoDigits, Digits(0, 1), Digits(0, 3), Digits(1, 1), Digits(7, 2)}
            \cup {Digits(n, Length(n)) : n \in {13, 134, 135, PackMax, PackMax + 1, PackMax + 2, 1158,
                                               11580, CoefMax, CoefMax + 1, CoefMax + 2}}
MCFracs == {Digits(0, 2), Digits(5, 1), Digits(50, 2), Digits(3, 2), Digits(7, 1), Digits(9, 1),
            Digits(347, 3), Digits(8, 3), Digits(1, 4), Digits(1000, 4)}
MCLongFracs == {Digits(CoefMax, 5), Digits(CoefMax + 2, 5), Digits(134700, 6)}
MCExps == {Digits(n, Length(Abs(n))) :
             n \in {ExpMin - 1, ExpMin, ExpMin + 1, PackExpMin - 3, PackExpMin - 1, PackExpMin, -1, 0, 1,
                    PackExpMax, PackExpMax + 1, PackExpMax + 3, PackExpMax + 4, ExpMax, ExpMax + 1}}

WithPoint == {Number(minus, whole, frac, NoDigits) : minus \in BOOLEAN, whole \in MCWholes,
                                                     frac \in MCFracs \cup {NoDigits}}
             \cup {Number(minus, Digits(n, 2), frac, NoDigits) : minus \in BOOLEAN, n \in {0, 13},
                                                                frac \in MCLongFracs}
WithMark == {[t EXCEPT !.mark = TRUE, !.exp = exp] : t \in WithPoint, exp \in MCExps \cup {NoDigits}}
MCTexts == WithPoint \cup WithMark
           \cup {[t EXCEPT !.rest = TRUE] : t \in WithPoint}
           \cup {[t EXCEPT !.point = TRUE] : t \in WithPoint}

MCLimits == [min : {[c |-> 1, e |-> -3], [c |-> 999, e |-> -3], [c |-> -7, e |-> 0]},
             max : {[c |-> 1, e |-> 3], [c |-> 1000, e |-> -3]}]
MCDefaultLimits == [min |-> [c |-> 1, e |-> -2], max |-> [c |-> 1, e |-> 2]]
WideCalls == FourOperations \cup Text
=============================================================================
