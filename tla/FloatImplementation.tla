------------------------ MODULE FloatImplementation ------------------------
(***************************************************************************)
(* The arithmetic of LibDecimalFloatImplementation: pure functions on an   *)
(* int256 coefficient and an int256 exponent.  A function returns the      *)
(* number <<c, e>> or fails with the name of its error; "Panic" is the     *)
(* EVM's own revert on overflow of checked arithmetic.  The 512 bit        *)
(* product and quotient (mul512, mulDiv) are exact integers here.          *)
(***************************************************************************)
EXTENDS MaximizeContract, Sequences

CONSTANTS
  DigitSteps,  \* <<37, 18, 9, 4>>, mul's descent to a digit count
  DivRungs     \* {5, 10, 14, 19, .., 73}, where div's search for a scale may end

ASSUME DigitStepsAssumption == DigitSteps \in [1..4 -> 1..D]

ASSUME DivRungsAssumption == DivRungs \subseteq 1..D

Num(c, e)   == [status |-> "ok", c |-> c, e |-> e]
Fail(error) == [status |-> error, c |-> 0, e |-> 0]
MaximizedZero == Num(0, 0)

Checked(c, e) == IF e \in Exp THEN Num(c, e) ELSE Fail("Panic")

(***************************************************************************)
(* minus.                                                                  *)
(***************************************************************************)
Minus(c, e) ==
  CASE c # CoefMin               -> Num(-c, e)
    [] c = CoefMin /\ e = ExpMax -> Fail("ExponentOverflow")
    [] c = CoefMin /\ e < ExpMax -> Num(-Quot(c, 10), e + 1)

(***************************************************************************)
(* Mutants of UnabsLossy: the exponent kept when a digit goes for the sign; *)
(* the sign of a alone.                                                    *)
(***************************************************************************)
UnabsKeepsExponent(a, b, m, e) ==
  LET sign == IF (a < 0) # (b < 0) THEN -1 ELSE 1
  IN  Num(sign * (IF m <= CoefMax THEN m ELSE m \div 10), e)

UnabsSignOfFirst(a, b, m, e) ==
  LET sign == IF a < 0 THEN -1 ELSE 1
  IN  IF m <= CoefMax THEN Num(sign * m, e) ELSE Checked(sign * (m \div 10), e + 1)

(***************************************************************************)
(* unabsUnsignedMulOrDivLossy: the magnitude m gets the sign of a * b.     *)
(***************************************************************************)
UnabsLossy(a, b, m, e) ==
  LET opposite == (a < 0) # (b < 0)
      sign     == IF opposite THEN -1 ELSE 1
  IN  IF m <= CoefMax \/ (opposite /\ m = CoefMax + 1)
        THEN Num(sign * m, e)
        ELSE Checked(sign * (m \div 10), e + 1)

(***************************************************************************)
(* mulDiv: x * y / d, refused when it does not fit a uint256.              *)
(***************************************************************************)
High(p) == p \div (UintMax + 1)

MulDivLossy(a, b, x, y, d, e) ==
  IF High(x * y) >= d THEN Fail("MulDivOverflow")
                      ELSE UnabsLossy(a, b, (x * y) \div d, e)

(***************************************************************************)
(* mul: the product keeps the digits a uint256 holds.  adjustExponent is   *)
(* the number of digits of the high word, found by coarse steps and a loop *)
(* of single digits.                                                       *)
(***************************************************************************)
(***************************************************************************)
(* Mutant of DigitCount: the last digit is not counted.                    *)
(***************************************************************************)
DigitCountShort(high) ==
  CHOOSE n \in 0..(D + 1) : /\ high \div Pow10[n] < 10
                            /\ \A m \in 0..(n - 1) : high \div Pow10[m] >= 10

CoarseStep(acc, n) ==
  IF acc.high > Pow10[n] THEN [high |-> acc.high \div Pow10[n], count |-> acc.count + n] ELSE acc

DigitCount(high) ==
  LET half == CoarseStep(CoarseStep([high |-> high, count |-> 0], DigitSteps[1]), DigitSteps[2])
      left == CoarseStep(CoarseStep(half, DigitSteps[3]), DigitSteps[4])
  IN  left.count + CHOOSE n \in 0..(D + 1) : /\ left.high \div Pow10[n] = 0
                                             /\ \A m \in 0..(n - 1) : left.high \div Pow10[m] > 0

Mul(ca, ea, cb, eb) ==
  LET adjust == DigitCount(High(Abs(ca) * Abs(cb)))
  IN  CASE ca = 0 \/ cb = 0 -> MaximizedZero
        [] ca # 0 /\ cb # 0 /\ {ea + eb, ea + eb + adjust} \subseteq Exp ->
             MulDivLossy(ca, cb, Abs(ca), Abs(cb), Pow10[adjust], ea + eb + adjust)
        [] OTHER -> Fail("Panic")

(***************************************************************************)
(* div scales the maximized dividend a up by the largest power of ten that *)
(* is smaller than the maximized divisor b.  If b is not full, a binary    *)
(* search finds the first rung above b, or the top of the ladder, and a    *)
(* loop takes the scale down from there while b is not above it.  What it  *)
(* takes the scale of 1 to is reported by Div.                             *)
(***************************************************************************)
FirstRung(b) ==
  CHOOSE r \in DivRungs \cup {D} :
    Abs(b) < Pow10[r] /\ \A s \in DivRungs : Abs(b) < Pow10[s] => r <= s

ScaleBelow(b, rung) ==
  CHOOSE n \in 0..rung : Pow10[n] < Abs(b) /\ \A k \in (n + 1)..rung : Abs(b) <= Pow10[k]

(***************************************************************************)
(* Mutant of DivScale: the loop behind the search left out.                *)
(***************************************************************************)
DivScaleWithoutLoop(b) ==
  CASE Abs(b.c) >= Pow10[D]           -> D
    [] Abs(b.c) < Pow10[D] /\ b.full  -> D - 1
    [] Abs(b.c) < Pow10[D] /\ ~b.full -> FirstRung(b.c)

DivScale(b) ==
  CASE Abs(b.c) >= Pow10[D]           -> D
    [] Abs(b.c) < Pow10[D] /\ b.full  -> D - 1
    [] Abs(b.c) < Pow10[D] /\ ~b.full -> ScaleBelow(b.c, FirstRung(b.c))

(***************************************************************************)
(* Mutant of DivExponents: all of the scale goes to the divisor's exponent. *)
(***************************************************************************)
DivExponentsAllToDivisor(ea, eb, n) ==
  IF n <= ea - ExpMin THEN [a |-> ea - n, b |-> eb, gone |-> FALSE]
                      ELSE [a |-> ExpMin, b |-> eb + n, gone |-> eb > ExpMax - n]

(***************************************************************************)
(* The scale is taken from the dividend's exponent, and what that cannot   *)
(* give is added to the divisor's; gone is TRUE when neither can.          *)
(***************************************************************************)
DivExponents(ea, eb, n) ==
  LET rest == n - (ea - ExpMin)
  IN  IF rest <= 0 THEN [a |-> ea - n, b |-> eb, gone |-> FALSE]
                   ELSE [a |-> ExpMin, b |-> eb + rest, gone |-> eb > ExpMax - rest]

DivMaximized(a, b) ==
  LET n == DivScale(b)
      x == DivExponents(a.e, b.e, n)
      headroom    == x.a - ExpMin
      underflowBy == IF x.a < 0 /\ x.b > headroom THEN x.b - headroom ELSE 0
      q == MulDivLossy(a.c, b.c, Abs(a.c), Pow10[n], Abs(b.c),
                       WrapExp(x.a + underflowBy - x.b))
      shifted == Quot(q.c, Pow10[underflowBy])
  IN  CASE x.gone -> MaximizedZero
        [] ~x.gone /\ (underflowBy = 0 \/ q.status # "ok") -> q
        [] ~x.gone /\ q.status = "ok" /\ underflowBy > D  -> MaximizedZero
        [] ~x.gone /\ q.status = "ok" /\ underflowBy \in 1..D ->
             IF shifted = 0 THEN MaximizedZero ELSE Num(shifted, q.e)

(***************************************************************************)
(* Mutant of Div: a zero dividend returned before the divisor is looked at. *)
(***************************************************************************)
DivZeroFirst(ca, ea, cb, eb) ==
  CASE ca = 0            -> MaximizedZero
    [] ca # 0 /\ cb = 0  -> Fail("DivisionByZero")
    [] ca # 0 /\ cb # 0  -> DivMaximized(Maximize(ca, ea), Maximize(cb, eb))

Div(ca, ea, cb, eb) ==
  LET a == Maximize(ca, ea)
      b == Maximize(cb, eb)
      small == Abs(b.c) < Pow10[D]
  IN  CASE cb = 0            -> Fail("DivisionByZero")
        [] cb # 0 /\ ca = 0 -> MaximizedZero
        [] cb # 0 /\ ca # 0 /\ small /\ (Abs(b.c) = 1 \/ ~a.full) -> Fail("MaximizeOverflow")
        [] OTHER -> DivMaximized(a, b)

Inv(c, e) == Div(Pow10[D], -D, c, e)

(***************************************************************************)
(* Mutants of addition: the exponent kept when a carry drops a digit; the  *)
(* exponents swapped without the coefficients; operands not maximized.     *)
(***************************************************************************)
AddAlignedKeepsExponent(c1, c2, e) ==
  Num(IF c1 + c2 \in Coef THEN c1 + c2 ELSE WrapCoef(Quot(c1, 10) + Quot(c2, 10)), e)

AddMaximizedHalfSwapped(a, b) ==
  LET diff == Abs(a.e - b.e)
      e    == IF b.e > a.e THEN b.e ELSE a.e
  IN  IF diff > D THEN Num(a.c, e)
                  ELSE AddAlignedKeepsExponent(a.c, Quot(b.c, Pow10[diff]), e)

AddUnmaximized(ca, ea, cb, eb) ==
  LET large == IF eb > ea THEN cb ELSE ca
      small == IF eb > ea THEN ca ELSE cb
      e     == IF eb > ea THEN eb ELSE ea
      diff  == Abs(ea - eb)
  IN  CASE ca = 0 -> Num(cb, eb)
        [] ca # 0 /\ cb = 0 -> Num(ca, ea)
        [] ca # 0 /\ cb # 0 -> Num(large + (IF diff > D THEN 0 ELSE Quot(small, Pow10[diff])), e)

(***************************************************************************)
(* add: both operands maximized, the one of the smaller exponent truncated *)
(* to the other's exponent, or ignored if that is too far away.            *)
(***************************************************************************)
AddAligned(c1, c2, e) ==
  CASE c1 + c2 \in Coef                     -> Num(c1 + c2, e)
    [] c1 + c2 \notin Coef /\ e = ExpMax -> Fail("ExponentOverflow")
    [] c1 + c2 \notin Coef /\ e < ExpMax -> Num(WrapCoef(Quot(c1, 10) + Quot(c2, 10)), e + 1)

AddMaximized(a, b) ==
  LET large == IF b.e > a.e THEN b ELSE a
      small == IF b.e > a.e THEN a ELSE b
      diff  == large.e - small.e
  IN  IF diff > D THEN Num(large.c, large.e)
                  ELSE AddAligned(large.c, Quot(small.c, Pow10[diff]), large.e)

Add(ca, ea, cb, eb) ==
  LET a == Maximize(ca, ea)
      b == Maximize(cb, eb)
  IN  CASE ca = 0             -> Num(cb, eb)
        [] ca # 0 /\ cb = 0  -> Num(ca, ea)
        [] ca # 0 /\ cb # 0 /\ ~(a.full /\ b.full) -> Fail("MaximizeOverflow")
        [] OTHER -> AddMaximized(a, b)

Sub(ca, ea, cb, eb) ==
  LET negated == Minus(cb, eb)
  IN  IF negated.status # "ok" THEN negated ELSE Add(ca, ea, negated.c, negated.e)

(***************************************************************************)
(* Mutants of RescaledPair: a product that wraps is used; numbers too far  *)
(* apart are compared by their coefficients.                               *)
(***************************************************************************)
RescaledPairWraps(large, diff, small) ==
  IF diff < 0 \/ diff > D THEN <<large, 0>> ELSE <<WrapCoef(large * Pow10[diff]), small>>

RescaledPairKeepsSmall(large, diff, small) ==
  LET scale    == Pow10[IF diff \in 0..D THEN diff ELSE 0]
      rescaled == WrapCoef(large * scale)
  IN  IF diff \in 0..D /\ Quot(rescaled, scale) = large
        THEN <<rescaled, small>> ELSE <<large, small>>

(***************************************************************************)
(* compareRescale: two coefficients that compare as the numbers do.  The   *)
(* number with the larger exponent is scaled up; if it leaves int256, or   *)
(* the exponents are too far apart, the other is replaced by zero.  The    *)
(* difference of the exponents is computed unchecked.                      *)
(***************************************************************************)
RescaledPair(large, diff, small) ==
  LET tooFar   == diff < 0 \/ diff > D
      scale    == Pow10[IF tooFar THEN 0 ELSE diff]
      rescaled == WrapCoef(large * scale)
  IN  IF tooFar \/ Quot(rescaled, scale) # large
        THEN <<large, 0>> ELSE <<rescaled, small>>

CompareRescale(ca, ea, cb, eb) ==
  LET swapped == RescaledPair(cb, WrapExp(eb - ea), ca)
  IN  CASE ca = 0 \/ cb = 0 \/ (ca < 0) # (cb < 0) \/ ea = eb -> <<ca, cb>>
        [] OTHER -> IF eb > ea THEN <<swapped[2], swapped[1]>>
                               ELSE RescaledPair(ca, WrapExp(ea - eb), cb)

(***************************************************************************)
(* intFrac: both parts keep the exponent of the number.                    *)
(***************************************************************************)
IntFrac(c, e) ==
  LET frac == Rem(c, Pow10[IF e \in -D..-1 THEN -e ELSE 0])
  IN  CASE e >= 0     -> [integer |-> c, frac |-> 0]
        [] e < -D     -> [integer |-> 0, frac |-> c]
        [] e \in -D..-1 -> [integer |-> c - frac, frac |-> frac]
=============================================================================
