------------------------ MODULE DecimalFloatCorrect ------------------------
(***************************************************************************)
(* What the operations of DecimalFloat promise, against exact arithmetic.  *)
(* A number is a coefficient and an exponent in unbounded integers.        *)
(***************************************************************************)
EXTENDS DecimalFloat

fn == call[1]
a  == call[2]
b  == call[3]

Done(names) == fn \in names /\ call # Idle
Returned(names) == Done(names) /\ out.status = "ok"

(***************************************************************************)
(* r is m * 10^e, for a magnitude m, with its last digits cut off, and     *)
(* keeps as many digits as an int224 holds.                                *)
(***************************************************************************)
Truncates(r, m, e) ==
  /\ CutDigits(Abs(r.c), r.e, m, e)
  /\ r.e = e \/ Abs(r.c) >= PackMax \div 10

(***************************************************************************)
(* mul returns the exact product truncated once, at full precision, though *)
(* it truncates to 256 bits first, may drop one digit for the sign bit and *)
(* then packs.                                                             *)
(***************************************************************************)
ProductIsTruncated ==
  Returned({"mul"}) =>
    /\ Sign(out.c) = Sign(a.c) * Sign(b.c)
    /\ a.c * b.c # 0 => Truncates(out, Abs(a.c * b.c), a.e + b.e)

(***************************************************************************)
(* r is the quotient of x and y with its digits cut off once, and has as   *)
(* many digits as an int224 holds.  Up to 2 * D + 1 digits are added to x  *)
(* before the division.                                                    *)
(***************************************************************************)
TruncatesQuotient(r, x, y) ==
  /\ Sign(r.c) = Sign(x.c) * Sign(y.c)
  /\ x.c # 0 =>
       /\ \E i \in 0..D :
            CutQuotient(Abs(r.c), r.e, Abs(x.c) * Pow10[i], Abs(y.c), x.e - i - y.e)
       /\ Abs(r.c) >= PackMax \div 10

(***************************************************************************)
(* div and inv return the exact quotient truncated once, at full           *)
(* precision: neither the choice of the scale nor the two later cuts lose  *)
(* a digit.                                                                *)
(***************************************************************************)
QuotientIsTruncated ==
  /\ Returned({"div"}) => TruncatesQuotient(out, a, b)
  /\ Returned({"inv"}) => TruncatesQuotient(out, [c |-> 1, e |-> 0], a)

(***************************************************************************)
(* minus and abs return the exact negation, except for the one coefficient *)
(* whose negation an int224 does not hold, which is truncated.             *)
(***************************************************************************)
NegationIsExact ==
  Returned({"minus", "abs"}) =>
    LET sign == IF fn = "minus" \/ a.c < 0 THEN -1 ELSE 1
    IN  IF a.c = PackMin THEN Truncates(out, -a.c, a.e) /\ out.c > 0
                         ELSE SameNumber(out.c, out.e, sign * a.c, a.e)

(***************************************************************************)
(* Every result of mul, div, inv, minus and abs is the exact one truncated *)
(* once, at full precision.                                                *)
(***************************************************************************)
ResultsAreTruncated == ProductIsTruncated /\ QuotientIsTruncated /\ NegationIsExact

(***************************************************************************)
(* The exact sum or difference of the arguments.                           *)
(***************************************************************************)
SumExponent == IF a.e < b.e THEN a.e ELSE b.e
ExactSum == a.c * ten[a.e - SumExponent]
            + (IF fn = "sub" THEN -b.c ELSE b.c) * ten[b.e - SumExponent]

(***************************************************************************)
(* add and sub are within one unit of the last place of the exact result,  *)
(* also when operands of different signs cancel: the digits lost in the    *)
(* alignment are below what is packed.                                     *)
(***************************************************************************)
SumIsWithinOneUnit ==
  Returned({"add", "sub"}) =>
    LET m == IF out.e < SumExponent THEN out.e ELSE SumExponent
    IN  Abs(ExactSum * ten[SumExponent - m] - out.c * ten[out.e - m]) < ten[out.e - m]

(***************************************************************************)
(* No internal error reaches a caller: for packed inputs the widths of the *)
(* stack values suffice (no MaximizeOverflow, MulDivOverflow, Panic), and  *)
(* division by zero is reported exactly for a zero divisor.                *)
(***************************************************************************)
OnlyDocumentedErrors ==
  Done({"add", "sub", "mul", "div", "minus", "abs", "inv", "integer", "frac", "floor", "ceil"}) =>
    /\ out.status \in {"ok", "DivisionByZero", "ExponentOverflow", "ExponentUnderflow"}
    /\ (out.status = "DivisionByZero") =
         ((fn = "div" /\ b.c = 0) \/ (fn = "inv" /\ a.c = 0))

(***************************************************************************)
(* The digits the exact product loses to fit an int224: as few as possible. *)
(***************************************************************************)
ProductLoses(k) ==
  /\ Quot(a.c * b.c, ten[k]) \in Packed
  /\ \A j \in 0..(k - 1) : Quot(a.c * b.c, ten[j]) \notin Packed

(***************************************************************************)
(* An overflow of add, sub, div, inv, minus and abs is one of a number     *)
(* above the largest float.  mul goes by the exponent: it overflows only   *)
(* if the exact product, cut to what an int224 holds and no shorter, has   *)
(* an exponent above an int32.  (No digits move from the exponent into a   *)
(* short coefficient: mul(1e1, 1e2147483647) overflows, and 10e2147483647  *)
(* is a float.)                                                            *)
(***************************************************************************)
OverflowIsReal ==
  out.status = "ExponentOverflow" =>
    CASE fn \in {"add", "sub"} -> PackMax * ten[PackExpMax - SumExponent] < Abs(ExactSum)
      [] fn = "div" -> LessNumber(PackMax * Abs(b.c), PackExpMax, Abs(a.c), a.e - b.e)
      [] fn = "inv" -> LessNumber(PackMax * Abs(a.c), PackExpMax, 1, -a.e)
      [] fn \in {"minus", "abs"} -> a = [c |-> PackMin, e |-> PackExpMax]
      [] fn = "mul" -> \E k \in 0..Reach : ProductLoses(k) /\ a.e + b.e + k > PackExpMax
      [] OTHER -> FALSE

(***************************************************************************)
(* mul underflows only if the exponent of the product so cut is below an   *)
(* int32, and is not zero.  The other calculations fill the coefficient    *)
(* first, and underflow only below the smallest float with a full one:     *)
(* inv(1e2147483600) underflows, and 1e-2147483600 is a float.             *)
(***************************************************************************)
UnderflowIsReal ==
  out.status = "ExponentUnderflow" =>
    CASE fn \in {"add", "sub"} -> LessNumber(Abs(ExactSum), SumExponent, PackMax + 2, PackExpMin - 1)
                                  /\ ExactSum # 0
      [] fn = "mul" -> /\ a.c # 0 /\ b.c # 0
                       /\ \E k \in 0..Reach : ProductLoses(k) /\ a.e + b.e + k < PackExpMin
      [] fn = "div" -> LessNumber(Abs(a.c), a.e - b.e, (PackMax + 2) * Abs(b.c), PackExpMin - 1)
                       /\ a.c # 0
      [] fn = "inv" -> LessNumber(1, -a.e, (PackMax + 2) * Abs(a.c), PackExpMin - 1)
      [] OTHER -> FALSE

(***************************************************************************)
(* Errors of range have these reasons, and the functions not named above   *)
(* (comparisons, roundings, conversions) never report them.                *)
(***************************************************************************)
RangeErrorsAreReal ==
  Done(Unary \cup Binary \cup ToFixed \cup FromFixed) => OverflowIsReal /\ UnderflowIsReal

-----------------------------------------------------------------------------

(***************************************************************************)
(* The comparisons agree with the order of the numbers, whatever their     *)
(* representations: compareRescale's shortcuts, its swap and its           *)
(* replacement of a hopelessly smaller number by zero never turn an        *)
(* answer.  min and max return one of their arguments, the extreme one.    *)
(* A difference is zero for equal numbers, and for them only: aligning the *)
(* smaller operand of sub never hides what eq can see.                     *)
(***************************************************************************)
ComparisonIsExact ==
  LET less == LessNumber(a.c, a.e, b.c, b.e)
      same == SameNumber(a.c, a.e, b.c, b.e)
  IN  /\ Returned({"sub"}) => (out.c = 0) = same
      /\ Done({"isZero"}) => out.holds = SameNumber(a.c, a.e, 0, 0)
      /\ Done({"eq"})  => out.holds = same
      /\ Done({"lt"})  => out.holds = less
      /\ Done({"gt"})  => out.holds = (~less /\ ~same)
      /\ Done({"lte"}) => out.holds = (less \/ same)
      /\ Done({"gte"}) => out.holds = ~less
      /\ Done({"min", "max"}) =>
           \/ SameNumber(out.c, out.e, a.c, a.e) /\ (same \/ less = (fn = "min"))
           \/ SameNumber(out.c, out.e, b.c, b.e) /\ (same \/ less = (fn = "max"))

-----------------------------------------------------------------------------

(***************************************************************************)
(* Numbers in units of 10^m, for an m at or below the exponents at hand.   *)
(***************************************************************************)
Units(x, m) == x.c * ten[x.e - m]
Lowest == CHOOSE m \in {a.e, out.e, 0} : \A n \in {a.e, out.e, 0} : m <= n
One    == ten[-Lowest]

(***************************************************************************)
(* floor and ceil return the nearest integer on their side, and none of    *)
(* the rounding operations ever fails: the one they add or subtract is     *)
(* always representable beside the integer part.                           *)
(***************************************************************************)
FloorAndCeilAreNearest ==
  Done({"floor", "ceil", "integer", "frac"}) =>
    LET up == Units(out, Lowest) - Units(a, Lowest)
    IN  /\ out.status = "ok"
        /\ fn # "frac" => IsInteger(out)
        /\ fn = "floor" => up \in (1 - One)..0
        /\ fn = "ceil"  => up \in 0..(One - 1)
        /\ fn = "integer" => Abs(up) < One /\ up * Sign(a.c) <= 0

(***************************************************************************)
(* integer and frac split a number: add puts the parts together again, and *)
(* each part has the sign of the number.                                   *)
(***************************************************************************)
PartsAddUp ==
  Done({"integer"}) =>
    LET f   == UnaryResult("frac", a)
        sum == BinaryResult("add", out, f)
    IN  /\ sum.status = "ok" /\ SameNumber(sum.c, sum.e, a.c, a.e)
        /\ Sign(out.c) * Sign(a.c) >= 0 /\ Sign(f.c) * Sign(a.c) >= 0
        /\ LessNumber(Abs(f.c), f.e, 1, 0)

(***************************************************************************)
(* The four rounding operations cut a number at its point: floor and ceil  *)
(* to the next integer, integer and frac into parts that add up again.     *)
(***************************************************************************)
RoundsToNextInteger == FloorAndCeilAreNearest /\ PartsAddUp

-----------------------------------------------------------------------------

(***************************************************************************)
(* A float converts to the truncated fixed point value, the flag says      *)
(* whether a digit was lost, and only a value above uint256 is refused.    *)
(***************************************************************************)
FixedDecimalIsTruncated ==
  Done(ToFixed) /\ a.c >= 0 =>
    LET shift    == a.e + b
        exact    == IF shift >= 0 THEN a.c * ten[shift] ELSE a.c \div ten[-shift]
        isExact  == shift >= 0 \/ a.c % ten[-shift] = 0
    IN  CASE out.status = "ok" -> out.value = exact /\ out.lossless = isExact
          [] out.status = "LossyConversionFromFloat" -> fn = "toFixedDecimalLossless" /\ ~isExact
          [] OTHER -> out.status = "FixedDecimalOverflow" /\ exact > UintMax

(***************************************************************************)
(* A fixed point value comes back from a float less than one unit of the   *)
(* float's last digit smaller, never larger, and unchanged if the first    *)
(* conversion reported no loss; also the values above int256.              *)
(***************************************************************************)
FixedDecimalRoundTrip ==
  Returned(FromFixed) =>
    LET back == ToFixedResult("toFixedDecimalLossy", [c |-> out.c, e |-> out.e], b)
    IN  /\ back.status = "ok" /\ back.value <= a
        /\ LessNumber(a, -b, out.c + 1, out.e)
        /\ out.lossless => back = Fixed(a, TRUE)

-----------------------------------------------------------------------------

(***************************************************************************)
(* First arguments that are equal as numbers give results that are equal   *)
(* as numbers, or the same text, whichever of their representations the    *)
(* caller holds, if both calls return.  (The second argument is the same.) *)
(***************************************************************************)
EqualArgumentsEqualResults ==
  /\ Returned({"add", "sub", "mul", "div"}) =>
       \A x \in Floats : Eq(x, a) =>
         LET other == BinaryResult(fn, x, b)
         IN  other.status = "ok" => SameNumber(other.c, other.e, out.c, out.e)
  /\ Returned({"format", "formatAs"}) =>
       \A x \in Floats : Eq(x, a) =>
         LET other == FormatResult(fn, x, b)
         IN  other.status = "ok" => other.text = out.text

-----------------------------------------------------------------------------

(***************************************************************************)
(* The number written in a text, its last digit not behind the point, or   *)
(* not zero.                                                               *)
(***************************************************************************)
Written(t) ==
  LET frac == Strip(t.frac)
      m    == t.whole.value * ten[frac.len] + frac.value
  IN  [c |-> IF t.minus THEN -m ELSE m, e |-> t.exp.value - frac.len]

WellFormed(t) == /\ t.whole.len > 0 /\ ~t.rest
                 /\ t.point => t.frac.len > 0
                 /\ t.mark => t.exp.len > 0

(***************************************************************************)
(* A parsed float is exactly the number written, signs and zeros on either *)
(* side of the point included: nothing is lost silently in joining the     *)
(* digits, adding the exponents and packing.                               *)
(***************************************************************************)
ParseIsExact ==
  Returned({"parse"}) =>
    LET n == Written(a)
    IN  /\ AtMost(out.c, out.e, n.c, n.e) /\ AtMost(n.c, n.e, out.c, out.e)
        /\ a.minus => out.c <= 0

(***************************************************************************)
(* Exactly the well formed texts are parsed whose digits and exponent fit  *)
(* a float as they are written; of a zero, only the exponent's digits must *)
(* be readable.  All others are refused with a selector, except that too   *)
(* large an exponent may revert.                                           *)
(***************************************************************************)
ParseRefusesWhatItMust ==
  Done({"parse"}) =>
    LET n == Written(a)
    IN  /\ (out.status = "ok") = /\ WellFormed(a)
                                 /\ n.c \in Packed /\ a.exp.value \in Exp
                                 /\ n.c # 0 => n.e \in PackExp
        /\ out.status \notin {"ok", "refused"} =>
             out.status = "ExponentOverflow" /\ LessNumber(1, PackExpMax, Abs(n.c), n.e)

(***************************************************************************)
(* The layout a call to format asks for, and the numbers the layout cannot *)
(* show: scientific text those with more digits in front of the point than *)
(* the largest exponent, plain text small exponents and the integers an    *)
(* int224 does not hold.                                                   *)
(***************************************************************************)
GivenLimits == IF fn = "formatDefault" THEN DefaultLimits ELSE b

Scientific == IF fn = "formatAs" THEN b
              ELSE \/ LessNumber(Abs(a.c), a.e, GivenLimits.min.c, GivenLimits.min.e)
                   \/ LessNumber(GivenLimits.max.c, GivenLimits.max.e, Abs(a.c), a.e)

CannotShow == IF Scientific
                THEN AtMost(1, PackExpMax + 1, Abs(a.c), a.e)
                ELSE a.e < -MaxPlain \/ (a.e > 0 /\ LessNumber(PackMax, 0, Abs(a.c), a.e))

(***************************************************************************)
(* Whatever format returns, parse reads back as the number it came from,   *)
(* in either layout; and it refuses only what the layout cannot show, the  *)
(* layout being chosen by the magnitude.  (The magnitude of int224.min is  *)
(* not a float: it is truncated.)                                          *)
(***************************************************************************)
FormatParsesBack ==
  Done({"format", "formatAs", "formatDefault"}) =>
    CASE out.status = "ok" ->
           LET back == Parse(out.text)
           IN  back.status = "ok" /\ SameNumber(back.c, back.e, a.c, a.e)
      [] out.status = "UnformatableExponent" -> a.c # 0 /\ (a.c # PackMin => CannotShow)
      [] OTHER -> /\ fn # "formatAs"
                  /\ (out.status = "ScientificMinNotLessThanMax") = ~Lt(GivenLimits.min, GivenLimits.max)
                  /\ out.status = "ExponentOverflow" => a.c = PackMin
=============================================================================
