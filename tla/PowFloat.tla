------------------------------ MODULE PowFloat ------------------------------
(***************************************************************************)
(* pow of LibDecimalFloat, step by step: the early returns, the recursion  *)
(* for a negative power, the squaring loop for the integer part of the     *)
(* power and the tail that multiplies with 10^(fraction * log10(a)).       *)
(* sqrt is pow with the power 0.5.                                         *)
(*                                                                         *)
(* pc:  idle -> cases (-> cases) -> loop -> tail -> done -> idle           *)
(***************************************************************************)
EXTENDS Logarithms, ExactNumbers

CONSTANTS
  Bases,   \* the floats raised to a power
  Powers   \* the floats they are raised to

ASSUME PowCallersAssumption ==
  Bases \subseteq [c : Packed, e : PackExp] /\ Powers \subseteq [c : Packed, e : PackExp]

VARIABLES
  pc,        \* the position in the code
  call,      \* the arguments the caller gave
  a, b,      \* the arguments of the running pow
  n,         \* exponentBInteger
  fraction,  \* fractionB; its exponent is that of b
  power,     \* the result so far
  base,      \* the repeatedly squared base
  out        \* the float returned, or the error

vars == <<pc, call, a, b, n, fraction, power, base, out>>
locals == <<n, fraction, power, base>>

FloatOne  == Num(1, 0)
ZeroPower == Num(0, 0)
Nothing   == Num(0, 0)
Idle      == <<Nothing, Nothing>>

Init == /\ pc = "idle" /\ call = Idle /\ a = Nothing /\ b = Nothing
        /\ n = 0 /\ fraction = 0 /\ power = Nothing /\ base = Nothing /\ out = Nothing

Enter ==
  /\ pc = "idle" /\ pc' = "cases"
  /\ \E x \in Bases, y \in Powers :
       a' = Num(x.c, x.e) /\ b' = Num(y.c, y.e) /\ call' = <<a', b'>>
  /\ UNCHANGED <<locals, out>>

(***************************************************************************)
(* Leaving, with a float or an error.                                      *)
(***************************************************************************)
Return(r) == pc' = "done" /\ out' = r /\ UNCHANGED <<call, a, b, locals>>

IsOne(x) == CompareRescale(x.c, x.e, 1, 0)[1] = CompareRescale(x.c, x.e, 1, 0)[2]

PowerZero == pc = "cases" /\ b.c = 0 /\ Return(FloatOne)

BaseZero == /\ pc = "cases" /\ b.c # 0 /\ a.c = 0
            /\ Return(IF b.c < 0 THEN Fail("ZeroNegativePower") ELSE ZeroPower)

BaseNegative == /\ pc = "cases" /\ b.c # 0 /\ a.c < 0
                /\ Return(Fail("PowNegativeBase"))

PowerOne == pc = "cases" /\ b.c # 0 /\ a.c > 0 /\ IsOne(b) /\ Return(a)

(***************************************************************************)
(* a^b = (1/a)^-b; both are packed before the recursive call.              *)
(***************************************************************************)
PowerNegative ==
  /\ pc = "cases" /\ a.c > 0 /\ b.c < 0
  /\ LET inverse == PackedResult(Inv(a.c, a.e))
         minus   == PackedResult(Minus(b.c, b.e))
     IN  CASE inverse.status # "ok" -> Return(inverse)
           [] inverse.status = "ok" /\ minus.status # "ok" -> Return(minus)
           [] inverse.status = "ok" /\ minus.status = "ok" ->
                a' = inverse /\ b' = minus /\ UNCHANGED <<pc, call, locals, out>>

(***************************************************************************)
(* The power is split at its decimal point.                                *)
(***************************************************************************)
Split ==
  /\ pc = "cases" /\ a.c > 0 /\ b.c > 0 /\ ~IsOne(b)
  /\ LET parts   == IntFrac(b.c, b.e)
         integer == WithTargetExponent(parts.integer, b.e, 0)
     IN  IF integer.status # "ok" THEN Return(integer)
         ELSE /\ pc' = "loop" /\ n' = integer.c /\ fraction' = parts.frac
              /\ power' = FloatOne /\ base' = a
              /\ UNCHANGED <<call, a, b, out>>

(***************************************************************************)
(* Mutants of Round: the base squared before it is used; the square packed *)
(* as the functions on floats do.                                          *)
(***************************************************************************)
RoundSquaresFirst ==
  /\ pc = "loop" /\ n >= 1
  /\ LET square  == Mul(base.c, base.e, base.c, base.e)
         product == IF n % 2 = 1 /\ square.status = "ok"
                      THEN Mul(power.c, power.e, square.c, square.e) ELSE power
     IN  CASE square.status # "ok" -> Return(square)
           [] square.status = "ok" /\ product.status # "ok" -> Return(product)
           [] square.status = "ok" /\ product.status = "ok" ->
                /\ power' = product /\ base' = square /\ n' = n \div 2
                /\ UNCHANGED <<pc, call, a, b, fraction, out>>

RoundPacksSquare ==
  /\ pc = "loop" /\ n >= 1
  /\ LET product == IF n % 2 = 1 THEN Mul(power.c, power.e, base.c, base.e) ELSE power
         square  == PackedResult(Mul(base.c, base.e, base.c, base.e))
     IN  CASE product.status # "ok" -> Return(product)
           [] product.status = "ok" /\ square.status # "ok" -> Return(square)
           [] product.status = "ok" /\ square.status = "ok" ->
                /\ power' = product /\ base' = square /\ n' = n \div 2
                /\ UNCHANGED <<pc, call, a, b, fraction, out>>

(***************************************************************************)
(* A round of the loop; the base is squared once more than it is used.     *)
(***************************************************************************)
Round ==
  /\ pc = "loop" /\ n >= 1
  /\ LET product == IF n % 2 = 1 THEN Mul(power.c, power.e, base.c, base.e) ELSE power
         square  == Mul(base.c, base.e, base.c, base.e)
     IN  CASE product.status # "ok" -> Return(product)
           [] product.status = "ok" /\ square.status # "ok" -> Return(square)
           [] product.status = "ok" /\ square.status = "ok" ->
                /\ power' = product /\ base' = square /\ n' = n \div 2
                /\ UNCHANGED <<pc, call, a, b, fraction, out>>

(***************************************************************************)
(* Mutant of FractionTail: the power of the fraction alone.            *)
(***************************************************************************)
FractionTailAlone ==
  /\ pc = "loop" /\ n = 0
  /\ Return(PackedResult(
       Then(Log10(a.c, a.e), LAMBDA l :
       Then(Mul(l.c, l.e, fraction, b.e), LAMBDA x : TenTo(x.c, x.e)))))

(***************************************************************************)
(* The tail: 10^(log10(a) * fraction) * power.                             *)
(***************************************************************************)
FractionTail ==
  /\ pc = "loop" /\ n = 0
  /\ Return(PackedResult(
       Then(Log10(a.c, a.e), LAMBDA l :
       Then(Mul(l.c, l.e, fraction, b.e), LAMBDA x :
       Then(TenTo(x.c, x.e), LAMBDA y : Mul(y.c, y.e, power.c, power.e))))))

TakeResult == /\ pc = "done" /\ pc' = "idle" /\ call' = Idle /\ a' = Nothing /\ b' = Nothing
              /\ n' = 0 /\ fraction' = 0 /\ power' = Nothing /\ base' = Nothing /\ out' = Nothing

Cases == PowerZero \/ BaseZero \/ BaseNegative \/ PowerOne \/ PowerNegative \/ Split
Steps == Cases \/ Round \/ FractionTail

Next == Enter \/ Steps \/ TakeResult

Spec == Init /\ [][Next]_vars

-----------------------------------------------------------------------------

A == call[1]
B == call[2]
Done     == pc = "done"
Returned == Done /\ out.status = "ok"

(***************************************************************************)
(* x^k, exact.  ComputablePower bounds k to what TLC's integers hold.      *)
(***************************************************************************)
ExactPower(x, k) ==
  [c |-> LET f[i \in 0..k] == IF i = 0 THEN 1 ELSE x.c * f[i - 1] IN f[k], e |-> x.e * k]
MaxPower == 6
ComputablePower(x, k) == k <= MaxPower /\ Length(x.c) * k <= 9

AbsB == [c |-> Abs(B.c), e |-> B.e]
AtLeastOne(x) == AtMost(1, 0, x.c, x.e)
AtMostOne(x)  == AtMost(x.c, x.e, 1, 0)

(***************************************************************************)
(* What the powers are taken of: the base, or its packed inverse.          *)
(***************************************************************************)
Inverse   == PackedResult(Inv(A.c, A.e))
RaisedOne == IF B.c < 0 THEN Inverse ELSE A

(***************************************************************************)
(* What the squaring loop may lose of x^k, in units of its last digit.  A  *)
(* product that does not fit an int256 keeps a coefficient of at least     *)
(* CoefMax \div 10 and loses less than one unit of it, and the losses of a *)
(* factor count as often as it is used: k - 1 products in all.             *)
(***************************************************************************)
LostInLoop(exact, k) ==
  IF exact.c <= CoefMax THEN 0 ELSE (k - 1) * (exact.c \div (CoefMax \div 10) + 1)

(***************************************************************************)
(* out is not below x^k by more than the loop may lose and packing cuts.   *)
(***************************************************************************)
NotMuchBelow(exact, k) ==
  LessNumber(exact.c - LostInLoop(exact, k), exact.e, out.c + 1, out.e)

(***************************************************************************)
(* An integer power, of the base or of its inverse, is never above the     *)
(* exact one, and below it by no more than the products of the squaring    *)
(* loop cut off (nothing at all if the exact power fits an int256) and one *)
(* truncation to a packed coefficient: the tail's product with 10^0 loses  *)
(* nothing.  A negative power is never above the exact one of the base.    *)
(***************************************************************************)
IntegerPowerIsClose ==
  Returned /\ A.c > 0 /\ B.c # 0 /\ IsInteger(B) =>
    LET k     == FloorOf(AbsB)
        exact == ExactPower(RaisedOne, k)
        ofA   == ExactPower(A, k)
    IN  /\ ComputablePower(RaisedOne, k) =>
             AtMost(out.c, out.e, exact.c, exact.e) /\ NotMuchBelow(exact, k)
        /\ B.c < 0 /\ ComputablePower(A, k) => AtMost(out.c * ofA.c, out.e + ofA.e, 1, 0)

(***************************************************************************)
(* Powers of numbers of at least one do not fall below one for positive    *)
(* powers and do not rise above it for negative ones, and conversely; a    *)
(* power of one is one.  The logarithm and the antilogarithm are each      *)
(* approximate, and numbers below one go through an inverse in log10, in   *)
(* pow10 and in pow.                                                       *)
(***************************************************************************)
StaysOnItsSideOfOne ==
  Returned /\ A.c > 0 =>
    /\ (AtLeastOne(A) /\ B.c >= 0) \/ (AtMostOne(A) /\ B.c <= 0) => AtLeastOne(out)
    /\ (AtMostOne(A) /\ B.c >= 0) \/ (AtLeastOne(A) /\ B.c <= 0) => AtMostOne(out)

(***************************************************************************)
(* A power of a number of at least one is not below its integer part's,    *)
(* but for what the squaring loop and the packing of the result cut off:   *)
(* the approximate power of the fraction never takes anything away.        *)
(***************************************************************************)
FractionOnlyAdds ==
  Returned /\ A.c > 0 /\ AtLeastOne(A) /\ B.c > 0 /\ ComputablePower(A, FloorOf(B)) =>
    LET k == FloorOf(B)
    IN  IF k = 0 THEN AtLeastOne(out) ELSE NotMuchBelow(ExactPower(A, k), k)

-----------------------------------------------------------------------------

(***************************************************************************)
(* A bound of x^k, for the powers that cannot be computed: products are    *)
(* rounded to a number of digits, all of them up or all of them down.      *)
(***************************************************************************)
Rounded(c, e, digits, up) ==
  LET cut  == IF Length(c) > digits THEN Length(c) - digits ELSE 0
      more == up /\ c % ten[cut] # 0
  IN  [c |-> c \div ten[cut] + (IF more THEN 1 ELSE 0), e |-> e + cut]

PowerBound(x, k, digits, up) ==
  LET f[i \in 0..k] ==
        IF i = 0 THEN [c |-> 1, e |-> 0]
        ELSE LET h      == f[i \div 2]
                 square == Rounded(h.c * h.c, 2 * h.e, digits, up)
             IN  IF i % 2 = 0 THEN square
                 ELSE Rounded(square.c * x.c, square.e + x.e, digits, up)
  IN  f[k]

(***************************************************************************)
(* The power as a fraction, or, if it is tiny, a tenth: |B| is at most     *)
(* Numerator / Denominator.                                                *)
(***************************************************************************)
Numerator   == IF B.e >= 0 THEN FloorOf(AbsB) ELSE IF B.e >= -3 THEN AbsB.c ELSE 1
Denominator == IF B.e >= 0 THEN 1 ELSE IF B.e >= -3 THEN ten[-B.e] ELSE 10

(***************************************************************************)
(* The power is at least 10^m, and it is below 10^m, by bounds that are at *)
(* least as wide as what the products of the code lose.                    *)
(***************************************************************************)
PowerReaches(m) == Order(PowerBound(RaisedOne, Numerator, D + 1, TRUE)) >= m * Denominator
PowerIsBelow(m) == Order(PowerBound(RaisedOne, Numerator, D, FALSE)) < m * Denominator

(***************************************************************************)
(* pow fails for one of five reasons, and no other.  The base is zero and  *)
(* the power negative, or the base is negative.  The inverse or the        *)
(* negation that a negative power needs has no float.  The integer part of *)
(* the power does not fit an int256: whatever the base, so that a power of *)
(* one is refused as well.  Or the power itself is too large, or smaller   *)
(* than any float with a full coefficient; not because of the square the   *)
(* last round computes and nobody uses, or because of an intermediate      *)
(* result that is out of range when the power is not.                      *)
(***************************************************************************)
PowErrorsAreReal ==
  Done =>
    CASE out.status = "ok" -> TRUE
      [] out.status = "ZeroNegativePower" -> A.c = 0 /\ B.c < 0
      [] out.status = "PowNegativeBase"   -> A.c < 0 /\ B.c # 0
      [] out.status = "WithTargetExponentOverflow" -> FloorOf(AbsB) > CoefMax
      [] out.status \in {"ExponentOverflow", "ExponentUnderflow"} /\ B.c < 0 /\ Inverse.status # "ok" ->
           out.status = Inverse.status
      [] out.status = "ExponentOverflow" /\ (B.c > 0 \/ Inverse.status = "ok") ->
           PowerReaches(PackExpMax + M) \/ (B.c = PackMin /\ B.e = PackExpMax)
      [] out.status = "ExponentUnderflow" /\ (B.c > 0 \/ Inverse.status = "ok") ->
           PowerIsBelow(PackExpMin + PackD)
      [] out.status = "Panic" ->
           PowerReaches(ExpMax \div 2 - D) \/ PowerIsBelow(-(ExpMax \div 2 - D))
      [] OTHER -> FALSE
=============================================================================
