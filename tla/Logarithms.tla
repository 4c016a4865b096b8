----------------------------- MODULE Logarithms -----------------------------
(***************************************************************************)
(* log10 and pow10 of LibDecimalFloatImplementation.  Both look a number's *)
(* first M digits up in a table and interpolate linearly between           *)
(* neighbouring entries, in the library's own floating point arithmetic.   *)
(* The tables are functions here; LogTables models how they are read.      *)
(***************************************************************************)
EXTENDS FloatImplementation, PackContract

CONSTANTS
  M,            \* 4, the digits looked up
  LogOf,        \* the log table: 10^M * log10(x / 10^(M-1)) for x = 10^(M-1) + index
  AntilogOf,    \* the antilog table: 10^(M-1) * 10^(index / 10^M), rounded
  LastAntilog   \* 9997, used in the place of the antilog table's last entry

LogLastIndex     == 9 * Pow10[M - 1] - 1
AntilogLastIndex == Pow10[M] - 1

(***************************************************************************)
(* The log table never falls; neither table leaves the range of its        *)
(* mantissa; the first two antilogs are both one.                          *)
(***************************************************************************)
ASSUME LogTablesAssumption ==
  /\ M \in 1..(D - 1)
  /\ LogOf \in [0..LogLastIndex -> 0..Pow10[M]] /\ LogOf[0] = 0
  /\ \A i \in 1..LogLastIndex : LogOf[i - 1] <= LogOf[i]
  /\ AntilogOf \in [0..AntilogLastIndex -> Pow10[M - 1]..(Pow10[M] - 1)]
  /\ AntilogOf[0] = Pow10[M - 1] /\ AntilogOf[1] = Pow10[M - 1]
  /\ LastAntilog \in Pow10[M - 1]..(Pow10[M] - 1)

-----------------------------------------------------------------------------

(***************************************************************************)
(* The next step of a computation, taken if the one before returned.  The  *)
(* result is bound in a set, so that TLC computes it once.                 *)
(***************************************************************************)
Then(r, next(_)) ==
  CHOOSE y \in {IF x.status = "ok" THEN next(x) ELSE x : x \in {r}} : TRUE

(***************************************************************************)
(* Mutant of Interpolate: the run measured from x.                         *)
(***************************************************************************)
InterpolateFromX(x1, x, x2, ex, y1, y2, ey) ==
  IF x = x1 THEN Num(y1, ey)
  ELSE LET rise == Sub(y2, ey, y1, ey)
           run  == Sub(x2, ex, x, ex)
       IN  Then(Sub(x, ex, x1, ex), LAMBDA dx :
           Then(Mul(dx.c, dx.e, rise.c, rise.e), LAMBDA n :
           Then(Div(n.c, n.e, run.c, run.e), LAMBDA margin :
             Add(margin.c, margin.e, y1, ey))))

(***************************************************************************)
(* unitLinearInterpolation: y1 + ((x - x1) * (y2 - y1)) / (x2 - x1).       *)
(***************************************************************************)
Interpolate(x1, x, x2, ex, y1, y2, ey) ==
  IF x = x1 THEN Num(y1, ey)
  ELSE Then(Sub(x, ex, x1, ex), LAMBDA dx :
       Then(Sub(y2, ey, y1, ey), LAMBDA rise :
       Then(Mul(dx.c, dx.e, rise.c, rise.e), LAMBDA n :
       Then(Sub(x2, ex, x1, ex), LAMBDA run :
       Then(Div(n.c, n.e, run.c, run.e), LAMBDA margin :
         Add(margin.c, margin.e, y1, ey))))))

-----------------------------------------------------------------------------

(***************************************************************************)
(* The decimal point of a maximized coefficient is behind its first digit. *)
(***************************************************************************)
Digits(c) == IF c >= Pow10[D] THEN D ELSE D - 1

(***************************************************************************)
(* The logarithm of the mantissa.  The table entry of the first M digits   *)
(* is interpolated with the next one; behind the last one comes one.       *)
(* x1Coefficient + scale is computed unchecked.                            *)
(***************************************************************************)
LogOfMantissa(c, e) ==
  LET scale == Pow10[Digits(c) - (M - 1)]
      x1  == (c \div scale) * scale
      idx == c \div scale - Pow10[M - 1]
      y1  == Pow10[D - M] * LogOf[idx]
      y2  == CASE x1 = c -> y1
               [] x1 # c /\ idx = LogLastIndex -> Pow10[D]
               [] x1 # c /\ idx # LogLastIndex -> Pow10[D - M] * LogOf[idx + 1]
  IN  Interpolate(x1, c, WrapCoef(x1 + scale), e, y1, y2, -D)

(***************************************************************************)
(* The logarithm of the power of ten before the decimal point.             *)
(***************************************************************************)
PowerOfTen(e, digits) == IF e + digits \in Exp THEN Num(e + digits, 0) ELSE Fail("Panic")

(***************************************************************************)
(* Mutants: the decimal point at one place for both lengths; a number      *)
(* equal to one not counted.                                               *)
(***************************************************************************)
LogAtLeastOneFixedPoint(c, e) ==
  Then(PowerOfTen(e, D), LAMBDA power :
  Then(LogOfMantissa(c, e), LAMBDA y : Add(y.c, y.e, power.c, power.e)))

IsAboveOne(c, e) == e > -Digits(c)

(***************************************************************************)
(* The logarithm of a maximized number of at least one.  The power of ten  *)
(* is a checked sum, taken before the lookup.                              *)
(***************************************************************************)
LogAtLeastOne(c, e) ==
  Then(PowerOfTen(e, Digits(c)), LAMBDA power :
  Then(LogOfMantissa(c, e), LAMBDA y : Add(y.c, y.e, power.c, power.e)))

IsAtLeastOne(c, e) == e >= -Digits(c)

(***************************************************************************)
(* A power of ten needs no table.                                          *)
(***************************************************************************)
LogOfPositive(m) ==
  CASE m.c = Pow10[D] -> PowerOfTen(m.e, D)
    [] m.c # Pow10[D] -> LogAtLeastOne(m.c, m.e)

(***************************************************************************)
(* log10 of a number below one is the negated log10 of its inverse.  The   *)
(* inverse is at least one, so the code's recursion is one deep; if it     *)
(* were not, the result would be "Recursion".                              *)
(***************************************************************************)
Log10(c, e) ==
  LET m == Maximize(c, e)
      logOfInverse(r) ==
        LET n == Maximize(r.c, r.e)
        IN  CASE ~n.full -> Fail("MaximizeOverflow")
              [] n.full /\ (n.c = Pow10[D] \/ IsAtLeastOne(n.c, n.e)) ->
                   Then(LogOfPositive(n), LAMBDA y : Minus(y.c, y.e))
              [] OTHER -> Fail("Recursion")
  IN  CASE ~m.full          -> Fail("MaximizeOverflow")
        [] m.full /\ c = 0 -> Fail("Log10Zero")
        [] m.full /\ c < 0 -> Fail("Log10Negative")
        [] m.full /\ c > 0 -> IF m.c = Pow10[D] \/ IsAtLeastOne(m.c, m.e)
             THEN LogOfPositive(m) ELSE Then(Inv(m.c, m.e), logOfInverse)

-----------------------------------------------------------------------------

(***************************************************************************)
(* withTargetExponent: digits below the target are cut off, a coefficient  *)
(* that cannot be scaled up is refused, a zero among them.                 *)
(***************************************************************************)
WithTargetExponent(c, e, target) ==
  LET down == WrapExp(target - e)
      up   == WrapExp(e - target)
      scaled == WrapCoef(c * Pow10[IF up \in 1..D THEN up ELSE 0])
      fits   == up \in 1..D /\ Quot(scaled, Pow10[up]) = c
  IN  CASE e = target -> Num(c, e)
        [] e < target -> Num(IF down \in 1..D THEN Quot(c, Pow10[down]) ELSE 0, target)
        [] e > target /\ fits  -> Num(scaled, target)
        [] e > target /\ ~fits -> Fail("WithTargetExponentOverflow")

(***************************************************************************)
(* Mutant of Mantissa: digits behind the first M are ignored.              *)
(***************************************************************************)
MantissaCutsOff(c, e) ==
  LET n == IF e \in -(D + M)..-(M + 1) THEN -(e + M) ELSE 0
      m == IF e \in -M..-1 THEN c * Pow10[M + e] ELSE c \div Pow10[n]
  IN  [idx |-> IF e >= 0 \/ e < -(D + M) THEN 0 ELSE m, scale |-> Pow10[n], interpolate |-> FALSE]

(***************************************************************************)
(* mantissa4: the first M digits of a fraction, whether there are more,    *)
(* and the scale of the ones left.                                         *)
(***************************************************************************)
Mantissa(c, e) ==
  LET below(n) == [idx |-> c \div Pow10[n], scale |-> Pow10[n],
                   interpolate |-> (c \div Pow10[n]) * Pow10[n] # c]
  IN  CASE e >= 0                  -> [idx |-> 0, scale |-> 1, interpolate |-> FALSE]
        [] e \in -M..-1            -> [idx |-> c * Pow10[M + e], scale |-> 1, interpolate |-> FALSE]
        [] e \in -(D + M)..-(M + 1) -> below(-(e + M))
        [] e < -(D + M)            -> [idx |-> 0, scale |-> 1, interpolate |-> c # 0]

(***************************************************************************)
(* The fewest digits of the scale whose loss makes the next entry's        *)
(* position fit an int256.                                                 *)
(***************************************************************************)
DigitsToShed(next, n) ==
  LET fits(k) == Quot(WrapCoef(next * Pow10[n - k]), Pow10[n - k]) = next
  IN  CHOOSE k \in 0..n : fits(k) /\ \A j \in 0..(k - 1) : ~fits(j)

(***************************************************************************)
(* 10^x for the fraction c * 10^e, 0 <= c.                                 *)
(***************************************************************************)
AntilogOfFraction(c, e) ==
  LET m    == Mantissa(c, e)
      last == m.idx = AntilogLastIndex
      y1   == IF last THEN LastAntilog ELSE AntilogOf[m.idx]
      y2   == IF last THEN Pow10[M] ELSE AntilogOf[m.idx + 1]
      n    == CHOOSE k \in 0..D : Pow10[k] = m.scale
      k    == DigitsToShed(m.idx + 1, n)
      unit == Pow10[n - k]
  IN  IF m.interpolate
        THEN Interpolate(m.idx * unit, c \div Pow10[k], (m.idx + 1) * unit, e, y1, y2, -M)
        ELSE Num(y1, -M)

(***************************************************************************)
(* 10^x for c >= 0: the integer part of x becomes the exponent.            *)
(***************************************************************************)
TenToNonNegative(c, e) ==
  LET x == IntFrac(c, e)
  IN  Then(AntilogOfFraction(x.frac, e), LAMBDA y :
      Then(WithTargetExponent(x.integer, e, 0), LAMBDA n :
        Checked(y.c, 1 + y.e + n.c)))

(***************************************************************************)
(* Mutant of TenTo: the power of a negative number not inverted.           *)
(***************************************************************************)
TenToAbs(c, e) == IF c >= 0 THEN TenToNonNegative(c, e)
                            ELSE Then(Minus(c, e), LAMBDA x : TenToNonNegative(x.c, x.e))

(***************************************************************************)
(* pow10.                                                                  *)
(***************************************************************************)
TenTo(c, e) ==
  IF c >= 0 THEN TenToNonNegative(c, e)
  ELSE Then(Minus(c, e), LAMBDA x :
       Then(TenToNonNegative(x.c, x.e), LAMBDA y : Inv(y.c, y.e)))

-----------------------------------------------------------------------------

(***************************************************************************)
(* The functions on floats pack what the implementation returns.           *)
(***************************************************************************)
PackedResult(r) ==
  Then(r, LAMBDA x : LET p == PackArithmeticResult(x.c, x.e)
                     IN  [status |-> p.status, c |-> p.c, e |-> p.e])
=============================================================================
