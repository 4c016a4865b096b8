------------------------------ MODULE LogFloat ------------------------------
(***************************************************************************)
(* Calls of log10 and pow10 of the DecimalFloat contract, and what their   *)
(* results promise.                                                        *)
(***************************************************************************)
EXTENDS Logarithms, ExactNumbers

CONSTANT Floats  \* the floats callers use: records [c, e]

ASSUME LogCallersAssumption == Floats \subseteq [c : Packed, e : PackExp]

VARIABLES
  call,  \* the operation and its argument
  out    \* the float it returned, or its error

vars == <<call, out>>

Log10Float(x) == PackedResult(Log10(x.c, x.e))
Pow10Float(x) == PackedResult(TenTo(x.c, x.e))

Idle == <<"none">>
Init == call = Idle /\ out = MaximizedZero

CallLog10(x) == call = Idle /\ call' = <<"log10", x>> /\ out' = Log10Float(x)
CallPow10(x) == call = Idle /\ call' = <<"pow10", x>> /\ out' = Pow10Float(x)
TakeResult   == call # Idle /\ call' = Idle /\ out' = MaximizedZero

Next == \/ \E x \in Floats : CallLog10(x) \/ CallPow10(x)
        \/ TakeResult

Spec == Init /\ [][Next]_vars

-----------------------------------------------------------------------------

a == call[2]
Done(fn) == call[1] = fn
Returned(fn) == Done(fn) /\ out.status = "ok"

(***************************************************************************)
(* The interpolated logarithm of x, in units of 1 / LogUnit(x).            *)
(***************************************************************************)
Rest(x)    == LET n == Length(x.c) IN IF n > M THEN ten[n - M] ELSE 1
Leading(x) == LET n == Length(x.c) IN IF n > M THEN x.c \div ten[n - M] ELSE x.c * ten[M - n]
LogUnit(x) == ten[M] * Rest(x)

InterpolatedLog(x) ==
  LET idx  == Leading(x) - ten[M - 1]
      next == IF idx = LogLastIndex THEN ten[M] ELSE LogOf[idx + 1]
  IN  (Order(x) * ten[M] + LogOf[idx]) * Rest(x) + (x.c % Rest(x)) * (next - LogOf[idx])

(***************************************************************************)
(* |r - n / unit| < 10^r.e, for the result r.                              *)
(***************************************************************************)
WithinOneUnit(r, n, unit) ==
  LET m == IF r.e < 0 THEN r.e ELSE 0
  IN  Abs(r.c * ten[r.e - m] * unit - n * ten[-m]) < ten[r.e - m] * unit

(***************************************************************************)
(* The position of the next table entry fits the coefficient, that of the  *)
(* number or of its inverse.                                               *)
(***************************************************************************)
NextEntryFits(x) ==
  LET m     == Maximize(x.c, x.e)
      n     == Inv(m.c, m.e)
      c     == IF IsAtLeastOne(m.c, m.e) THEN m.c ELSE Maximize(n.c, n.e).c
      scale == Pow10[Digits(c) - (M - 1)]
  IN  (c \div scale + 1) * scale <= CoefMax

(***************************************************************************)
(* log10 of a number of at least one is the linear interpolation of the    *)
(* table, to one unit in the last place, whatever the representation of    *)
(* the number and on which side of 10^76 its maximized coefficient is.     *)
(* Excluded are the numbers whose next entry lies beyond int256.max.       *)
(* For every number the integer part of the logarithm is its order of      *)
(* magnitude, and the logarithm of a power of ten is exact in all its      *)
(* representations.                                                        *)
(***************************************************************************)
LogHasItsCharacteristic ==
  /\ AtMost(Order(a), 0, out.c, out.e) /\ AtMost(out.c, out.e, Order(a) + 1, 0)
  /\ a.c = ten[Length(a.c) - 1] => SameNumber(out.c, out.e, Order(a), 0)

LogIsInterpolated ==
  Returned("log10") =>
    /\ LogHasItsCharacteristic
    /\ Order(a) >= 0 /\ NextEntryFits(a) => WithinOneUnit(out, InterpolatedLog(a), LogUnit(a))

(***************************************************************************)
(* A larger number never has a smaller logarithm: neither where the table  *)
(* index changes, nor where the maximized coefficient loses a digit, nor   *)
(* at one, where the inverse takes over.  Excluded are again the numbers   *)
(* whose next entry lies beyond int256.max.                                *)
(***************************************************************************)
LogIsMonotone ==
  Returned("log10") /\ NextEntryFits(a) /\ NextEntryFits([a EXCEPT !.c = @ + 1]) =>
    LET next == Log10Float([a EXCEPT !.c = @ + 1])
    IN  AtMost(out.c, out.e, next.c, next.e)

-----------------------------------------------------------------------------

(***************************************************************************)
(* The interpolated power of ten of a number's fraction, in units of       *)
(* 1 / (10^(M-1) * FractionUnit).                                          *)
(***************************************************************************)
FractionUnit(x) == IF x.e < -M THEN ten[-x.e - M] ELSE 1

InterpolatedPower(x) ==
  LET f    == IF x.e \in -M..-1 THEN FractionOf(x) * ten[M + x.e] ELSE FractionOf(x)
      u    == FractionUnit(x)
      idx  == f \div u
      y    == IF idx = AntilogLastIndex THEN LastAntilog ELSE AntilogOf[idx]
      next == IF idx = AntilogLastIndex THEN ten[M] ELSE AntilogOf[idx + 1]
  IN  y * u + (f % u) * (next - y)

(***************************************************************************)
(* pow10 of x >= 0 is the linear interpolation of the table for the        *)
(* fraction of x, at the exponent that is the integer part of x, to one    *)
(* unit in the last place.  For every x, also x < 0 where it is the        *)
(* inverse of another power, 10^x lies between the powers of the integers  *)
(* around x, and it is exact for integers.                                 *)
(***************************************************************************)
PowerHasItsExponent ==
  /\ AtMost(1, FloorOf(a), out.c, out.e) /\ AtMost(out.c, out.e, 1, FloorOf(a) + 1)
  /\ IsInteger(a) => SameNumber(out.c, out.e, 1, FloorOf(a))

PowerIsInterpolated ==
  Returned("pow10") =>
    /\ PowerHasItsExponent
    /\ a.c >= 0 => WithinOneUnit([c |-> out.c, e |-> out.e - FloorOf(a) + M - 1],
                                 InterpolatedPower(a), FractionUnit(a))

(***************************************************************************)
(* log10 fails for nonpositive numbers only; the inverse of a number below *)
(* one is never below one, so its recursion ends.  pow10 fails for powers  *)
(* outside the range of floats with a full coefficient, and for a zero     *)
(* written with a large exponent.                                          *)
(***************************************************************************)
LogErrorsAreReal ==
  /\ Done("log10") => out.status = CASE a.c > 0 -> "ok"
                                     [] a.c = 0 -> "Log10Zero"
                                     [] a.c < 0 -> "Log10Negative"
  /\ Done("pow10") =>
       CASE out.status = "ok" -> TRUE
         [] out.status = "ExponentOverflow" -> FloorOf(a) > PackExpMax
         [] out.status = "ExponentUnderflow" -> FloorOf(a) < PackExpMin + PackD + 1
         [] out.status = "WithTargetExponentOverflow" ->
              Abs(FloorOf(a)) > PackExpMax \/ (a.c = 0 /\ a.e > D)
         [] OTHER -> FALSE
=============================================================================
