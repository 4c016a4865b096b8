---------------------------- MODULE DecimalCalls ----------------------------
(***************************************************************************)
(* The calls of the DecimalFloat contract that need no log tables, and     *)
(* what each returns: a call is a tuple of the function and its arguments, *)
(* its result a function of the call.                                      *)
(***************************************************************************)
EXTENDS DecimalText

CONSTANTS
  Floats,    \* the floats callers use: records [c, e] of Packed \X PackExp
  Values,    \* the fixed point values, a subset of 0..UintMax
  Decimals,  \* numbers of decimals, type uint8: an exponent can always rise by them
  Texts,     \* the texts callers parse
  Limits,    \* the limits of plain layout callers format with
  DefaultLimits,  \* FORMAT_DEFAULT_SCIENTIFIC_MIN and _MAX
  Calls      \* the functions callers use, a subset of the ones below

Unary    == {"minus", "abs", "inv", "integer", "frac", "floor", "ceil", "isZero"}
Binary   == {"add", "sub", "mul", "div", "min", "max", "eq", "lt", "gt", "lte", "gte"}
ToFixed  == {"toFixedDecimalLossy", "toFixedDecimalLossless"}
FromFixed == {"fromFixedDecimalLossy", "fromFixedDecimalLossless"}
Text      == {"parse", "format", "formatAs", "formatDefault"}
Constants == {"maxPositiveValue", "minPositiveValue", "maxNegativeValue", "minNegativeValue", "zero",
              "FORMAT_DEFAULT_SCIENTIFIC_MIN", "FORMAT_DEFAULT_SCIENTIFIC_MAX"}

PackedFloat  == [c : Packed, e : PackExp]
FormatLimits == [min : PackedFloat, max : PackedFloat]

ASSUME CallersAssumption ==
  /\ Floats \subseteq PackedFloat
  /\ Values \subseteq 0..UintMax /\ Decimals \subseteq 0..(ExpMax - PackExpMax)
  /\ Limits \subseteq FormatLimits /\ DefaultLimits \in FormatLimits
  /\ Texts \subseteq Scanned
  /\ \A t \in Texts : (t.frac # NoDigits => t.point) /\ (t.exp # NoDigits => t.mark)
  /\ Calls \subseteq Unary \cup Binary \cup ToFixed \cup FromFixed \cup Text \cup Constants

(***************************************************************************)
(* A uint256 has ten digits more than an int224 holds, and a packed        *)
(* exponent can rise by ten.                                               *)
(***************************************************************************)
ASSUME FixedPointFits ==
  UintMax \div Pow10[D + 1 - PackD] <= PackMax /\ D + 1 - PackD <= PackExpMax

-----------------------------------------------------------------------------

(***************************************************************************)
(* The three kinds of result beside a revert: a float, a truth value, a    *)
(* fixed point value with its flag.                                        *)
(***************************************************************************)
Packs(x) == [status |-> "ok", c |-> x.c, e |-> x.e]
Holds(p) == [status |-> "ok", holds |-> p]
Fixed(value, exact) == [status |-> "ok", value |-> value, lossless |-> exact]

(***************************************************************************)
(* Arithmetic ends in packArithmeticResult: the number is packed, its      *)
(* flag dropped, and a number lost to underflow is an error.               *)
(***************************************************************************)
Packed224(r) ==
  IF r.status # "ok" THEN Fail(r.status)
  ELSE LET p == PackArithmeticResult(r.c, r.e)
       IN  IF p.status = "ok" THEN Packs(p) ELSE Fail(p.status)

AbsOf(c, e) == IF c < 0 THEN Minus(c, e) ELSE Num(c, e)

(***************************************************************************)
(* Mutant of Floor: one subtracted from every negative number.             *)
(***************************************************************************)
FloorOfInteger(a) ==
  LET i == IntFrac(a.c, a.e)
  IN  CASE a.e >= 0 -> Packs(a)
        [] a.e < 0 /\ a.c < 0  -> Packed224(Sub(i.integer, a.e, Pow10[D], -D))
        [] a.e < 0 /\ a.c >= 0 -> Packed224(Num(i.integer, a.e))

(***************************************************************************)
(* floor and ceil add or subtract one, written as 10^76 * 10^-76.          *)
(***************************************************************************)
Floor(a) ==
  LET i == IntFrac(a.c, a.e)
  IN  CASE a.e >= 0 -> Packs(a)
        [] a.e < 0 /\ a.c < 0 /\ i.frac # 0 -> Packed224(Sub(i.integer, a.e, Pow10[D], -D))
        [] OTHER -> Packed224(Num(i.integer, a.e))

Ceil(a) ==
  LET i == IntFrac(a.c, a.e)
  IN  CASE a.e >= 0 \/ i.frac = 0 -> Packs(a)
        [] a.e < 0 /\ i.frac > 0 -> Packed224(Add(i.integer, a.e, Pow10[D], -D))
        [] OTHER -> Packed224(Num(i.integer, a.e))

UnaryResult(fn, a) ==
  CASE fn = "minus"   -> Packed224(Minus(a.c, a.e))
    [] fn = "abs"     -> Packed224(AbsOf(a.c, a.e))
    [] fn = "inv"     -> Packed224(Inv(a.c, a.e))
    [] fn = "integer" -> Packed224(Num(IntFrac(a.c, a.e).integer, a.e))
    [] fn = "frac"    -> Packed224(Num(IntFrac(a.c, a.e).frac, a.e))
    [] fn = "floor"   -> Floor(a)
    [] fn = "ceil"    -> Ceil(a)
    [] fn = "isZero"  -> Holds(a.c = 0)

(***************************************************************************)
(* The comparisons all compare the rescaled pair of coefficients.          *)
(***************************************************************************)
Rescaled(a, b) == CompareRescale(a.c, a.e, b.c, b.e)
Lt(a, b) == Rescaled(a, b)[1] < Rescaled(a, b)[2]

Gt(a, b) == Rescaled(a, b)[1] > Rescaled(a, b)[2]
Eq(a, b) == Rescaled(a, b)[1] = Rescaled(a, b)[2]

BinaryResult(fn, a, b) ==
  CASE fn = "add" -> Packed224(Add(a.c, a.e, b.c, b.e))
    [] fn = "sub" -> Packed224(Sub(a.c, a.e, b.c, b.e))
    [] fn = "mul" -> Packed224(Mul(a.c, a.e, b.c, b.e))
    [] fn = "div" -> Packed224(Div(a.c, a.e, b.c, b.e))
    [] fn = "min" -> Packs(IF Lt(a, b) THEN a ELSE b)
    [] fn = "max" -> Packs(IF Gt(a, b) THEN a ELSE b)
    [] fn = "eq"  -> Holds(Eq(a, b))
    [] fn = "lt"  -> Holds(Lt(a, b))
    [] fn = "gt"  -> Holds(Gt(a, b))
    [] fn = "lte" -> Holds(Rescaled(a, b)[1] <= Rescaled(a, b)[2])
    [] fn = "gte" -> Holds(Rescaled(a, b)[1] >= Rescaled(a, b)[2])

(***************************************************************************)
(* Mutant of FixedDecimal: the largest scale taken for 10^76.              *)
(***************************************************************************)
FixedDecimalTo76(a, decimals) ==
  LET e     == a.e + decimals
      scale == Pow10[IF Abs(e) <= D THEN Abs(e) ELSE 0]
  IN  CASE a.c < 0 -> Fail("NegativeFixedDecimalConversion")
        [] a.c = 0 -> Fixed(0, TRUE)
        [] a.c > 0 /\ e < -D -> Fixed(0, FALSE)
        [] a.c > 0 /\ e \in -D..0 -> Fixed(a.c \div scale, (a.c \div scale) * scale = a.c)
        [] a.c > 0 /\ e > 0 -> IF e > D \/ a.c > UintMax \div scale
             THEN Fail("FixedDecimalOverflow") ELSE Fixed(a.c * scale, TRUE)

(***************************************************************************)
(* toFixedDecimalLossy: a positive exponent needs a product that fits a    *)
(* uint256, a negative one truncates.                                      *)
(***************************************************************************)
FixedDecimal(a, decimals) ==
  LET e     == WrapExp(a.e + decimals)
      scale == Pow10[IF Abs(e) <= D + 1 THEN Abs(e) ELSE 0]
  IN  CASE a.c < 0 -> Fail("NegativeFixedDecimalConversion")
        [] a.c = 0 -> Fixed(0, TRUE)
        [] a.c > 0 /\ e < a.e -> Fail("ExponentOverflow")
        [] a.c > 0 /\ e >= a.e /\ e < -(D + 1) -> Fixed(0, FALSE)
        [] a.c > 0 /\ e >= a.e /\ e \in -(D + 1)..0 ->
             Fixed(a.c \div scale, (a.c \div scale) * scale = a.c)
        [] OTHER -> IF e > D + 1 \/ a.c > UintMax \div scale
                      THEN Fail("FixedDecimalOverflow") ELSE Fixed(a.c * scale, TRUE)

ToFixedResult(fn, a, decimals) ==
  LET r == FixedDecimal(a, decimals)
  IN  IF fn = "toFixedDecimalLossless" /\ r.status = "ok" /\ ~r.lossless
        THEN Fail("LossyConversionFromFloat") ELSE r

(***************************************************************************)
(* The lossless conversion refuses a dropped digit before it packs.        *)
(***************************************************************************)
FromFixedResult(fn, value, decimals) ==
  LET d == FromFixedDecimal(value, decimals)
      p == Finalise(IF fn = "fromFixedDecimalLossless" THEN "packLossless" ELSE "packLossy",
                    PackLossy(d.c, d.e), d.exact)
  IN  CASE fn = "fromFixedDecimalLossless" /\ ~d.exact -> Fail("LossyConversionToFloat")
        [] (fn = "fromFixedDecimalLossless" => d.exact) /\ p.status = "ok" -> p
        [] (fn = "fromFixedDecimalLossless" => d.exact) /\ p.status # "ok" -> Fail(p.status)

(***************************************************************************)
(* format chooses the layout by the magnitude of the float, against the    *)
(* limits the caller gives.                                                *)
(***************************************************************************)
FormatByMagnitude(x, m, limits) ==
  IF m.status = "ok" THEN ToDecimalString(x, Lt(m, limits.min) \/ Gt(m, limits.max)) ELSE m

FormatWithin(x, limits) ==
  IF Lt(limits.min, limits.max)
    THEN FormatByMagnitude(x, Packed224(AbsOf(x.c, x.e)), limits)
    ELSE Fail("ScientificMinNotLessThanMax")

FormatResult(fn, x, how) ==
  IF fn = "formatAs" THEN ToDecimalString(x, how) ELSE FormatWithin(x, how)

(***************************************************************************)
(* The constants of the library that the contract exposes.                 *)
(***************************************************************************)
ConstantResult(fn) ==
  CASE fn = "maxPositiveValue" -> Num(PackMax, PackExpMax)
    [] fn = "minPositiveValue" -> Num(1, PackExpMin)
    [] fn = "maxNegativeValue" -> Num(-1, PackExpMin)
    [] fn = "minNegativeValue" -> Num(PackMin, PackExpMax)
    [] fn = "zero" -> Num(0, 0)
    [] fn = "FORMAT_DEFAULT_SCIENTIFIC_MIN" -> Packs(DefaultLimits.min)
    [] fn = "FORMAT_DEFAULT_SCIENTIFIC_MAX" -> Packs(DefaultLimits.max)

-----------------------------------------------------------------------------

(***************************************************************************)
(* The calls callers make, and the result of any of them.                  *)
(***************************************************************************)
ConstantCalls  == {<<fn>> : fn \in Calls \cap Constants}
UnaryCalls     == (Calls \cap Unary) \X Floats
BinaryCalls    == (Calls \cap Binary) \X Floats \X Floats
ToFixedCalls   == (Calls \cap ToFixed) \X Floats \X Decimals
FromFixedCalls == (Calls \cap FromFixed) \X Values \X Decimals
ParseCalls     == (Calls \cap {"parse"}) \X Texts
FormatCalls    == (Calls \cap {"formatDefault"}) \X Floats
FormatWithinCalls == (Calls \cap {"format"}) \X Floats \X Limits
FormatAsCalls     == (Calls \cap {"formatAs"}) \X Floats \X BOOLEAN

Result(call) ==
  CASE call[1] \in Constants -> ConstantResult(call[1])
    [] call[1] \in Unary     -> UnaryResult(call[1], call[2])
    [] call[1] \in Binary    -> BinaryResult(call[1], call[2], call[3])
    [] call[1] \in ToFixed   -> ToFixedResult(call[1], call[2], call[3])
    [] call[1] \in FromFixed -> FromFixedResult(call[1], call[2], call[3])
    [] call[1] = "parse"     -> Parse(call[2])
    [] call[1] = "formatDefault" -> FormatWithin(call[2], DefaultLimits)
    [] call[1] \in {"format", "formatAs"} -> FormatResult(call[1], call[2], call[3])
=============================================================================
