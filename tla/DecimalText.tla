----------------------------- MODULE DecimalText -----------------------------
(***************************************************************************)
(* Floats as text: the scanner of LibParseDecimalFloat and the two layouts *)
(* of LibFormatDecimalFloat.                                               *)
(*                                                                         *)
(* A text is what the scanner finds in it, from left to right: a sign,     *)
(* digits, a point with digits, a mark "e" with signed digits, and whether *)
(* characters follow that fit none of these.  A run of digits is its value *)
(* and its length; a length of 0 says that no digit is there.  Texts with  *)
(* more than one sign in a row are left out: what the string library reads *)
(* in them is not this repository's.                                       *)
(***************************************************************************)
EXTENDS FloatImplementation, PackContract, ExactNumbers

CONSTANT MaxPlain  \* 1000, MAX_NON_SCIENTIFIC_EXPONENT

(***************************************************************************)
(* Plain layout shows all the zeros an int224 holds.                       *)
(***************************************************************************)
ASSUME MaxPlainAssumption == MaxPlain \in Nat /\ PackD <= MaxPlain

Digits(value, len) == [value |-> value, len |-> len]
NoDigits == Digits(0, 0)

Number(minus, whole, frac, exp) ==
  [minus |-> minus, whole |-> whole, point |-> frac # NoDigits, frac |-> frac,
   mark |-> exp # NoDigits, exp |-> exp, rest |-> FALSE]

(***************************************************************************)
(* The texts there are.  No text is so long that its length is beyond an   *)
(* exponent.                                                               *)
(***************************************************************************)
Runs(values) == {d \in [value : values, len : 0..ExpMax] : Abs(d.value) < ten[d.len]}

Scanned == [minus : BOOLEAN, whole : Runs(Nat), point : BOOLEAN, frac : Runs(Nat),
            mark : BOOLEAN, exp : Runs(Int), rest : BOOLEAN]

(***************************************************************************)
(* Digits without their trailing zeros.                                    *)
(***************************************************************************)
TrailingZeros(d) ==
  IF d.value = 0 THEN d.len
  ELSE CHOOSE k \in 0..d.len : d.value % ten[k] = 0 /\ d.value \div ten[k] % 10 # 0

Strip(d) == LET k == TrailingZeros(d) IN Digits(d.value \div ten[k], d.len - k)

-----------------------------------------------------------------------------

(***************************************************************************)
(* unsafeDecimalStringToSignedInt succeeds on what an int256 holds.        *)
(***************************************************************************)
Readable(n) == n \in Coef

(***************************************************************************)
(* Mutants of JoinDigits: the product is tested against int224 alone; one  *)
(* digit less behind the point.                                            *)
(***************************************************************************)
JoinDigitsWrapped(whole, frac, len) ==
  LET scaled == WrapCoef(whole * Pow10[len])
  IN  IF scaled \in Packed THEN Num(scaled + frac, -len) ELSE Fail("ParseDecimalPrecisionLoss")

JoinDigitsOneLess(whole, frac, len) ==
  IF len < PackD THEN Num(whole * Pow10[len] + frac, -len) ELSE Fail("ParseDecimalPrecisionLoss")

(***************************************************************************)
(* The digits before the point move to the left of the len digits behind   *)
(* it.  The multiplication is unchecked, and tested by dividing back.      *)
(***************************************************************************)
JoinDigits(whole, frac, len) ==
  LET scaled == WrapCoef(whole * Pow10[len])
  IN  IF len <= PackD /\ Quot(scaled, Pow10[len]) = whole /\ scaled \in Packed
        THEN Num(scaled + frac, -len)
        ELSE Fail("ParseDecimalPrecisionLoss")

(***************************************************************************)
(* The coefficient and the exponent of the digits before the mark.         *)
(***************************************************************************)
ParseFraction(t, whole) ==
  LET frac == Strip(t.frac)
      sign == IF t.minus THEN -1 ELSE 1
  IN  CASE ~t.point -> Num(whole, 0)
        [] t.point /\ t.frac.len = 0 -> Fail("MalformedDecimalPoint")
        [] t.point /\ t.frac.len > 0 ->
             IF ~Readable(frac.value) THEN Fail("ParseDecimalOverflow")
             ELSE IF whole = 0 THEN Num(sign * frac.value, -frac.len)
             ELSE JoinDigits(whole, sign * frac.value, frac.len)

ParseCoefficient(t) ==
  LET whole == IF t.minus THEN -t.whole.value ELSE t.whole.value
  IN  CASE t.whole.len = 0 -> Fail("ParseEmptyDecimalString")
        [] t.whole.len > 0 /\ ~Readable(whole) -> Fail("ParseDecimalOverflow")
        [] t.whole.len > 0 /\ Readable(whole) -> ParseFraction(t, whole)

(***************************************************************************)
(* The exponent behind the mark is added, unchecked and tested for wrap.   *)
(***************************************************************************)
ParseExponent(t, n) ==
  LET e       == WrapExp(n.e + t.exp.value)
      wrapped == (t.exp.value > 0 /\ e < n.e) \/ (t.exp.value < 0 /\ e > n.e)
  IN  CASE ~t.mark -> n
        [] t.mark /\ t.exp.len = 0 -> Fail("MalformedExponentDigits")
        [] t.mark /\ t.exp.len > 0 /\ t.exp.value \notin Exp -> Fail("ParseDecimalOverflow")
        [] t.mark /\ t.exp.len > 0 /\ t.exp.value \in Exp ->
             IF wrapped THEN Fail("ExponentOverflow") ELSE Num(n.c, e)

(***************************************************************************)
(* A zero has the exponent zero.                                           *)
(***************************************************************************)
NormalizeZero(n) == IF n.status = "ok" /\ n.c = 0 THEN MaximizedZero ELSE n

ParseMark(t, n) == IF n.status = "ok" THEN NormalizeZero(ParseExponent(t, n)) ELSE n

ParseInline(t) == ParseMark(t, ParseCoefficient(t))

(***************************************************************************)
(* Parsing returns its errors, as selectors, beside a zero float; only     *)
(* packing reverts.                                                        *)
(***************************************************************************)
Refuse(error) == [status |-> "refused", selector |-> error, c |-> 0, e |-> 0]

PackRead(p) ==
  CASE p.status # "ok" -> Fail(p.status)
    [] p.status = "ok" /\ p.lossless  -> Num(p.c, p.e)
    [] p.status = "ok" /\ ~p.lossless -> Refuse("ParseDecimalPrecisionLoss")

ParseEnd(n, rest) ==
  CASE n.status # "ok" -> Refuse(n.status)
    [] n.status = "ok" /\ rest  -> Refuse("ParseDecimalFloatExcessCharacters")
    [] n.status = "ok" /\ ~rest -> PackRead(PackLossy(n.c, n.e))

Parse(t) == ParseEnd(ParseInline(t), t.rest)

-----------------------------------------------------------------------------

Shows(t) == [status |-> "ok", text |-> t]
Unformatable == Fail("UnformatableExponent")

(***************************************************************************)
(* Mutant of PlaceFraction: the zeros between the point and the first      *)
(* other digit are lost.                                                   *)
(***************************************************************************)
PlaceFractionFlush(n, places) ==
  LET d == Strip(Digits(n, places)) IN IF n = 0 THEN NoDigits ELSE Digits(d.value, Length(d.value))

(***************************************************************************)
(* What follows the point when n is shown in so many places.               *)
(***************************************************************************)
PlaceFraction(n, places) == IF n = 0 THEN NoDigits ELSE Strip(Digits(n, places))

WholeDigits(n) == Digits(n, Length(n))

(***************************************************************************)
(* d.ddde+N: the maximized coefficient has D + 1 or D digits, one of them  *)
(* in front of the point.  An exponent of zero is not shown.               *)
(***************************************************************************)
ShowScientific(m, places) ==
  IF m.e + places \notin PackExp THEN Unformatable
  ELSE Shows(Number(m.c < 0, Digits(Abs(m.c) \div Pow10[places], 1),
                    PlaceFraction(Abs(m.c) % Pow10[places], places),
                    IF m.e + places = 0 THEN NoDigits
                      ELSE Digits(m.e + places, Length(Abs(m.e + places)))))

ToScientific(m) ==
  CASE ~m.full -> Fail("MaximizeOverflow")
    [] m.full /\ Quot(m.c, Pow10[D]) # 0 -> ShowScientific(m, D)
    [] m.full /\ Quot(m.c, Pow10[D]) = 0 -> ShowScientific(m, D - 1)

(***************************************************************************)
(* A positive exponent is only shown as zeros if the integer can be read   *)
(* back into an int224.                                                    *)
(***************************************************************************)
PlainFits(c, e) == /\ e \in -MaxPlain..MaxPlain
                   /\ e > 0 => e <= PackD /\ Abs(c) <= PackMax \div Pow10[e]

(***************************************************************************)
(* ddd.ddd: the significant digits, then zeros or a point among or before  *)
(* them.                                                                   *)
(***************************************************************************)
ShowPlain(minus, n, exp) ==
  IF exp >= 0 THEN Shows(Number(minus, WholeDigits(n * ten[exp]), NoDigits, NoDigits))
  ELSE Shows(Number(minus, WholeDigits(n \div ten[-exp]), Digits(n % ten[-exp], -exp), NoDigits))

ToPlain(c, e) ==
  LET zeros == TrailingZeros(WholeDigits(Abs(c)))
  IN  IF PlainFits(c, e) THEN ShowPlain(c < 0, Abs(c) \div ten[zeros], e + zeros)
                         ELSE Unformatable

ToDecimalString(x, scientific) ==
  CASE x.c = 0 -> Shows(Number(FALSE, Digits(0, 1), NoDigits, NoDigits))
    [] x.c # 0 /\ scientific  -> ToScientific(Maximize(x.c, x.e))
    [] x.c # 0 /\ ~scientific -> ToPlain(x.c, x.e)
=============================================================================
