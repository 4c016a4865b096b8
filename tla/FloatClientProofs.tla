------------------------- MODULE FloatClientProofs -------------------------
(***************************************************************************)
(* For any number of threads, any floats, texts and widths: a thread of    *)
(* the crate is told what the contract answers, no plumbing error comes up *)
(* without its cause, what the methods return means what they are called,  *)
(* and bigints and hex strings keep their numbers on the way to a page.    *)
(***************************************************************************)
EXTENDS JsFloat, DecimalCallsProofs

(***************************************************************************)
(* The functions of the contract by what their output is decoded to.       *)
(***************************************************************************)
FloatFunctions == Constants \cup (Unary \ {"isZero"}) \cup {"add", "sub", "mul", "div", "min", "max"}
BoolFunctions  == {"isZero", "eq", "lt", "gt", "lte", "gte"}
TextFunctions  == {"format", "formatAs", "formatDefault"}

Decoding(fn, returns) ==
  \/ returns = "float"     /\ fn \in FloatFunctions \cup {"fromFixedDecimalLossless"}
  \/ returns = "bool"      /\ fn \in BoolFunctions
  \/ returns = "text"      /\ fn \in TextFunctions
  \/ returns = "parsed"    /\ fn = "parse"
  \/ returns = "fixed"     /\ fn = "toFixedDecimalLossless"
  \/ returns = "fixedFlag" /\ fn = "toFixedDecimalLossy"
  \/ returns = "floatFlag" /\ fn = "fromFixedDecimalLossy"

(***************************************************************************)
(* Every method decodes the output of the function it calls.               *)
(***************************************************************************)
LEMMA TablesFit == \A table \in Tables : \A m \in DOMAIN table : Decoding(table[m].fn, table[m].returns)
<1>2. \A m \in DOMAIN FixedMethods : Decoding(FixedMethods[m].fn, FixedMethods[m].returns)
  BY DEF FixedMethods, Method, Decoding, FloatFunctions, BoolFunctions, TextFunctions, Constants, Unary
<1>3. \A m \in DOMAIN ParseMethods : Decoding(ParseMethods[m].fn, ParseMethods[m].returns)
  BY DEF ParseMethods, Method, Decoding, FloatFunctions, BoolFunctions, TextFunctions, Constants, Unary
<1>4. \A m \in DOMAIN ExtremeMethods : Decoding(ExtremeMethods[m].fn, ExtremeMethods[m].returns)
  BY DEF ExtremeMethods, Method, Decoding, FloatFunctions, BoolFunctions, TextFunctions, Constants, Unary
<1>5. \A m \in DOMAIN DefaultMethods : Decoding(DefaultMethods[m].fn, DefaultMethods[m].returns)
  BY DEF DefaultMethods, Method, Decoding, FloatFunctions, BoolFunctions, TextFunctions, Constants, Unary
<1>6. \A m \in DOMAIN FormatMethods : Decoding(FormatMethods[m].fn, FormatMethods[m].returns)
  BY DEF FormatMethods, Method, Decoding, FloatFunctions, BoolFunctions, TextFunctions, Constants, Unary
<1>7. \A m \in DOMAIN ComparisonMethods : Decoding(ComparisonMethods[m].fn, ComparisonMethods[m].returns)
  BY DEF ComparisonMethods, Method, Decoding, FloatFunctions, BoolFunctions, TextFunctions, Constants, Unary
<1>8. \A m \in DOMAIN InverseMethods : Decoding(InverseMethods[m].fn, InverseMethods[m].returns)
  BY DEF InverseMethods, Method, Decoding, FloatFunctions, BoolFunctions, TextFunctions, Constants, Unary
<1>9. \A m \in DOMAIN BoundMethods : Decoding(BoundMethods[m].fn, BoundMethods[m].returns)
  BY DEF BoundMethods, Method, Decoding, FloatFunctions, BoolFunctions, TextFunctions, Constants, Unary
<1>10. \A m \in DOMAIN OperatorMethods : Decoding(OperatorMethods[m].fn, OperatorMethods[m].returns)
  BY DEF OperatorMethods, Method, Decoding, FloatFunctions, BoolFunctions, TextFunctions, Constants, Unary
<1>11. \A m \in DOMAIN RoundingMethods : Decoding(RoundingMethods[m].fn, RoundingMethods[m].returns)
  BY DEF RoundingMethods, Method, Decoding, FloatFunctions, BoolFunctions, TextFunctions, Constants, Unary
<1>12. \A m \in DOMAIN SelectionMethods : Decoding(SelectionMethods[m].fn, SelectionMethods[m].returns)
  BY DEF SelectionMethods, Method, Decoding, FloatFunctions, BoolFunctions, TextFunctions, Constants, Unary
<1>13. \A m \in DOMAIN NegMethods : Decoding(NegMethods[m].fn, NegMethods[m].returns)
  BY DEF NegMethods, Method, Decoding, FloatFunctions, BoolFunctions, TextFunctions, Constants, Unary
<1> QED
  BY <1>2, <1>3, <1>4, <1>5, <1>6, <1>7, <1>8, <1>9, <1>10, <1>11, <1>12, <1>13, Zenon DEF Tables

(***************************************************************************)
(* So every method of the crate decodes what its function returns.         *)
(***************************************************************************)
LEMMA ApiFits == \A m \in DOMAIN Api : Decoding(Api[m].fn, Api[m].returns)
BY TablesFit, Zenon DEF Api

-----------------------------------------------------------------------------

(***************************************************************************)
(* The shapes of the contract's results, whatever the numbers in them.     *)
(***************************************************************************)
IsFail(r)   == r.status # "ok" /\ r = Fail(r.status)
IsFloat(r)  == r = Num(r.c, r.e)
IsBool(r)   == r = Holds(r.holds)
IsText(r)   == r = Shows(r.text)
IsFixed(r)  == r = Fixed(r.value, r.lossless) /\ r.lossless \in BOOLEAN
IsFlagged(r) == r = Float(r.c, r.e, r.lossless)
IsRefusal(r) == r = Refuse(r.selector)

(***************************************************************************)
(* Packing fails or returns a float.                                       *)
(***************************************************************************)
LEMMA PackedShape ==
  ASSUME NEW r
  PROVE  IsFail(Packed224(r)) \/ IsFloat(Packed224(r))
BY DEF Packed224, Packs, Fail, Num, IsFail, IsFloat

(***************************************************************************)
(* The constants are floats.                                               *)
(***************************************************************************)
LEMMA ConstantShape ==
  ASSUME NEW fn \in Constants
  PROVE  IsFloat(ConstantResult(fn))
BY DEF ConstantResult, Constants, Num, Packs, IsFloat

(***************************************************************************)
(* Functions of one float fail or return a float; isZero returns a flag.   *)
(***************************************************************************)
LEMMA UnaryShape ==
  ASSUME NEW fn \in Unary, NEW a
  PROVE  IF fn = "isZero" THEN IsBool(UnaryResult(fn, a))
         ELSE IsFail(UnaryResult(fn, a)) \/ IsFloat(UnaryResult(fn, a))
<1>1. IsFail(Floor(a)) \/ IsFloat(Floor(a))
  <2>1. IsFloat(Packs(a))
    BY DEF IsFloat, Packs, Num
  <2> QED
    BY <2>1, PackedShape DEF Floor
<1>2. IsFail(Ceil(a)) \/ IsFloat(Ceil(a))
  <2>1. IsFloat(Packs(a))
    BY DEF IsFloat, Packs, Num
  <2> QED
    BY <2>1, PackedShape DEF Ceil
<1>3. IsBool(Holds(a.c = 0))
  BY DEF IsBool, Holds
<1> QED
  BY <1>1, <1>2, <1>3, PackedShape DEF UnaryResult, Unary

(***************************************************************************)
(* Functions of two floats fail or return a float; comparisons return a    *)
(* flag.                                                                   *)
(***************************************************************************)
LEMMA BinaryShape ==
  ASSUME NEW fn \in Binary, NEW a, NEW b
  PROVE  IF fn \in BoolFunctions THEN IsBool(BinaryResult(fn, a, b))
         ELSE IsFail(BinaryResult(fn, a, b)) \/ IsFloat(BinaryResult(fn, a, b))
<1>1. \A x : IsFloat(Packs(x))
  BY DEF IsFloat, Packs, Num
<1>2. \A x : IsBool(Holds(x))
  BY DEF IsBool, Holds
<1> QED
  BY <1>1, <1>2, PackedShape DEF BinaryResult, Binary, BoolFunctions

(***************************************************************************)
(* Conversions to fixed point fail or return a value with its loss flag;   *)
(* the lossless one has lost nothing.                                      *)
(***************************************************************************)
LEMMA ToFixedShape ==
  ASSUME NEW fn \in ToFixed, NEW a, NEW decimals
  PROVE  LET r == ToFixedResult(fn, a, decimals)
         IN  IsFail(r) \/ (IsFixed(r) /\ (fn = "toFixedDecimalLossless" => r.lossless))
<1>1. IsFail(FixedDecimal(a, decimals)) \/ IsFixed(FixedDecimal(a, decimals))
  <2>1. \A s : s # "ok" => IsFail(Fail(s))
    BY DEF IsFail, Fail
  <2>2. \A v, exact : exact \in BOOLEAN => IsFixed(Fixed(v, exact))
    BY DEF IsFixed, Fixed
  <2> DEFINE e == WrapExp(a.e + decimals)
             scale == Pow10[IF Abs(e) <= D + 1 THEN Abs(e) ELSE 0]
             kept == (a.c \div scale) * scale = a.c
  <2>3. kept \in BOOLEAN
    BY Zenon
  <2>4. FixedDecimal(a, decimals) \in
          {Fail("NegativeFixedDecimalConversion"), Fail("ExponentOverflow"), Fail("FixedDecimalOverflow"),
           Fixed(0, TRUE), Fixed(0, FALSE), Fixed(a.c \div scale, kept), Fixed(a.c * scale, TRUE)}
    BY DEF FixedDecimal
  <2> HIDE DEF kept, scale, e
  <2> QED
    BY <2>1, <2>2, <2>3, <2>4
<1>2. IsFail(Fail("LossyConversionFromFloat"))
  BY DEF IsFail, Fail
<1> QED
  BY <1>1, <1>2 DEF ToFixedResult, IsFail, IsFixed, Fixed

(***************************************************************************)
(* A conversion that is called lossless and returns lost nothing: packing  *)
(* without loss fails unless it keeps every digit.                         *)
(***************************************************************************)
LEMMA PackShape ==
  ASSUME NEW c, NEW e
  PROVE  LET p == PackLossy(c, e)
         IN  IsFlagged(p) \/ (p.status # "ok" /\ p = Revert(p.status))
BY DEF PackLossy, FloatZero, Underflow, Float, Revert, IsFlagged

(***************************************************************************)
(* A lossless caller of packing reverts unless the flag is set.            *)
(***************************************************************************)
LEMMA FinaliseShape ==
  ASSUME NEW p, NEW exact \in BOOLEAN, NEW how \in {"packLossy", "packLossless"},
         IsFlagged(p) \/ (p.status # "ok" /\ p = Revert(p.status))
  PROVE  LET r == Finalise(how, p, exact)
         IN  \/ r.status # "ok"
             \/ IsFlagged(r) /\ (how = "packLossless" /\ exact => r.lossless = TRUE)
BY DEF Finalise, Float, Revert, IsFlagged

(***************************************************************************)
(* Conversions from fixed point fail or return a float with its loss flag. *)
(***************************************************************************)
LEMMA FromFixedShape ==
  ASSUME NEW fn \in FromFixed, NEW value, NEW decimals
  PROVE  LET r == FromFixedResult(fn, value, decimals)
         IN  IsFail(r) \/ (IsFlagged(r) /\ (fn = "fromFixedDecimalLossless" => r.lossless = TRUE))
<1> DEFINE d == FromFixedDecimal(value, decimals)
           p == Finalise(IF fn = "fromFixedDecimalLossless" THEN "packLossless" ELSE "packLossy",
                         PackLossy(d.c, d.e), d.exact)
<1>1. d.exact \in BOOLEAN
  BY DEF FromFixedDecimal
<1>2. p.status # "ok" \/ (IsFlagged(p) /\ (fn = "fromFixedDecimalLossless" /\ d.exact => p.lossless = TRUE))
  BY <1>1, PackShape, FinaliseShape
<1>3. \A s : s # "ok" => IsFail(Fail(s))
  BY DEF IsFail, Fail
<1>4. FromFixedResult(fn, value, decimals) =
        IF fn = "fromFixedDecimalLossless" /\ ~d.exact THEN Fail("LossyConversionToFloat")
        ELSE IF p.status = "ok" THEN p ELSE Fail(p.status)
  BY <1>1 DEF FromFixedResult
<1> HIDE DEF d, p
<1> QED
  BY <1>1, <1>2, <1>3, <1>4

(***************************************************************************)
(* Both layouts fail or are a text.                                        *)
(***************************************************************************)
LEMMA LayoutShape ==
  ASSUME NEW x, NEW scientific
  PROVE  IsFail(ToDecimalString(x, scientific)) \/ IsText(ToDecimalString(x, scientific))
<1>1. \A t : IsText(Shows(t))
  BY DEF IsText, Shows
<1>2. IsFail(Unformatable) /\ IsFail(Fail("MaximizeOverflow"))
  BY DEF IsFail, Unformatable, Fail
<1>3. \A m, places : IsFail(ShowScientific(m, places)) \/ IsText(ShowScientific(m, places))
  BY <1>1, <1>2 DEF ShowScientific
<1>4. \A m : IsFail(ToScientific(m)) \/ IsText(ToScientific(m))
  BY <1>2, <1>3 DEF ToScientific
<1>5. \A minus, n, exp : IsText(ShowPlain(minus, n, exp))
  BY <1>1 DEF ShowPlain
<1>6. \A c, e : IsFail(ToPlain(c, e)) \/ IsText(ToPlain(c, e))
  BY <1>2, <1>5 DEF ToPlain
<1> QED
  BY <1>1, <1>4, <1>6 DEF ToDecimalString

(***************************************************************************)
(* So is what the overloads of format return.                              *)
(***************************************************************************)
LEMMA FormatShape ==
  ASSUME NEW fn, NEW x, NEW how
  PROVE  IsFail(FormatResult(fn, x, how)) \/ IsText(FormatResult(fn, x, how))
<1>1. \A limits : IsFail(FormatWithin(x, limits)) \/ IsText(FormatWithin(x, limits))
  <2>1. IsFail(Fail("ScientificMinNotLessThanMax"))
    BY DEF IsFail, Fail
  <2>2. ASSUME NEW r, NEW limits
        PROVE  LET m == Packed224(r)
               IN  IsFail(FormatByMagnitude(x, m, limits)) \/ IsText(FormatByMagnitude(x, m, limits))
    <3>1. Packed224(r).status # "ok" => IsFail(Packed224(r))
      BY PackedShape DEF IsFloat, Num
    <3> QED
      BY <3>1, LayoutShape DEF FormatByMagnitude
  <2> QED
    BY <2>1, <2>2 DEF FormatWithin
<1> QED
  BY <1>1, LayoutShape DEF FormatResult

(***************************************************************************)
(* parse reverts, returns a float, or returns the selector of an error.    *)
(***************************************************************************)
LEMMA ParseShape ==
  ASSUME NEW t
  PROVE  IsFail(Parse(t)) \/ IsFloat(Parse(t)) \/ IsRefusal(Parse(t))
<1>1. \A s : IsRefusal(Refuse(s))
  BY DEF IsRefusal, Refuse
<1>2. \A s : s # "ok" => IsFail(Fail(s))
  BY DEF IsFail, Fail
<1>3. \A c, e : IsFloat(Num(c, e))
  BY DEF IsFloat, Num
<1>4. \A p : IsFail(PackRead(p)) \/ IsFloat(PackRead(p)) \/ IsRefusal(PackRead(p))
  BY <1>1, <1>2, <1>3 DEF PackRead
<1> QED
  BY <1>1, <1>4 DEF Parse, ParseEnd

-----------------------------------------------------------------------------

(***************************************************************************)
(* The functions that no argument can make fail, and what is expected of   *)
(* a result: no panic of Solidity's, and of these functions no error.      *)
(***************************************************************************)
Sure == {"lt", "eq", "gt", "lte", "gte", "min", "max", "isZero", "integer", "frac", "floor"} \cup Constants

Expected(fn, r) == r.status # "Panic" /\ (fn \in Sure => r.status = "ok")

(***************************************************************************)
(* A method that cannot fail calls a function that cannot.                 *)
(***************************************************************************)
LEMMA TotalIsSure == \A m \in DOMAIN Api : m \in Total => Api[m].fn \in Sure
<1> DEFINE CallsSure(table) == \A m \in DOMAIN table : m \in Total => table[m].fn \in Sure
<1>1. CallsSure(FixedMethods) /\ CallsSure(ParseMethods) /\ CallsSure(FormatMethods)
  BY DEF FixedMethods, ParseMethods, FormatMethods, Method, Total
<1>2. CallsSure(ExtremeMethods) /\ CallsSure(DefaultMethods)
  BY DEF ExtremeMethods, DefaultMethods, Method, Total, Sure, Constants
<1>3. CallsSure(ComparisonMethods) /\ CallsSure(BoundMethods)
  BY DEF ComparisonMethods, BoundMethods, Method, Total, Sure
<1>4. CallsSure(InverseMethods) /\ CallsSure(OperatorMethods) /\ CallsSure(NegMethods)
  BY DEF InverseMethods, OperatorMethods, NegMethods, Method, Total
<1>5. CallsSure(RoundingMethods) /\ CallsSure(SelectionMethods)
  BY DEF RoundingMethods, SelectionMethods, Method, Total, Sure
<1> HIDE DEF CallsSure
<1>6. \A table \in Tables : CallsSure(table)
  BY <1>1, <1>2, <1>3, <1>4, <1>5, Zenon DEF Tables
<1> QED
  BY <1>6, Zenon DEF Api, CallsSure

(***************************************************************************)
(* The constants are expected.                                             *)
(***************************************************************************)
LEMMA ConstantIsExpected ==
  ASSUME NEW fn \in Constants
  PROVE  Expected(fn, ConstantResult(fn))
BY DEF ConstantResult, Constants, Num, Packs, Expected

(***************************************************************************)
(* So are the functions of one float.                                      *)
(***************************************************************************)
LEMMA UnaryIsExpected ==
  ASSUME NEW fn \in Unary, NEW x \in PackedFloat
  PROVE  Expected(fn, UnaryResult(fn, x))
<1>1. x.c \in Packed /\ x.e \in PackExp /\ x.e \in Int
  BY PackedIsRoomy DEF PackedFloat
<1>2. PICK r : r = UnaryResult(fn, x)
  OBVIOUS
<1>3. CASE fn = "isZero"
  <2>1. r = Holds(x.c = 0)
    BY <1>2, <1>3 DEF UnaryResult
  <2>2. r.status = "ok"
    BY <2>1 DEF Holds
  <2> QED BY <1>2, <2>2 DEF Expected
<1>4. CASE fn # "isZero"
  <2>1. r.status # "Panic"
    BY <1>1, <1>2, <1>4, UnaryIsGood DEF Good
  <2>2. fn \in {"integer", "floor"} => r.status = "ok"
    BY <1>1, <1>2, NothingToRound, RoundedAnswer DEF Whole
  <2>3. fn = "frac" => r.status = "ok"
    <3>1. IntFrac(x.c, x.e).frac \in Packed
      BY <1>1, PartsOfFloat
    <3> QED BY <1>1, <1>2, <3>1, PackedPacks DEF UnaryResult
  <2>4. fn \in Sure => fn \in {"integer", "floor", "frac"}
    BY <1>4 DEF Sure, Unary, Constants
  <2> QED BY <1>2, <2>1, <2>2, <2>3, <2>4 DEF Expected
<1> QED BY <1>3, <1>4

(***************************************************************************)
(* And those of two.                                                       *)
(***************************************************************************)
LEMMA BinaryIsExpected ==
  ASSUME NEW fn \in Binary, NEW x \in PackedFloat, NEW y \in PackedFloat
  PROVE  Expected(fn, BinaryResult(fn, x, y))
<1>1. PICK r : r = BinaryResult(fn, x, y)
  OBVIOUS
<1>2. CASE fn \in {"add", "sub", "mul", "div"}
  <2>1. x.c \in Packed /\ x.e \in PackExp /\ y.c \in Packed /\ y.e \in PackExp
    BY DEF PackedFloat
  <2>2. r.status # "Panic"
    BY <1>1, <1>2, <2>1, OperationIsGood DEF Good
  <2>3. fn \notin Sure
    BY <1>2 DEF Sure, Constants
  <2> QED BY <1>1, <2>2, <2>3 DEF Expected
<1>3. CASE fn \notin {"add", "sub", "mul", "div"}
  <2>1. \A p : Holds(p).status = "ok"
    BY DEF Holds
  <2>2. \A z : Packs(z).status = "ok"
    BY DEF Packs
  <2>3. r.status = "ok"
    BY <1>1, <1>3, <2>1, <2>2 DEF BinaryResult, Binary
  <2> QED BY <1>1, <2>3 DEF Expected
<1> QED BY <1>2, <1>3

(***************************************************************************)
(* And the conversions to fixed point.                                     *)
(***************************************************************************)
LEMMA ToFixedIsExpected ==
  ASSUME NEW fn \in ToFixed, NEW x \in PackedFloat, NEW n \in 0..(ExpMax - PackExpMax)
  PROVE  Expected(fn, ToFixedResult(fn, x, n))
<1>1. x.c \in Packed /\ x.e \in PackExp
  BY DEF PackedFloat
<1>2. ToFixedResult(fn, x, n).status # "Panic"
  BY <1>1, ToFixedTruncates
<1>3. fn \notin Sure
  BY DEF ToFixed, Sure, Constants
<1> QED BY <1>2, <1>3 DEF Expected

(***************************************************************************)
(* And those from fixed point.                                             *)
(***************************************************************************)
LEMMA FromFixedIsExpected ==
  ASSUME NEW fn \in FromFixed, NEW v \in 0..UintMax, NEW n \in 0..(ExpMax - PackExpMax)
  PROVE  Expected(fn, FromFixedResult(fn, v, n))
<1>1. FromFixedResult(fn, v, n).status # "Panic"
  BY FromFixedConverts
<1>2. fn \notin Sure
  BY DEF FromFixed, Sure, Constants
<1> QED BY <1>1, <1>2 DEF Expected

(***************************************************************************)
(* And the parser.                                                         *)
(***************************************************************************)
LEMMA ParseIsExpected ==
  ASSUME NEW text \in Texts
  PROVE  Expected("parse", Parse(text))
<1>1. text \in Scanned /\ (text.frac # NoDigits => text.point) /\ (text.exp # NoDigits => text.mark)
  BY CallersAssumption
<1>2. Parse(text).status # "Panic"
  BY <1>1, ParseReads
<1>3. "parse" \notin Sure
  BY DEF Sure, Constants
<1> QED BY <1>2, <1>3 DEF Expected

(***************************************************************************)
(* And both layouts.                                                       *)
(***************************************************************************)
LEMMA LayoutIsExpected ==
  ASSUME NEW x, NEW scientific
  PROVE  ToDecimalString(x, scientific).status # "Panic"
<1>1. \A t : Shows(t).status = "ok"
  BY DEF Shows
<1>2. Unformatable.status = "UnformatableExponent" /\ Fail("MaximizeOverflow").status = "MaximizeOverflow"
  BY DEF Unformatable, Fail
<1>3. \A m, places : ShowScientific(m, places).status # "Panic"
  BY <1>1, <1>2 DEF ShowScientific
<1>4. \A m : ToScientific(m).status # "Panic"
  BY <1>2, <1>3 DEF ToScientific
<1>5. \A minus, n, exp : ShowPlain(minus, n, exp).status # "Panic"
  BY <1>1 DEF ShowPlain
<1>6. \A c, e : ToPlain(c, e).status # "Panic"
  BY <1>2, <1>5 DEF ToPlain
<1> QED
  BY <1>1, <1>4, <1>6 DEF ToDecimalString

(***************************************************************************)
(* And the overloads of format.                                            *)
(***************************************************************************)
LEMMA FormatIsExpected ==
  ASSUME NEW fn, NEW x \in PackedFloat, NEW how
  PROVE  FormatResult(fn, x, how).status # "Panic"
<1>1. PICK m : m = Packed224(AbsOf(x.c, x.e))
  OBVIOUS
<1>2. m.status # "Panic"
  <2>1. x.c \in Packed /\ x.e \in PackExp
    BY DEF PackedFloat
  <2>2. PICK f \in Unary : f = "abs" /\ f # "isZero" /\ f # "inv"
    BY DEF Unary
  <2>3. m = UnaryResult(f, x)
    BY <1>1, <2>2 DEF UnaryResult
  <2> QED BY <2>1, <2>2, <2>3, UnaryIsGood DEF Good
<1>3. FormatByMagnitude(x, m, how).status # "Panic"
  BY <1>2, LayoutIsExpected DEF FormatByMagnitude
<1>4. Fail("ScientificMinNotLessThanMax").status # "Panic"
  BY DEF Fail
<1> QED BY <1>1, <1>3, <1>4, LayoutIsExpected DEF FormatResult, FormatWithin

-----------------------------------------------------------------------------

(***************************************************************************)
(* The result of any request is expected, and has the shape that its       *)
(* method decodes.                                                         *)
(***************************************************************************)
Matches(fn, returns, r) ==
  /\ fn = "fromFixedDecimalLossless" => IsFlagged(r) /\ r.lossless = TRUE
  /\ fn # "fromFixedDecimalLossless" /\ returns \in {"float", "parsed"} => IsFloat(r)
  /\ returns = "bool"      => IsBool(r)
  /\ returns = "text"      => IsText(r)
  /\ returns = "fixed"     => IsFixed(r) /\ r.lossless = TRUE
  /\ returns = "floatFlag" => IsFlagged(r)
  /\ returns = "fixedFlag" => IsFixed(r)

Shaped(fn, returns, r) ==
  /\ Expected(fn, r)
  /\ IsFail(r) \/ Matches(fn, returns, r) \/ (fn = "parse" /\ IsRefusal(r))

(***************************************************************************)
(* The same of the contract's functions as a call reaches them: constants. *)
(***************************************************************************)
LEMMA ConstantShaped ==
  ASSUME NEW fn \in Constants, NEW returns, Decoding(fn, returns)
  PROVE  Shaped(fn, returns, Result(<<fn>>))
<1>1. Result(<<fn>>) = ConstantResult(fn)
  BY DEF Result, Constants, Unary, Binary, ToFixed, FromFixed
<1>2. returns = "float" /\ fn # "fromFixedDecimalLossless"
  BY DEF Constants, Decoding, BoolFunctions, TextFunctions
<1> QED
  BY <1>1, <1>2, ConstantShape, ConstantIsExpected DEF Shaped, Matches

(***************************************************************************)
(* Functions of one float.                                                 *)
(***************************************************************************)
LEMMA UnaryShaped ==
  ASSUME NEW fn \in Unary, NEW returns, Decoding(fn, returns), NEW x \in Floats
  PROVE  Shaped(fn, returns, Result(<<fn, x>>))
<1>1. Result(<<fn, x>>) = UnaryResult(fn, x)
  BY DEF Result, Constants, Unary, Binary, ToFixed, FromFixed
<1>2. /\ fn # "fromFixedDecimalLossless"
      /\ returns = IF fn = "isZero" THEN "bool" ELSE "float"
  BY DEF Unary, Decoding, FloatFunctions, Constants, BoolFunctions, TextFunctions
<1>3. Expected(fn, UnaryResult(fn, x))
  BY CallersAssumption, UnaryIsExpected
<1> QED
  BY <1>1, <1>2, <1>3, UnaryShape DEF Shaped, Matches

(***************************************************************************)
(* Functions of two floats.                                                *)
(***************************************************************************)
LEMMA BinaryShaped ==
  ASSUME NEW fn \in Binary, NEW returns, Decoding(fn, returns), NEW x \in Floats, NEW y \in Floats
  PROVE  Shaped(fn, returns, Result(<<fn, x, y>>))
<1>1. Result(<<fn, x, y>>) = BinaryResult(fn, x, y)
  BY DEF Result, Constants, Unary, Binary, ToFixed, FromFixed
<1>2. /\ fn # "fromFixedDecimalLossless"
      /\ returns = IF fn \in BoolFunctions THEN "bool" ELSE "float"
  BY DEF Binary, Unary, Decoding, FloatFunctions, Constants, BoolFunctions, TextFunctions
<1>3. Expected(fn, BinaryResult(fn, x, y))
  BY CallersAssumption, BinaryIsExpected
<1> QED
  BY <1>1, <1>2, <1>3, BinaryShape DEF Shaped, Matches

(***************************************************************************)
(* Conversions to fixed point.                                             *)
(***************************************************************************)
LEMMA ToFixedShaped ==
  ASSUME NEW fn \in ToFixed, NEW returns, Decoding(fn, returns), NEW x \in Floats, NEW n \in Decimals
  PROVE  Shaped(fn, returns, Result(<<fn, x, n>>))
<1>1. Result(<<fn, x, n>>) = ToFixedResult(fn, x, n)
  BY DEF Result, Constants, Unary, Binary, ToFixed, FromFixed
<1>2. /\ fn # "fromFixedDecimalLossless"
      /\ returns = IF fn = "toFixedDecimalLossless" THEN "fixed" ELSE "fixedFlag"
  BY DEF ToFixed, Unary, Decoding, FloatFunctions, Constants, BoolFunctions, TextFunctions
<1>3. Expected(fn, ToFixedResult(fn, x, n))
  BY CallersAssumption, ToFixedIsExpected
<1> QED
  BY <1>1, <1>2, <1>3, ToFixedShape DEF Shaped, Matches, IsFixed

(***************************************************************************)
(* Conversions from fixed point.                                           *)
(***************************************************************************)
LEMMA FromFixedShaped ==
  ASSUME NEW fn \in FromFixed, NEW returns, Decoding(fn, returns), NEW v \in Values, NEW n \in Decimals
  PROVE  Shaped(fn, returns, Result(<<fn, v, n>>))
<1>1. Result(<<fn, v, n>>) = FromFixedResult(fn, v, n)
  BY DEF Result, Constants, Unary, Binary, ToFixed, FromFixed
<1>2. \/ fn = "fromFixedDecimalLossless" /\ returns = "float"
      \/ fn = "fromFixedDecimalLossy" /\ returns = "floatFlag"
  BY DEF FromFixed, Unary, Decoding, FloatFunctions, Constants, BoolFunctions, TextFunctions
<1>3. Expected(fn, FromFixedResult(fn, v, n))
  BY CallersAssumption, FromFixedIsExpected
<1> QED
  BY <1>1, <1>2, <1>3, FromFixedShape DEF Shaped, Matches

(***************************************************************************)
(* The parser.                                                             *)
(***************************************************************************)
LEMMA ParseShaped ==
  ASSUME NEW returns, Decoding("parse", returns), NEW text \in Texts
  PROVE  Shaped("parse", returns, Result(<<"parse", text>>))
<1>1. Result(<<"parse", text>>) = Parse(text)
  BY DEF Result, Constants, Unary, Binary, ToFixed, FromFixed
<1>2. returns = "parsed"
  BY DEF Unary, Decoding, FloatFunctions, Constants, BoolFunctions, TextFunctions
<1> QED
  BY <1>1, <1>2, ParseShape, ParseIsExpected DEF Shaped, Matches

(***************************************************************************)
(* The overloads of format.                                                *)
(***************************************************************************)
LEMMA TextShaped ==
  ASSUME NEW fn \in TextFunctions, NEW returns, Decoding(fn, returns), NEW x \in Floats, NEW how
  PROVE  /\ Shaped(fn, returns, Result(<<fn, x, how>>))
         /\ fn = "formatDefault" => Shaped(fn, returns, Result(<<fn, x>>))
<1>1. fn # "formatDefault" => Result(<<fn, x, how>>) = FormatResult(fn, x, how)
  BY DEF Result, Constants, Unary, Binary, ToFixed, FromFixed, TextFunctions
<1>2. fn = "formatDefault" =>
        /\ Result(<<fn, x>>) = FormatResult("format", x, DefaultLimits)
        /\ Result(<<fn, x, how>>) = FormatResult("format", x, DefaultLimits)
  BY DEF Result, Constants, Unary, Binary, ToFixed, FromFixed, FormatResult
<1>3. returns = "text" /\ fn # "fromFixedDecimalLossless"
  BY DEF TextFunctions, Unary, Decoding, FloatFunctions, Constants, BoolFunctions
<1>4. \A f : Expected(fn, FormatResult(f, x, how)) /\ Expected(fn, FormatResult(f, x, DefaultLimits))
  <2>1. fn \notin Sure
    BY DEF TextFunctions, Sure, Constants
  <2> QED BY <2>1, CallersAssumption, FormatIsExpected DEF Expected
<1> QED
  BY <1>1, <1>2, <1>3, <1>4, FormatShape DEF Shaped, Matches

(***************************************************************************)
(* Encoding replaces the method's name by the function's.                  *)
(***************************************************************************)
LEMMA EncodedTuples ==
  ASSUME NEW m, NEW x, NEW y
  PROVE  /\ Encode(<<m>>) = <<Api[m].fn>>
         /\ Encode(<<m, x>>) = <<Api[m].fn, x>>
         /\ Encode(<<m, x, y>>) = <<Api[m].fn, x, y>>
BY DEF Encode

(***************************************************************************)
(* A method calls its function and decodes its return type.                *)
(***************************************************************************)
LEMMA MethodDecodes ==
  ASSUME NEW t \in Threads, NEW functions, NEW m \in MethodsOf(t, functions)
  PROVE  /\ m \in DOMAIN Api /\ Api[m].fn \in functions
         /\ Decoding(Api[m].fn, Api[m].returns)
BY ApiFits, ClientAssumption DEF MethodsOf

(***************************************************************************)
(* Whatever a thread asks, the contract's result has the shape that its    *)
(* method decodes.                                                         *)
(***************************************************************************)
LEMMA ResultShape ==
  ASSUME NEW t \in Threads, NEW request \in Requests(t)
  PROVE  Shaped(Api[request[1]].fn, Api[request[1]].returns, Result(Encode(request)))
<1> DEFINE P(q) == Shaped(Api[q[1]].fn, Api[q[1]].returns, Result(Encode(q)))
<1>1. \A m \in MethodsOf(t, Constants) : P(<<m>>)
  <2> TAKE m \in MethodsOf(t, Constants)
  <2>1. Api[m].fn \in Constants /\ Decoding(Api[m].fn, Api[m].returns)
    BY MethodDecodes
  <2>2. Shaped(Api[m].fn, Api[m].returns, Result(<<Api[m].fn>>))
    BY <2>1, ConstantShaped
  <2>3. Encode(<<m>>) = <<Api[m].fn>>
    BY EncodedTuples
  <2> QED
    BY <2>2, <2>3
<1>2. \A m \in MethodsOf(t, Unary), x \in Floats : P(<<m, x>>)
  <2> TAKE m \in MethodsOf(t, Unary), x \in Floats
  <2>1. Api[m].fn \in Unary /\ Decoding(Api[m].fn, Api[m].returns)
    BY MethodDecodes
  <2>2. Shaped(Api[m].fn, Api[m].returns, Result(<<Api[m].fn, x>>))
    BY <2>1, UnaryShaped
  <2>3. Encode(<<m, x>>) = <<Api[m].fn, x>>
    BY EncodedTuples
  <2> QED
    BY <2>2, <2>3
<1>3. \A m \in MethodsOf(t, Binary), x \in Floats, y \in Floats : P(<<m, x, y>>)
  <2> TAKE m \in MethodsOf(t, Binary), x \in Floats, y \in Floats
  <2>1. Api[m].fn \in Binary /\ Decoding(Api[m].fn, Api[m].returns)
    BY MethodDecodes
  <2>2. Shaped(Api[m].fn, Api[m].returns, Result(<<Api[m].fn, x, y>>))
    BY <2>1, BinaryShaped
  <2>3. Encode(<<m, x, y>>) = <<Api[m].fn, x, y>>
    BY EncodedTuples
  <2> QED
    BY <2>2, <2>3
<1>4. \A m \in MethodsOf(t, ToFixed), x \in Floats, n \in Decimals : P(<<m, x, n>>)
  <2> TAKE m \in MethodsOf(t, ToFixed), x \in Floats, n \in Decimals
  <2>1. Api[m].fn \in ToFixed /\ Decoding(Api[m].fn, Api[m].returns)
    BY MethodDecodes
  <2>2. Shaped(Api[m].fn, Api[m].returns, Result(<<Api[m].fn, x, n>>))
    BY <2>1, ToFixedShaped
  <2>3. Encode(<<m, x, n>>) = <<Api[m].fn, x, n>>
    BY EncodedTuples
  <2> QED
    BY <2>2, <2>3
<1>5. \A m \in MethodsOf(t, FromFixed), v \in Values, n \in Decimals : P(<<m, v, n>>)
  <2> TAKE m \in MethodsOf(t, FromFixed), v \in Values, n \in Decimals
  <2>1. Api[m].fn \in FromFixed /\ Decoding(Api[m].fn, Api[m].returns)
    BY MethodDecodes
  <2>2. Shaped(Api[m].fn, Api[m].returns, Result(<<Api[m].fn, v, n>>))
    BY <2>1, FromFixedShaped
  <2>3. Encode(<<m, v, n>>) = <<Api[m].fn, v, n>>
    BY EncodedTuples
  <2> QED
    BY <2>2, <2>3
<1>6. \A m \in MethodsOf(t, {"parse"}), text \in Texts : P(<<m, text>>)
  <2> TAKE m \in MethodsOf(t, {"parse"}), text \in Texts
  <2>1. Api[m].fn \in {"parse"} /\ Decoding(Api[m].fn, Api[m].returns)
    BY MethodDecodes
  <2>2. Shaped(Api[m].fn, Api[m].returns, Result(<<Api[m].fn, text>>))
    BY <2>1, ParseShaped
  <2>3. Encode(<<m, text>>) = <<Api[m].fn, text>>
    BY EncodedTuples
  <2> QED
    BY <2>2, <2>3
<1>7. \A m \in MethodsOf(t, {"formatDefault"}), x \in Floats : P(<<m, x>>)
  <2> TAKE m \in MethodsOf(t, {"formatDefault"}), x \in Floats
  <2>1. Api[m].fn \in {"formatDefault"} /\ Decoding(Api[m].fn, Api[m].returns)
    BY MethodDecodes
  <2>2. Shaped(Api[m].fn, Api[m].returns, Result(<<Api[m].fn, x>>))
    BY <2>1, TextShaped DEF TextFunctions
  <2>3. Encode(<<m, x>>) = <<Api[m].fn, x>>
    BY EncodedTuples
  <2> QED
    BY <2>2, <2>3
<1>8. \A m \in MethodsOf(t, {"format"}), x \in Floats, limits \in Limits : P(<<m, x, limits>>)
  <2> TAKE m \in MethodsOf(t, {"format"}), x \in Floats, limits \in Limits
  <2>1. Api[m].fn \in {"format"} /\ Decoding(Api[m].fn, Api[m].returns)
    BY MethodDecodes
  <2>2. Shaped(Api[m].fn, Api[m].returns, Result(<<Api[m].fn, x, limits>>))
    BY <2>1, TextShaped DEF TextFunctions
  <2>3. Encode(<<m, x, limits>>) = <<Api[m].fn, x, limits>>
    BY EncodedTuples
  <2> QED
    BY <2>2, <2>3
<1>9. \A m \in MethodsOf(t, {"formatAs"}), x \in Floats, p \in BOOLEAN : P(<<m, x, p>>)
  <2> TAKE m \in MethodsOf(t, {"formatAs"}), x \in Floats, p \in BOOLEAN
  <2>1. Api[m].fn \in {"formatAs"} /\ Decoding(Api[m].fn, Api[m].returns)
    BY MethodDecodes
  <2>2. Shaped(Api[m].fn, Api[m].returns, Result(<<Api[m].fn, x, p>>))
    BY <2>1, TextShaped DEF TextFunctions
  <2>3. Encode(<<m, x, p>>) = <<Api[m].fn, x, p>>
    BY EncodedTuples
  <2> QED
    BY <2>2, <2>3
<1> HIDE DEF P
<1>10. P(request)
  BY <1>1, <1>2, <1>3, <1>4, <1>5, <1>6, <1>7, <1>8, <1>9 DEF Requests
<1> QED
  BY <1>10 DEF P

(***************************************************************************)
(* A call's function is the method's, and a text that is parsed is passed  *)
(* as it is.                                                               *)
(***************************************************************************)
LEMMA CallShape ==
  ASSUME NEW t \in Threads, NEW request \in Requests(t)
  PROVE  /\ request[1] \in DOMAIN Api
         /\ Decoding(Api[request[1]].fn, Api[request[1]].returns)
         /\ Encode(request)[1] = Api[request[1]].fn
         /\ Encode(request)[1] = "parse" => Encode(request)[2] = request[2]
<1> DEFINE P(q) == /\ q[1] \in DOMAIN Api
                   /\ Decoding(Api[q[1]].fn, Api[q[1]].returns)
                   /\ Encode(q)[1] = Api[q[1]].fn
                   /\ Encode(q)[1] = "parse" => Encode(q)[2] = q[2]
<1>1. \A m \in MethodsOf(t, Constants) : P(<<m>>)
  <2> TAKE m \in MethodsOf(t, Constants)
  <2>1. m \in DOMAIN Api /\ Api[m].fn \in Constants /\ Decoding(Api[m].fn, Api[m].returns)
    BY MethodDecodes
  <2>2. Encode(<<m>>) = <<Api[m].fn>>
    BY EncodedTuples
  <2> QED
    BY <2>1, <2>2 DEF Constants
<1>2. ASSUME NEW functions, NEW m \in MethodsOf(t, functions), NEW x
      PROVE  P(<<m, x>>)
  <2>1. m \in DOMAIN Api /\ Decoding(Api[m].fn, Api[m].returns)
    BY MethodDecodes
  <2>2. Encode(<<m, x>>) = <<Api[m].fn, x>>
    BY EncodedTuples
  <2> QED
    BY <2>1, <2>2
<1>3. ASSUME NEW functions, NEW m \in MethodsOf(t, functions), NEW x, NEW y
      PROVE  P(<<m, x, y>>)
  <2>1. m \in DOMAIN Api /\ Decoding(Api[m].fn, Api[m].returns)
    BY MethodDecodes
  <2>2. Encode(<<m, x, y>>) = <<Api[m].fn, x, y>>
    BY EncodedTuples
  <2> QED
    BY <2>1, <2>2
<1> HIDE DEF P
<1>4. P(request)
  BY <1>1, <1>2, <1>3 DEF Requests
<1> QED
  BY <1>4 DEF P

-----------------------------------------------------------------------------

(***************************************************************************)
(* What a method makes of the contract's run, for a result of the shape it *)
(* decodes: the output can be told from it, and no error of the plumbing   *)
(* comes up but the halt of a text that costs too much.                    *)
(***************************************************************************)
GotFrom(returns, call, r) == ResultOfRun(returns, ContractRun(call, r))

(***************************************************************************)
(* A text that costs too much is told as a halt.                           *)
(***************************************************************************)
LEMMA HaltResult ==
  ASSUME NEW returns, NEW call, NEW r, RunsOut(call)
  PROVE  GotFrom(returns, call, r) = FloatError("Halt", "OutOfGas")
BY DEF GotFrom, ContractRun, ResultOfRun, Halts

(***************************************************************************)
(* A revert is told by its error.                                          *)
(***************************************************************************)
LEMMA RevertResult ==
  ASSUME NEW returns, NEW call, NEW r, ~RunsOut(call), IsFail(r), r.status # "Panic"
  PROVE  GotFrom(returns, call, r) = FloatError("DecimalFloat", r.status)
<1>1. ~Refused(r)
  BY DEF IsFail, Fail, Refused
<1>2. ContractRun(call, r) = Reverts(r.status)
  BY <1>1 DEF ContractRun, IsFail
<1> QED
  BY <1>2 DEF GotFrom, ResultOfRun, Reverts

(***************************************************************************)
(* Output is told as decoding makes of it.                                 *)
(***************************************************************************)
LEMMA ReturnResult ==
  ASSUME NEW returns, NEW call, NEW r, ~RunsOut(call), r.status = "ok" \/ Refused(r)
  PROVE  GotFrom(returns, call, r) = ProcessOutput(returns, r)
<1>1. ContractRun(call, r) = Returns(r)
  BY DEF ContractRun
<1> QED
  BY <1>1 DEF GotFrom, ResultOfRun, Returns

(***************************************************************************)
(* A text that parse refuses is told by the selector.                      *)
(***************************************************************************)
LEMMA RefusalResult ==
  ASSUME NEW call, NEW r, ~RunsOut(call), IsRefusal(r)
  PROVE  GotFrom("parsed", call, r)
           = FloatError("DecimalFloatSelector", TryFromSelector(r.selector))
<1>1. Refused(r) /\ {"c", "e"} \subseteq DOMAIN r
  BY DEF IsRefusal, Refuse, Refused
<1>2. Decodes("parsed", r)
  BY <1>1 DEF Decodes
<1>3. ProcessOutput("parsed", r) = ParsedFloat(r)
  BY <1>2 DEF ProcessOutput, Decoded
<1> QED
  BY <1>1, <1>3, ReturnResult DEF ParsedFloat

(***************************************************************************)
(* The value of a method, by what it decodes.                              *)
(***************************************************************************)
ValueTold(returns, r) ==
  CASE returns \in {"float", "parsed"} -> FloatOf(r)
    [] returns = "bool"      -> r.holds
    [] returns = "text"      -> r.text
    [] returns = "fixed"     -> r.value
    [] returns = "floatFlag" -> [float |-> FloatOf(r), lossless |-> r.lossless]
    [] returns = "fixedFlag" -> [value |-> r.value, lossless |-> r.lossless]

(***************************************************************************)
(* A value is told so that the contract's output can be read back.         *)
(***************************************************************************)
LEMMA ValueResult ==
  ASSUME NEW fn, NEW returns, Decoding(fn, returns), NEW call, NEW r,
         ~RunsOut(call), Matches(fn, returns, r)
  PROVE  /\ r.status = "ok"
         /\ GotFrom(returns, call, r) = Ok(ValueTold(returns, r))
         /\ Told(fn, returns, ValueTold(returns, r)) = r
<1>1. CASE returns = "float" /\ fn = "fromFixedDecimalLossless"
  <2>1. r = Float(r.c, r.e, TRUE)
    BY <1>1 DEF Matches, IsFlagged
  <2>2. r.status = "ok" /\ {"c", "e"} \subseteq DOMAIN r
    BY <2>1 DEF Float
  <2>3. Decodes(returns, r)
    BY <1>1, <2>2 DEF Decodes
  <2>4. ProcessOutput(returns, r) = Ok(FloatOf(r))
    BY <1>1, <2>3 DEF ProcessOutput, Decoded
  <2>5. GotFrom(returns, call, r) = Ok(FloatOf(r))
    BY <2>2, <2>4, ReturnResult
  <2>6. Told(fn, returns, FloatOf(r)) = r
    BY <1>1, <2>1 DEF Told, FloatOf
  <2>7. ValueTold(returns, r) = FloatOf(r)
    BY <1>1 DEF ValueTold
  <2> QED
    BY <2>2, <2>5, <2>6, <2>7
<1>2. CASE returns \in {"float", "parsed"} /\ fn # "fromFixedDecimalLossless"
  <2>1. r = Num(r.c, r.e)
    BY <1>2 DEF Matches, IsFloat
  <2>2. r.status = "ok" /\ DOMAIN r = {"status", "c", "e"}
    BY <2>1 DEF Num
  <2>3. Decodes(returns, r) /\ ~Refused(r)
    BY <1>2, <2>2 DEF Decodes, Refused
  <2>4. GotFrom(returns, call, r) = Ok(FloatOf(r))
    BY <1>2, <2>2, <2>3, ReturnResult DEF ProcessOutput, Decoded, ParsedFloat
  <2>5. Told(fn, returns, FloatOf(r)) = r
    BY <1>2, <2>1 DEF Told, FloatOf, Packs, Num
  <2>6. ValueTold(returns, r) = FloatOf(r)
    BY <1>2 DEF ValueTold
  <2> QED
    BY <2>2, <2>4, <2>5, <2>6
<1>3. CASE returns = "bool"
  <2>1. r = Holds(r.holds)
    BY <1>3 DEF Matches, IsBool
  <2>2. r.status = "ok" /\ "holds" \in DOMAIN r
    BY <2>1 DEF Holds
  <2>3. Decodes(returns, r)
    BY <1>3, <2>2 DEF Decodes
  <2>4. ProcessOutput(returns, r) = Ok(r.holds)
    BY <1>3, <2>3 DEF ProcessOutput, Decoded
  <2>5. GotFrom(returns, call, r) = Ok(r.holds)
    BY <2>2, <2>4, ReturnResult
  <2>6. Told(fn, returns, r.holds) = r
    BY <1>3, <2>1 DEF Told, Decoding
  <2>7. ValueTold(returns, r) = r.holds
    BY <1>3 DEF ValueTold
  <2> QED
    BY <2>2, <2>5, <2>6, <2>7
<1>4. CASE returns = "text"
  <2>1. r = Shows(r.text)
    BY <1>4 DEF Matches, IsText
  <2>2. r.status = "ok" /\ "text" \in DOMAIN r
    BY <2>1 DEF Shows
  <2>3. Decodes(returns, r)
    BY <1>4, <2>2 DEF Decodes
  <2>4. ProcessOutput(returns, r) = Ok(r.text)
    BY <1>4, <2>3 DEF ProcessOutput, Decoded
  <2>5. GotFrom(returns, call, r) = Ok(r.text)
    BY <2>2, <2>4, ReturnResult
  <2>6. Told(fn, returns, r.text) = r
    BY <1>4, <2>1 DEF Told, Decoding
  <2>7. ValueTold(returns, r) = r.text
    BY <1>4 DEF ValueTold
  <2> QED
    BY <2>2, <2>5, <2>6, <2>7
<1>5. CASE returns = "fixed"
  <2>1. r = Fixed(r.value, TRUE)
    BY <1>5 DEF Matches, IsFixed
  <2>2. r.status = "ok" /\ "value" \in DOMAIN r
    BY <2>1 DEF Fixed
  <2>3. Decodes(returns, r)
    BY <1>5, <2>2 DEF Decodes
  <2>4. ProcessOutput(returns, r) = Ok(r.value)
    BY <1>5, <2>3 DEF ProcessOutput, Decoded
  <2>5. GotFrom(returns, call, r) = Ok(r.value)
    BY <2>2, <2>4, ReturnResult
  <2>6. Told(fn, returns, r.value) = r
    BY <1>5, <2>1 DEF Told, Decoding
  <2>7. ValueTold(returns, r) = r.value
    BY <1>5 DEF ValueTold
  <2> QED
    BY <2>2, <2>5, <2>6, <2>7
<1>6. CASE returns = "fixedFlag"
  <2>1. r = Fixed(r.value, r.lossless)
    BY <1>6 DEF Matches, IsFixed
  <2>2. r.status = "ok" /\ {"value", "lossless"} \subseteq DOMAIN r
    BY <2>1 DEF Fixed
  <2> DEFINE value == [value |-> r.value, lossless |-> r.lossless]
  <2>3. Decodes(returns, r)
    BY <1>6, <2>2 DEF Decodes
  <2>4. ProcessOutput(returns, r) = Ok(value)
    BY <1>6, <2>3 DEF ProcessOutput, Decoded
  <2>5. GotFrom(returns, call, r) = Ok(value)
    BY <2>2, <2>4, ReturnResult
  <2>6. Told(fn, returns, value) = r
    BY <1>6, <2>1 DEF Told, Decoding
  <2>7. ValueTold(returns, r) = value
    BY <1>6 DEF ValueTold
  <2> QED
    BY <2>2, <2>5, <2>6, <2>7
<1>7. CASE returns = "floatFlag"
  <2>1. r = Float(r.c, r.e, r.lossless)
    BY <1>7 DEF Matches, IsFlagged
  <2>2. r.status = "ok" /\ {"c", "e", "lossless"} \subseteq DOMAIN r
    BY <2>1 DEF Float
  <2> DEFINE value == [float |-> FloatOf(r), lossless |-> r.lossless]
  <2>3. Decodes(returns, r)
    BY <1>7, <2>2 DEF Decodes
  <2>4. ProcessOutput(returns, r) = Ok(value)
    BY <1>7, <2>3 DEF ProcessOutput, Decoded
  <2>5. GotFrom(returns, call, r) = Ok(value)
    BY <2>2, <2>4, ReturnResult
  <2>6. Told(fn, returns, value) = r
    BY <1>7, <2>1 DEF Told, Decoding, FloatOf
  <2>7. ValueTold(returns, r) = value
    BY <1>7 DEF ValueTold
  <2> QED
    BY <2>2, <2>5, <2>6, <2>7
<1> QED
  BY <1>1, <1>2, <1>3, <1>4, <1>5, <1>6, <1>7 DEF Decoding
(***************************************************************************)
(* All together, for any request.                                          *)
(***************************************************************************)
MadeOf(request) ==
  GotFrom(Api[request[1]].returns, Encode(request), Result(Encode(request)))

(***************************************************************************)
(* The Result a method makes of the contract's run tells its output again; *)
(* an error is one of the contract's, or a halt of a text.                 *)
(***************************************************************************)
LEMMA RoundTrip ==
  ASSUME NEW t \in Threads, NEW request \in Requests(t)
  PROVE  /\ FromContract(MadeOf(request))
              => OutputTold(Api[request[1]], MadeOf(request)) = Result(Encode(request))
         /\ MadeOf(request).result = "err" =>
              /\ MadeOf(request).variant \in {"DecimalFloat", "DecimalFloatSelector", "Halt"}
              /\ Api[request[1]].fn \notin Sure
              /\ MadeOf(request).variant = "Halt" => request[2] \in TooLong
              /\ MadeOf(request).variant = "DecimalFloatSelector" => Api[request[1]].fn = "parse"
<1> DEFINE fn      == Api[request[1]].fn
           returns == Api[request[1]].returns
           call    == Encode(request)
           r       == Result(call)
           g       == MadeOf(request)
<1>1. /\ Decoding(fn, returns) /\ Shaped(fn, returns, r)
      /\ call[1] = fn /\ (call[1] = "parse" => call[2] = request[2])
      /\ g = GotFrom(returns, call, r)
  BY CallShape, ResultShape DEF MadeOf
<1> HIDE DEF call, r, g
<1>2. Expected(fn, r) /\ "parse" \notin Sure
  BY <1>1 DEF Shaped, Sure, Constants
<1>3. CASE RunsOut(call)
  <2>1. g = FloatError("Halt", "OutOfGas")
    BY <1>1, <1>3, HaltResult
  <2>2. request[2] \in TooLong
    BY <1>1, <1>3 DEF RunsOut
  <2>3. fn \notin Sure
    BY <1>1, <1>3, <1>2 DEF RunsOut
  <2> QED
    BY <2>1, <2>2, <2>3 DEF FloatError, FromContract, g
<1>4. CASE ~RunsOut(call) /\ IsFail(r)
  <2>1. g = FloatError("DecimalFloat", r.status)
    BY <1>1, <1>4, <1>2, RevertResult DEF Expected
  <2>2. OutputTold(Api[request[1]], g) = r
    BY <1>4, <2>1 DEF OutputTold, FloatError, IsFail
  <2>3. fn \notin Sure
    BY <1>4, <1>2 DEF Expected, IsFail
  <2> QED
    BY <2>1, <2>2, <2>3 DEF FloatError, g, r, call
<1>5. CASE ~RunsOut(call) /\ Matches(fn, returns, r)
  <2>1. PICK value : g = Ok(value) /\ Told(fn, returns, value) = r
    <3>1. GotFrom(returns, call, r) = Ok(ValueTold(returns, r)) /\ Told(fn, returns, ValueTold(returns, r)) = r
      BY <1>1, <1>5, ValueResult
    <3> QED
      BY <1>1, <3>1
  <2>2. OutputTold(Api[request[1]], g) = r
    BY <2>1 DEF OutputTold, Ok
  <2> QED
    BY <2>1, <2>2 DEF Ok, g, r, call
<1>6. CASE ~RunsOut(call) /\ fn = "parse" /\ IsRefusal(r)
  <2>1. returns = "parsed"
    BY <1>1, <1>6 DEF Decoding, FloatFunctions, BoolFunctions, TextFunctions, Constants, Unary
  <2>2. g = FloatError("DecimalFloatSelector", TryFromSelector(r.selector))
    BY <1>1, <1>6, <2>1, RefusalResult
  <2>3. OutputTold(Api[request[1]], g) = r
    BY <1>6, <2>2 DEF OutputTold, FloatError, TryFromSelector, IsRefusal
  <2> QED
    BY <1>6, <1>2, <2>2, <2>3 DEF FloatError, g, r, call
<1> QED
  BY <1>1, <1>3, <1>4, <1>5, <1>6 DEF Shaped

-----------------------------------------------------------------------------

(***************************************************************************)
(* The inductive invariant: a thread that is in the EVM has one with the   *)
(* contract in it, the run it made is the contract's on the call that was  *)
(* asked, and what it got is what the method makes of that run, unless the *)
(* EVM was gone.                                                           *)
(***************************************************************************)
CallInv(t) ==
  /\ pc[t] # "idle" => asked[t] \in Requests(t)
  /\ local[t] = "alive" => FloatAddress \in code[t]
  /\ pc[t] \in {"entered", "ran"} => local[t] = "alive"
  /\ pc[t] = "ran" => ran[t] = ContractRun(Encode(asked[t]), Result(Encode(asked[t])))
  /\ pc[t] = "returned" =>
       \/ local[t] = "destroyed" /\ got[t] = FloatError("Access", "AccessError")
       \/ local[t] = "alive" /\ got[t] = MadeOf(asked[t])

ClientInv ==
  /\ pc \in [Threads -> {"idle", "invoked", "entered", "ran", "returned"}]
  /\ local \in [Threads -> {"unused", "alive", "destroyed"}]
  /\ DOMAIN asked = Threads /\ DOMAIN code = Threads /\ DOMAIN ran = Threads /\ DOMAIN got = Threads
  /\ \A t \in Threads : CallInv(t)

(***************************************************************************)
(* The invariant holds while no thread has called.                         *)
(***************************************************************************)
LEMMA ClientInvInit == ClientInit => ClientInv
BY DEF ClientInit, ClientInv, CallInv

(***************************************************************************)
(* The contract has an answer to every call that is encoded.               *)
(***************************************************************************)
LEMMA AskedOfBytecode ==
  ASSUME NEW t \in Threads, NEW request \in Requests(t)
  PROVE  /\ Encode(request) \in Encoded
         /\ Bytecode[Encode(request)] = Result(Encode(request))
<1>1. Encode(request) \in Encoded
  BY DEF Encoded
<1> QED
  BY <1>1 DEF Bytecode

(***************************************************************************)
(* Each step of a call, and the thread's end, keeps the invariant.         *)
(***************************************************************************)
LEMMA ClientInvStep == ClientInv /\ [ClientNext]_clientVars => ClientInv'
<1> SUFFICES ASSUME ClientInv, [ClientNext]_clientVars PROVE ClientInv'
  OBVIOUS
<1> USE DEF ClientInv, CallInv
<1>1. ASSUME NEW t \in Threads, NEW request \in Requests(t), Invoke(t, request) PROVE ClientInv'
  BY <1>1 DEF Invoke
<1>2. ASSUME NEW t \in Threads, EnterDestroyed(t) PROVE ClientInv'
  BY <1>2 DEF EnterDestroyed
<1>3. ASSUME NEW t \in Threads, EnterAlive(t) PROVE ClientInv'
  BY <1>3 DEF EnterAlive
<1>4. ASSUME NEW t \in Threads, RunCall(t) PROVE ClientInv'
  <2>1. SystemCall(code[t], Encode(asked[t])) = ContractRun(Encode(asked[t]), Result(Encode(asked[t])))
    BY <1>4, AskedOfBytecode DEF RunCall, SystemCall
  <2> QED
    BY <1>4, <2>1 DEF RunCall
<1>5. ASSUME NEW t \in Threads, Process(t) PROVE ClientInv'
  <2>1. ResultOfRun(Api[asked[t][1]].returns, ran[t]) = MadeOf(asked[t])
    BY <1>5 DEF Process, MadeOf, GotFrom
  <2> QED
    BY <1>5, <2>1 DEF Process
<1>6. ASSUME NEW t \in Threads, Take(t) PROVE ClientInv'
  BY <1>6 DEF Take
<1>7. ASSUME NEW t \in Threads, DestroyLocal(t) PROVE ClientInv'
  BY <1>7 DEF DestroyLocal
<1>8. CASE UNCHANGED clientVars
  BY <1>8 DEF clientVars
<1> QED
  BY <1>1, <1>2, <1>3, <1>4, <1>5, <1>6, <1>7, <1>8 DEF ClientNext
(***************************************************************************)
(* ClientSafe is the part of ClientSpec, and of JsSpec, without fairness.  *)
(***************************************************************************)
ClientSafe == ClientInit /\ [][ClientNext]_clientVars

(***************************************************************************)
(* The invariant holds in every reachable state of the crate (evm.rs).     *)
(***************************************************************************)
THEOREM ClientIsInvariant == ClientSafe => []ClientInv
<1> QED
  BY ClientInvInit, ClientInvStep, PTL DEF ClientSafe

(***************************************************************************)
(* The errors of the plumbing mean what they say, for any floats, texts    *)
(* and threads (evm.rs:79-96, lib.rs:283-299).                             *)
(***************************************************************************)
THEOREM PlumbingIsSafe == ClientSafe => []PlumbingErrorsAreReal
<1>1. ClientInv => PlumbingErrorsAreReal
  <2> SUFFICES ASSUME ClientInv, NEW t \in Threads, Returned(t), got[t].result = "err"
               PROVE  /\ got[t].variant \in {"DecimalFloat", "Revert", "DecimalFloatSelector", "Access", "Halt"}
                      /\ got[t].variant = "Access" <=> local[t] = "destroyed"
                      /\ got[t].variant = "Halt" => asked[t][2] \in TooLong
                      /\ got[t].variant = "DecimalFloatSelector" => Api[method(t)].fn = "parse"
    BY DEF PlumbingErrorsAreReal
  <2>1. asked[t] \in Requests(t) /\ CallInv(t)
    BY DEF ClientInv, CallInv, Returned
  <2>2. CASE local[t] = "destroyed"
    BY <2>1, <2>2 DEF CallInv, Returned, FloatError
  <2>3. CASE local[t] # "destroyed"
    BY <2>1, <2>3, RoundTrip DEF CallInv, Returned, method
  <2> QED
    BY <2>2, <2>3
<1> QED
  BY <1>1, ClientIsInvariant, PTL

(***************************************************************************)
(* And no panic of Solidity's comes up, nor any error but a lost EVM of a  *)
(* method that no argument can make fail, for any floats, texts, widths    *)
(* and threads (evm.rs, error.rs).                                         *)
(***************************************************************************)
THEOREM ErrorsAreExpected == ClientSafe => []OnlyExpectedErrors
<1>1. ClientInv /\ PlumbingErrorsAreReal => OnlyExpectedErrors
  <2> SUFFICES ASSUME ClientInv, NEW t \in Threads, Returned(t), got[t].result = "err"
               PROVE  /\ got[t].variant # "Revert"
                      /\ method(t) \in Total => got[t].variant = "Access"
    BY DEF OnlyExpectedErrors
  <2>1. asked[t] \in Requests(t) /\ CallInv(t)
    BY DEF ClientInv, CallInv, Returned
  <2>2. CASE local[t] = "destroyed"
    BY <2>1, <2>2 DEF CallInv, Returned, FloatError
  <2>3. CASE local[t] # "destroyed"
    <3>1. /\ got[t].variant \in {"DecimalFloat", "DecimalFloatSelector", "Halt"}
          /\ Api[method(t)].fn \notin Sure
      BY <2>1, <2>3, RoundTrip DEF CallInv, Returned, method
    <3>2. method(t) \in DOMAIN Api
      BY <2>1, CallShape DEF method
    <3>3. method(t) \notin Total
      BY <3>1, <3>2, TotalIsSure
    <3> QED BY <3>1, <3>3
  <2> QED
    BY <2>2, <2>3
<1> QED
  BY <1>1, ClientIsInvariant, PlumbingIsSafe, PTL

-----------------------------------------------------------------------------

(***************************************************************************)
(* A step of the crate is a step of the contract as the watched thread     *)
(* sees it, or changes nothing of what that thread sees.                   *)
(***************************************************************************)
LEMMA InitRefines == ClientInit => Contract!Init
BY WatchedAssumption DEF ClientInit, Contract!Init, CallSeen, OutSeen, Seen, Returned,
                         Contract!Idle, Contract!NoOutput, Fail

SeesAnAnswer == /\ CallSeen(Watched) \in Encoded
                /\ OutSeen(Watched) = Bytecode[CallSeen(Watched)]
                /\ CallSeen(Watched) # Contract!Idle

(***************************************************************************)
(* What the watched thread is told is the contract's output for the call   *)
(* it made.                                                                *)
(***************************************************************************)
LEMMA SeenIsAnAnswer == ClientInv /\ Seen(Watched) => SeesAnAnswer
<1> SUFFICES ASSUME ClientInv, Seen(Watched) PROVE SeesAnAnswer
  OBVIOUS
<1> DEFINE request == asked[Watched]
<1>1. request \in Requests(Watched) /\ CallInv(Watched)
  BY WatchedAssumption DEF ClientInv, CallInv, Seen, Returned
<1>2. got[Watched] = MadeOf(request)
  BY <1>1 DEF CallInv, Seen, Returned, FromContract, FloatError
<1>3. OutSeen(Watched) = Result(Encode(request))
  BY <1>1, <1>2, WatchedAssumption, RoundTrip DEF OutSeen, Seen, method
<1>4. CallSeen(Watched) = Encode(request)
  BY DEF CallSeen
<1>5. Encode(request)[1] # "none"
  BY <1>1, WatchedAssumption, CallShape
     DEF Decoding, FloatFunctions, BoolFunctions, TextFunctions, Constants, Unary
<1> QED
  BY <1>1, <1>3, <1>4, <1>5, WatchedAssumption, AskedOfBytecode DEF Contract!Idle, SeesAnAnswer

(***************************************************************************)
(* A step of the crate is an answer, a take or a stutter of the contract.  *)
(***************************************************************************)
LEMMA StepRefines ==
  ClientInv /\ ClientInv' /\ [ClientNext]_clientVars => [Contract!Next]_(Contract!vars)
<1> SUFFICES ASSUME ClientInv, ClientInv', [ClientNext]_clientVars
             PROVE  Contract!Next \/ UNCHANGED <<CallSeen(Watched), OutSeen(Watched)>>
  BY DEF Contract!vars
<1> DEFINE Stutter == UNCHANGED <<CallSeen(Watched), OutSeen(Watched)>>
<1>1. ~Seen(Watched) /\ ~Seen(Watched)' => Stutter
  BY DEF CallSeen, OutSeen
<1>2. ~Seen(Watched) /\ Seen(Watched)' => Contract!Next
  <2> SUFFICES ASSUME ~Seen(Watched), Seen(Watched)' PROVE Contract!Answer
    BY DEF Contract!Next
  <2>1. CallSeen(Watched) = Contract!Idle
    BY DEF CallSeen, Contract!Idle
  <2>2. SeesAnAnswer'
    BY SeenIsAnAnswer, PTL
  <2> QED
    BY <2>1, <2>2 DEF Contract!Answer, SeesAnAnswer
<1>3. Seen(Watched) /\ ~Seen(Watched)' => Contract!Next
  <2> SUFFICES ASSUME Seen(Watched), ~Seen(Watched)' PROVE Contract!Take
    BY DEF Contract!Next
  <2>1. CallSeen(Watched) # Contract!Idle
    BY SeenIsAnAnswer DEF SeesAnAnswer
  <2>2. CallSeen(Watched)' = Contract!Idle /\ OutSeen(Watched)' = Contract!NoOutput
    BY DEF CallSeen, OutSeen, Contract!Idle, Contract!NoOutput, Fail
  <2> QED
    BY <2>1, <2>2 DEF Contract!Take
<1>4. Seen(Watched) /\ Seen(Watched)' => Stutter
  <2> SUFFICES ASSUME Seen(Watched), Seen(Watched)'
               PROVE  UNCHANGED <<asked[Watched], got[Watched]>>
    BY DEF CallSeen, OutSeen, method, Encode
  <2>1. pc[Watched] = "returned" /\ pc'[Watched] = "returned"
    BY DEF Seen, Returned
  <2> USE <2>1, WatchedAssumption DEF ClientInv
  <2>2. ASSUME NEW t \in Threads, NEW request \in Requests(t), Invoke(t, request)
        PROVE  UNCHANGED <<asked[Watched], got[Watched]>>
    BY <2>2 DEF Invoke
  <2>3. ASSUME NEW t \in Threads, EnterDestroyed(t) PROVE UNCHANGED <<asked[Watched], got[Watched]>>
    BY <2>3 DEF EnterDestroyed
  <2>4. ASSUME NEW t \in Threads, EnterAlive(t) \/ RunCall(t) \/ DestroyLocal(t)
        PROVE  UNCHANGED <<asked[Watched], got[Watched]>>
    BY <2>4 DEF EnterAlive, RunCall, DestroyLocal
  <2>5. ASSUME NEW t \in Threads, Process(t) PROVE UNCHANGED <<asked[Watched], got[Watched]>>
    BY <2>5 DEF Process
  <2>6. ASSUME NEW t \in Threads, Take(t) PROVE UNCHANGED <<asked[Watched], got[Watched]>>
    BY <2>6 DEF Take
  <2> QED
    BY <2>2, <2>3, <2>4, <2>5, <2>6 DEF ClientNext, clientVars
<1> QED
  BY <1>1, <1>2, <1>3, <1>4

(***************************************************************************)
(* The crate implements the contract, for any contract parameters, calls   *)
(* and threads, whichever thread is watched (evm.rs, lib.rs).              *)
(***************************************************************************)
THEOREM ClientImplementsContract == ClientSafe => ImplementsContract
<1> QED
  BY InitRefines, StepRefines, ClientIsInvariant, PTL
     DEF ClientSafe, ImplementsContract, Contract!Spec

-----------------------------------------------------------------------------
(***************************************************************************)
(* The JavaScript API only adds to the crate: with the pages' variables    *)
(* left out its steps are the crate's, and what the crate's theorems say   *)
(* holds of it.                                                            *)
(***************************************************************************)

(***************************************************************************)
(* The two methods that take a fixed point bigint call functions that take *)
(* a fixed point value, so a uint256 makes a request of them.              *)
(***************************************************************************)
LEMMA FixedInputFits ==
  \A m \in FixedInput : m \in DOMAIN Api /\ Api[m].fn \in FromFixed
<1>1. \A m \in FixedInput : m \in DOMAIN FixedMethods /\ FixedMethods[m].fn \in FromFixed
  BY DEF FixedInput, FixedMethods, Method, FromFixed
<1>2. \A table \in Tables \ {FixedMethods} : FixedInput \cap DOMAIN table = {}
  BY DEF FixedInput, Tables, ParseMethods, ExtremeMethods, DefaultMethods, FormatMethods, ComparisonMethods,
         InverseMethods, BoundMethods, OperatorMethods, RoundingMethods, SelectionMethods, NegMethods
<1>3. FixedMethods \in Tables
  BY DEF Tables
<1> QED
  BY <1>1, <1>2, <1>3, Zenon DEF Api

(***************************************************************************)
(* A bigint that is a uint256 is a value the crate's method takes.         *)
(***************************************************************************)
LEMMA UintCallIsARequest ==
  ASSUME NEW t \in Realms, NEW js \in FixedCalls(t), IsUint(js[2])
  PROVE  js \in Requests(t)
<1>1. PICK m \in FixedInput \cap Methods[t], n \in Bigints, d \in Decimals : js = <<m, n, d>>
  BY DEF FixedCalls
<1>2. m \in MethodsOf(t, FromFixed)
  BY <1>1, FixedInputFits DEF MethodsOf
<1>3. n \in Values
  BY <1>1, RealmsAssumption DEF IsUint
<1>4. js \in MethodsOf(t, FromFixed) \X Values \X Decimals
  BY <1>1, <1>2, <1>3
<1> QED
  BY <1>4 DEF Requests

(***************************************************************************)
(* A step of a realm is a step of the crate or leaves it alone.            *)
(***************************************************************************)
LEMMA JsStepIsAClientStep == JsNext => [ClientNext]_clientVars
<1> SUFFICES ASSUME JsNext PROVE [ClientNext]_clientVars
  OBVIOUS
<1>1. \A t \in Realms : t \in Threads
  BY RealmsAssumption
<1>2. ASSUME NEW t \in Threads, RustCalls(t) PROVE ClientNext
  BY <1>2 DEF RustCalls, ClientNext
<1>3. ASSUME NEW t \in Realms, JsWord(t) \/ JsRefuse(t) \/ JsTake(t) PROVE UNCHANGED clientVars
  BY <1>3 DEF JsWord, JsRefuse, JsTake
<1>4. ASSUME NEW t \in Realms, JsInvoke(t) PROVE ClientNext
  BY <1>1, <1>4 DEF JsInvoke, ClientNext
<1>5. ASSUME NEW t \in Realms, JsInvokeFixed(t) PROVE ClientNext
  <2>1. PICK js \in FixedCalls(t) : IsUint(js[2]) /\ Invoke(t, js)
    BY <1>5 DEF JsInvokeFixed
  <2>2. js \in Requests(t)
    BY <2>1, UintCallIsARequest
  <2> QED
    BY <1>1, <2>1, <2>2 DEF ClientNext
<1>6. ASSUME NEW t \in Realms, JsFinish(t) PROVE ClientNext
  BY <1>1, <1>6 DEF JsFinish, ClientNext
<1>7. ASSUME NEW t \in Threads, EnterDestroyed(t) \/ EnterAlive(t) \/ RunCall(t) \/ Process(t)
      PROVE  ClientNext
  BY <1>7 DEF ClientNext
<1> QED
  BY <1>2, <1>3, <1>4, <1>5, <1>6, <1>7 DEF JsNext, JsCalls

(***************************************************************************)
(* So the realms' behaviours are behaviours of the crate.                  *)
(***************************************************************************)
LEMMA JsIsClientSafe == JsSpec => ClientSafe
<1>1. JsInit => ClientInit
  BY DEF JsInit
<1>2. [JsNext]_<<clientVars, jsVars>> => [ClientNext]_clientVars
  BY JsStepIsAClientStep
<1> QED
  BY <1>1, <1>2, PTL DEF JsSpec, ClientSafe

(***************************************************************************)
(* Whatever pages and threads do, a thread is told what the contract       *)
(* answers (evm.rs, lib.rs, js_api.rs).                                    *)
(***************************************************************************)
THEOREM JsImplementsContract == JsSpec => ImplementsContract
BY JsIsClientSafe, ClientImplementsContract, PTL

(***************************************************************************)
(* And the errors of the plumbing are real (evm.rs:79-96, lib.rs:283-299). *)
(***************************************************************************)
THEOREM JsPlumbingIsSafe == JsSpec => []PlumbingErrorsAreReal
BY JsIsClientSafe, PlumbingIsSafe, PTL

(***************************************************************************)
(* And no other error comes up (evm.rs, error.rs, js_api.rs).              *)
(***************************************************************************)
THEOREM JsErrorsAreExpected == JsSpec => []OnlyExpectedErrors
BY JsIsClientSafe, ErrorsAreExpected, PTL

-----------------------------------------------------------------------------

(***************************************************************************)
(* The functions that the methods with a promised meaning call.            *)
(***************************************************************************)
CallsItsFunction(m, method_) ==
  /\ m \in {"lt", "gt", "eq", "lte", "gte"} => method_ = Method(m, "bool")
  /\ m \in {"min", "max", "sub", "div"}     => method_ = Method(m, "float")
  /\ m = "neg"                => method_ = Method("minus", "float")
  /\ m = "is_zero"            => method_ = Method("isZero", "bool")
  /\ m = "max_positive_value" => method_ = Method("maxPositiveValue", "float")
  /\ m = "min_positive_value" => method_ = Method("minPositiveValue", "float")
  /\ m = "max_negative_value" => method_ = Method("maxNegativeValue", "float")
  /\ m = "min_negative_value" => method_ = Method("minNegativeValue", "float")
  /\ m = "from_fixed_decimal" => method_ = Method("fromFixedDecimalLossless", "float")
  /\ m = "to_fixed_decimal"   => method_ = Method("toFixedDecimalLossless", "fixed")
  /\ m = "from_fixed_decimal_lossy" => method_ = Method("fromFixedDecimalLossy", "floatFlag")
  /\ m = "to_fixed_decimal_lossy"   => method_ = Method("toFixedDecimalLossy", "fixedFlag")
  /\ m = "format"                 => method_ = Method("formatDefault", "text")
  /\ m = "format_with_range"      => method_ = Method("format", "text")
  /\ m = "format_with_scientific" => method_ = Method("formatAs", "text")

(***************************************************************************)
(* Every method calls the function its name stands for (lib.rs).           *)
(***************************************************************************)
LEMMA MethodsCallTheirFunctions == \A m \in DOMAIN Api : CallsItsFunction(m, Api[m])
<1> DEFINE Right(table) == \A m \in DOMAIN table : CallsItsFunction(m, table[m])
<1>1. Right(FixedMethods)
  BY DEF FixedMethods, CallsItsFunction
<1>2. Right(ParseMethods) /\ Right(DefaultMethods)
  BY DEF ParseMethods, DefaultMethods, CallsItsFunction
<1>3. Right(ExtremeMethods)
  BY DEF ExtremeMethods, CallsItsFunction
<1>4. Right(FormatMethods)
  BY DEF FormatMethods, CallsItsFunction
<1>5. Right(ComparisonMethods) /\ Right(BoundMethods)
  BY DEF ComparisonMethods, BoundMethods, CallsItsFunction
<1>6. Right(InverseMethods) /\ Right(RoundingMethods)
  BY DEF InverseMethods, RoundingMethods, CallsItsFunction
<1>7. Right(OperatorMethods) /\ Right(NegMethods)
  BY DEF OperatorMethods, NegMethods, CallsItsFunction
<1>8. Right(SelectionMethods)
  BY DEF SelectionMethods, CallsItsFunction
<1> HIDE DEF Right
<1>9. \A table \in Tables : Right(table)
  BY <1>1, <1>2, <1>3, <1>4, <1>5, <1>6, <1>7, <1>8, Zenon DEF Tables
<1> QED
  BY <1>9, Zenon DEF Api, Right

(***************************************************************************)
(* A float packed again is the float.                                      *)
(***************************************************************************)
LEMMA FloatOfPacks ==
  ASSUME NEW x \in PackedFloat
  PROVE  x.c \in Packed /\ x.e \in PackExp /\ FloatOf(Packs(x)) = x
BY DEF PackedFloat, FloatOf, Packs

(***************************************************************************)
(* The value of a method is the contract's output, decoded.                *)
(***************************************************************************)
LEMMA ValueOfMethod ==
  ASSUME NEW t \in Threads, NEW request \in Requests(t), MadeOf(request).result = "ok",
         NEW fn, NEW returns, fn = Api[request[1]].fn, returns = Api[request[1]].returns,
         NEW r, r = Result(Encode(request))
  PROVE  /\ r.status = "ok" /\ Matches(fn, returns, r)
         /\ MadeOf(request).value = ValueTold(returns, r)
<1>1. PICK call, g : call = Encode(request) /\ g = MadeOf(request)
  OBVIOUS
<1>2. /\ Decoding(fn, returns) /\ Shaped(fn, returns, r)
      /\ g = GotFrom(returns, call, r) /\ g.result = "ok"
  BY <1>1, CallShape, ResultShape DEF MadeOf
<1>3. ~RunsOut(call)
  <2>1. RunsOut(call) => g = FloatError("Halt", "OutOfGas")
    BY <1>2, HaltResult
  <2> QED
    BY <1>2, <2>1 DEF FloatError
<1>4. ~IsFail(r)
  <2>1. IsFail(r) => g = FloatError("DecimalFloat", r.status)
    BY <1>2, <1>3, RevertResult DEF Shaped, Expected
  <2> QED
    BY <1>2, <2>1 DEF FloatError
<1>5. ~(fn = "parse" /\ IsRefusal(r))
  <2>1. fn = "parse" => returns = "parsed"
    BY <1>2 DEF Decoding, FloatFunctions, BoolFunctions, TextFunctions, Constants, Unary
  <2>2. fn = "parse" /\ IsRefusal(r) => g = FloatError("DecimalFloatSelector", TryFromSelector(r.selector))
    BY <1>2, <1>3, <2>1, RefusalResult
  <2> QED
    BY <1>2, <2>2 DEF FloatError
<1>6. Matches(fn, returns, r)
  BY <1>2, <1>4, <1>5 DEF Shaped
<1>7. r.status = "ok" /\ g = Ok(ValueTold(returns, r))
  BY <1>2, <1>3, <1>6, ValueResult
<1> QED
  BY <1>1, <1>6, <1>7 DEF Ok

-----------------------------------------------------------------------------

(***************************************************************************)
(* Each function's output has the meaning its method promises: constants.  *)
(***************************************************************************)
LEMMA ExtremesMeant ==
  ASSUME NEW m, NEW fn, NEW returns, CallsItsFunction(m, Method(fn, returns)),
         NEW v, v = FloatOf(ConstantResult(fn))
  PROVE  ExtremeMeant(m, v)
<1>1. ASSUME NEW c, NEW e, ConstantResult(fn) = Num(c, e)
      PROVE  v.c = c /\ v.e = e
  BY <1>1 DEF Num, FloatOf
<1>2. \A x \in PackedFloat : x.c \in Packed /\ x.e \in PackExp
  BY FloatOfPacks
<1>3. CASE m = "max_positive_value"
  <2>1. fn = "maxPositiveValue"
    BY <1>3 DEF CallsItsFunction, Method
  <2>2. v.c = PackMax /\ v.e = PackExpMax
    BY <1>1, <2>1 DEF ConstantResult
  <2>3. \A x \in PackedFloat : ~Less(v, x)
    BY <1>2, <2>2, LargestFloats DEF Less
  <2> QED
    BY <1>3, <2>3 DEF ExtremeMeant
<1>4. CASE m = "min_negative_value"
  <2>1. fn = "minNegativeValue"
    BY <1>4 DEF CallsItsFunction, Method
  <2>2. v.c = PackMin /\ v.e = PackExpMax
    BY <1>1, <2>1 DEF ConstantResult
  <2>3. \A x \in PackedFloat : ~Less(x, v)
    BY <1>2, <2>2, LargestFloats DEF Less
  <2> QED
    BY <1>4, <2>3 DEF ExtremeMeant
<1>5. CASE m = "min_positive_value"
  <2>1. fn = "minPositiveValue"
    BY <1>5 DEF CallsItsFunction, Method
  <2>2. v.c = 1 /\ v.e = PackExpMin
    BY <1>1, <2>1 DEF ConstantResult
  <2>3. \A x \in PackedFloat : Less(Zero, v) /\ (Less(Zero, x) => ~Less(x, v))
    BY <1>2, <2>2, LeastFloats DEF Less, Zero
  <2> QED
    BY <1>5, <2>3 DEF ExtremeMeant
<1>6. CASE m = "max_negative_value"
  <2>1. fn = "maxNegativeValue"
    BY <1>6 DEF CallsItsFunction, Method
  <2>2. v.c = -1 /\ v.e = PackExpMin
    BY <1>1, <2>1 DEF ConstantResult
  <2>3. \A x \in PackedFloat : Less(v, Zero) /\ (Less(x, Zero) => ~Less(v, x))
    BY <1>2, <2>2, LeastFloats DEF Less, Zero
  <2> QED
    BY <1>6, <2>3 DEF ExtremeMeant
<1>7. CASE m \notin {"max_positive_value", "min_negative_value", "min_positive_value", "max_negative_value"}
  BY <1>7 DEF ExtremeMeant
<1> QED
  BY <1>3, <1>4, <1>5, <1>6, <1>7

(***************************************************************************)
(* Orders, selections, sub and div.                                        *)
(***************************************************************************)
LEMMA OrdersMeant ==
  ASSUME NEW m, NEW fn, NEW returns, CallsItsFunction(m, Method(fn, returns)),
         NEW x \in PackedFloat, NEW y \in PackedFloat,
         NEW r, r = BinaryResult(fn, x, y), r.status = "ok", NEW v, v = ValueTold(returns, r)
  PROVE  OrderMeant(m, x, y, v)
<1>1. /\ x.c \in Packed /\ x.e \in PackExp /\ FloatOf(Packs(x)) = x
      /\ y.c \in Packed /\ y.e \in PackExp /\ FloatOf(Packs(y)) = y
  BY FloatOfPacks
<1>2. /\ Lt(x, y) <=> Less(x, y)
      /\ Gt(x, y) <=> Less(y, x)
      /\ Eq(x, y) <=> Same(x, y)
      /\ Rescaled(x, y)[1] <= Rescaled(x, y)[2] <=> ~Less(y, x)
      /\ Rescaled(x, y)[1] >= Rescaled(x, y)[2] <=> ~Less(x, y)
  BY <1>1, OrdersCompare DEF Less, Same
<1>3. Less(x, y) \in BOOLEAN /\ Less(y, x) \in BOOLEAN /\ Same(x, y) \in BOOLEAN
  BY <1>1, PairCompares DEF Less, Same
<1>4. CASE m \in {"lt", "gt", "eq", "lte", "gte"}
  <2>1. fn = m /\ returns = "bool"
    BY <1>4 DEF CallsItsFunction, Method
  <2>2. v = r.holds
    BY <2>1 DEF ValueTold
  <2>3. \A p : Holds(p).holds = p
    BY DEF Holds
  <2>4. CASE m = "lt"
    <3>1. v = Lt(x, y)
      BY <2>1, <2>2, <2>3, <2>4 DEF BinaryResult
    <3>2. v = Less(x, y)
      BY <1>2, <1>3, <3>1 DEF Lt
    <3> QED
      BY <2>4, <3>2 DEF OrderMeant
  <2>5. CASE m = "gt"
    <3>1. v = Gt(x, y)
      BY <2>1, <2>2, <2>3, <2>5 DEF BinaryResult
    <3>2. v = Less(y, x)
      BY <1>2, <1>3, <3>1 DEF Gt
    <3> QED
      BY <2>5, <3>2 DEF OrderMeant
  <2>6. CASE m = "eq"
    <3>1. v = Eq(x, y)
      BY <2>1, <2>2, <2>3, <2>6 DEF BinaryResult
    <3>2. v = Same(x, y)
      BY <1>2, <1>3, <3>1 DEF Eq
    <3> QED
      BY <2>6, <3>2 DEF OrderMeant
  <2>7. CASE m = "lte"
    <3>1. v = (Rescaled(x, y)[1] <= Rescaled(x, y)[2])
      BY <2>1, <2>2, <2>3, <2>7 DEF BinaryResult
    <3>2. v = ~Less(y, x)
      BY <1>2, <1>3, <3>1
    <3> QED
      BY <2>7, <3>2 DEF OrderMeant
  <2>8. CASE m = "gte"
    <3>1. v = (Rescaled(x, y)[1] >= Rescaled(x, y)[2])
      BY <2>1, <2>2, <2>3, <2>8 DEF BinaryResult
    <3>2. v = ~Less(x, y)
      BY <1>2, <1>3, <3>1
    <3> QED
      BY <2>8, <3>2 DEF OrderMeant
  <2> QED
    BY <1>4, <2>4, <2>5, <2>6, <2>7, <2>8
<1>5. CASE m \in {"min", "max"}
  <2>1. fn = m /\ v = FloatOf(r)
    BY <1>5 DEF CallsItsFunction, Method, ValueTold
  <2>2. /\ ~Less(x, x) /\ ~Less(y, y)
        /\ Less(x, y) => ~Less(y, x)
        /\ Less(y, x) => ~Less(x, y)
    BY <1>1, LessIsAnOrder DEF Less
  <2>3. CASE m = "min"
    <3>1. r = Packs(IF Lt(x, y) THEN x ELSE y)
      BY <2>1, <2>3 DEF BinaryResult
    <3>2. v = IF Less(x, y) THEN x ELSE y
      BY <1>1, <1>2, <2>1, <3>1
    <3>3. v \in {x, y} /\ ~Less(x, v) /\ ~Less(y, v)
      BY <2>2, <3>2
    <3> QED
      BY <2>3, <3>3 DEF OrderMeant
  <2>4. CASE m = "max"
    <3>1. r = Packs(IF Gt(x, y) THEN x ELSE y)
      BY <2>1, <2>4 DEF BinaryResult
    <3>2. v = IF Less(y, x) THEN x ELSE y
      BY <1>1, <1>2, <2>1, <3>1
    <3>3. v \in {x, y} /\ ~Less(v, x) /\ ~Less(v, y)
      BY <2>2, <3>2
    <3> QED
      BY <2>4, <3>3 DEF OrderMeant
  <2> QED
    BY <1>5, <2>3, <2>4
<1>6. CASE m \in {"sub", "div"}
  <2>1. fn = m /\ v.c = r.c /\ v.e = r.e
    BY <1>6 DEF CallsItsFunction, Method, ValueTold, FloatOf
  <2>2. CASE m = "sub"
    <3>1. /\ Less(v, Zero) <=> Less(x, y)
          /\ Less(Zero, v) <=> Less(y, x)
          /\ Less(v, Zero) \in BOOLEAN /\ Less(Zero, v) \in BOOLEAN
      BY <1>1, <2>1, <2>2, SignOfDifference DEF Less, Zero
    <3> QED
      BY <1>3, <2>2, <3>1 DEF OrderMeant
  <2>3. CASE m = "div"
    <3>1. LessNumber(Abs(x.c), x.e, Abs(y.c), y.e) => LessNumber(Abs(v.c), v.e, 1, 0)
      BY <1>1, <2>1, <2>3, DivisionMeant
    <3> QED
      BY <2>3, <3>1 DEF OrderMeant, Less
  <2> QED
    BY <1>6, <2>2, <2>3
<1>7. CASE m \notin {"lt", "gt", "eq", "lte", "gte", "min", "max", "sub", "div"}
  BY <1>7 DEF OrderMeant
<1> QED
  BY <1>4, <1>5, <1>6, <1>7

(***************************************************************************)
(* A method whose function is of another kind promises nothing of these.   *)
(***************************************************************************)
LEMMA OtherMethods ==
  ASSUME NEW m, NEW fn, NEW returns, CallsItsFunction(m, Method(fn, returns)), NEW x, NEW y, NEW v
  PROVE  /\ fn \notin Binary => OrderMeant(m, x, y, v)
         /\ fn \notin ToFixed \cup FromFixed => ConversionMeant(m, x, y, v)
         /\ fn \notin Unary \cup TextFunctions => TextMeant(m, x, v)
<1>1. ASSUME fn \notin Binary PROVE OrderMeant(m, x, y, v)
  <2>1. m \notin {"lt", "gt", "eq", "lte", "gte", "min", "max", "sub", "div"}
    BY <1>1 DEF CallsItsFunction, Method, Binary
  <2> QED
    BY <2>1 DEF OrderMeant
<1>2. ASSUME fn \notin ToFixed \cup FromFixed PROVE ConversionMeant(m, x, y, v)
  <2>1. m \notin {"from_fixed_decimal", "to_fixed_decimal", "from_fixed_decimal_lossy", "to_fixed_decimal_lossy"}
    BY <1>2 DEF CallsItsFunction, Method, ToFixed, FromFixed
  <2> QED
    BY <2>1 DEF ConversionMeant
<1>3. ASSUME fn \notin Unary \cup TextFunctions PROVE TextMeant(m, x, v)
  <2>1. m \notin {"format", "format_with_range", "format_with_scientific", "neg", "is_zero"}
    BY <1>3 DEF CallsItsFunction, Method, Unary, TextFunctions
  <2> QED
    BY <2>1 DEF TextMeant
<1> QED
  BY <1>1, <1>2, <1>3

(***************************************************************************)
(* Conversions to fixed point.                                             *)
(***************************************************************************)
LEMMA ToFixedConverts ==
  ASSUME NEW m, NEW fn \in ToFixed, NEW returns, CallsItsFunction(m, Method(fn, returns)),
         NEW x \in PackedFloat, NEW d \in 0..(ExpMax - PackExpMax),
         NEW r, r = ToFixedResult(fn, x, d), r.status = "ok", Matches(fn, returns, r),
         NEW v, v = ValueTold(returns, r)
  PROVE  ConversionMeant(m, x, d, v)
<1>1. x.c \in Packed /\ x.e \in PackExp
  BY FloatOfPacks
<1>2. PICK same : same = SameNumber(r.value, -d, x.c, x.e)
  OBVIOUS
<1>3. same \in BOOLEAN
  BY <1>2 DEF SameNumber
<1>4. r.lossless \in BOOLEAN /\ (r.lossless <=> same)
  BY <1>1, <1>2, ToFixedMeant
<1>5. CASE m = "to_fixed_decimal"
  <2>1. returns = "fixed"
    BY <1>5 DEF CallsItsFunction, Method
  <2>2. v = r.value /\ r.lossless = TRUE
    BY <2>1 DEF ValueTold, Matches
  <2>3. SameNumber(v, -d, x.c, x.e)
    BY <1>2, <1>4, <2>2
  <2> QED
    BY <1>5, <2>3 DEF ConversionMeant
<1>6. CASE m = "to_fixed_decimal_lossy"
  <2>1. returns = "fixedFlag"
    BY <1>6 DEF CallsItsFunction, Method
  <2>2. v.value = r.value /\ v.lossless = r.lossless
    BY <2>1 DEF ValueTold
  <2>3. v.lossless = same
    BY <1>3, <1>4, <2>2
  <2>4. v.lossless = SameNumber(v.value, -d, x.c, x.e)
    BY <1>2, <2>2, <2>3
  <2> QED
    BY <1>6, <2>4 DEF ConversionMeant
<1>7. m \notin {"from_fixed_decimal", "from_fixed_decimal_lossy"}
  BY DEF CallsItsFunction, Method, ToFixed
<1>8. CASE m \notin {"from_fixed_decimal", "to_fixed_decimal", "from_fixed_decimal_lossy", "to_fixed_decimal_lossy"}
  BY <1>8 DEF ConversionMeant
<1> QED
  BY <1>5, <1>6, <1>7, <1>8

(***************************************************************************)
(* Conversions from fixed point.                                           *)
(***************************************************************************)
LEMMA FromFixedKeeps ==
  ASSUME NEW m, NEW fn \in FromFixed, NEW returns, CallsItsFunction(m, Method(fn, returns)),
         NEW n \in 0..UintMax, NEW d \in 0..(ExpMax - PackExpMax),
         NEW r, r = FromFixedResult(fn, n, d), r.status = "ok", Matches(fn, returns, r),
         NEW v, v = ValueTold(returns, r)
  PROVE  ConversionMeant(m, n, d, v)
<1>1. r.lossless => SameNumber(r.c, r.e, n, -d)
  BY FromFixedMeant
<1>2. CASE m = "from_fixed_decimal"
  <2>1. returns = "float" /\ fn = "fromFixedDecimalLossless"
    BY <1>2 DEF CallsItsFunction, Method
  <2>2. v.c = r.c /\ v.e = r.e /\ r.lossless = TRUE
    BY <2>1 DEF ValueTold, Matches, FloatOf
  <2>3. SameNumber(v.c, v.e, n, -d)
    BY <1>1, <2>2
  <2> QED
    BY <1>2, <2>3 DEF ConversionMeant
<1>3. CASE m = "from_fixed_decimal_lossy"
  <2>1. returns = "floatFlag"
    BY <1>3 DEF CallsItsFunction, Method
  <2>2. v.float.c = r.c /\ v.float.e = r.e /\ v.lossless = r.lossless
    BY <2>1 DEF ValueTold, FloatOf
  <2>3. v.lossless => SameNumber(v.float.c, v.float.e, n, -d)
    BY <1>1, <2>2
  <2> QED
    BY <1>3, <2>3 DEF ConversionMeant
<1>4. m \notin {"to_fixed_decimal", "to_fixed_decimal_lossy"}
  BY DEF CallsItsFunction, Method, FromFixed
<1>5. CASE m \notin {"from_fixed_decimal", "to_fixed_decimal", "from_fixed_decimal_lossy", "to_fixed_decimal_lossy"}
  BY <1>5 DEF ConversionMeant
<1> QED
  BY <1>2, <1>3, <1>4, <1>5

(***************************************************************************)
(* neg and is_zero.                                                        *)
(***************************************************************************)
LEMMA UnaryMeant ==
  ASSUME NEW m, NEW fn \in Unary, NEW returns, CallsItsFunction(m, Method(fn, returns)),
         NEW x \in PackedFloat, NEW r, r = UnaryResult(fn, x), r.status = "ok",
         NEW v, v = ValueTold(returns, r)
  PROVE  TextMeant(m, x, v)
<1>1. x.c \in Packed /\ x.e \in PackExp
  BY FloatOfPacks
<1>2. CASE m = "neg"
  <2>1. returns = "float" /\ fn = "minus"
    BY <1>2 DEF CallsItsFunction, Method
  <2>2. v.c = r.c /\ v.e = r.e
    BY <2>1 DEF ValueTold, FloatOf
  <2>3. x.c # PackMin => SameNumber(v.c, v.e, -x.c, x.e)
    BY <1>1, <2>1, <2>2, MinusMeant
  <2>4. x.c = PackMin \/ Same(v, [c |-> -x.c, e |-> x.e])
    BY <2>3 DEF Same
  <2> QED
    BY <1>2, <2>4 DEF TextMeant
<1>3. CASE m = "is_zero"
  <2>1. returns = "bool" /\ fn = "isZero"
    BY <1>3 DEF CallsItsFunction, Method
  <2>2. v = (x.c = 0)
    BY <2>1 DEF ValueTold, UnaryResult, Holds
  <2>3. SameNumber(x.c, x.e, 0, 0) \in BOOLEAN /\ (SameNumber(x.c, x.e, 0, 0) <=> x.c = 0)
    <3>1. SameNumber(x.c, x.e, 0, 0) \in BOOLEAN
      BY DEF SameNumber
    <3> QED
      BY <1>1, <3>1, ZeroIsZero
  <2>4. v = SameNumber(x.c, x.e, 0, 0)
    BY <2>2, <2>3
  <2>5. v = Same(x, Zero)
    BY <2>4 DEF Same, Zero
  <2> QED
    BY <1>3, <2>5 DEF TextMeant
<1>4. m \notin {"format", "format_with_range", "format_with_scientific"}
  BY DEF CallsItsFunction, Method, Unary
<1>5. CASE m \notin {"format", "format_with_range", "format_with_scientific", "neg", "is_zero"}
  BY <1>5 DEF TextMeant
<1> QED
  BY <1>2, <1>3, <1>4, <1>5

(***************************************************************************)
(* The three overloads of format.                                          *)
(***************************************************************************)
LEMMA TextsMeant ==
  ASSUME NEW m, NEW fn \in TextFunctions, NEW returns, CallsItsFunction(m, Method(fn, returns)),
         Decoding(fn, returns), NEW x \in PackedFloat, NEW r, r.status = "ok",
         \/ \E limits \in FormatLimits : r = FormatWithin(x, limits)
         \/ \E scientific \in BOOLEAN : r = ToDecimalString(x, scientific),
         NEW v, v = ValueTold(returns, r)
  PROVE  TextMeant(m, x, v)
<1>1. x.c \in Packed /\ x.e \in PackExp
  BY FloatOfPacks
<1>2. Parse(r.text).status = "ok" /\ SameNumber(Parse(r.text).c, Parse(r.text).e, x.c, x.e)
  <2>1. CASE \E limits \in FormatLimits : r = FormatWithin(x, limits)
    <3>1. PICK limits \in FormatLimits : r = FormatWithin(x, limits)
      BY <2>1
    <3> QED
      BY <3>1, FormatReads
  <2>2. CASE \E scientific \in BOOLEAN : r = ToDecimalString(x, scientific)
    <3>1. PICK scientific \in BOOLEAN : r = ToDecimalString(x, scientific)
      BY <2>2
    <3> QED
      BY <1>1, <3>1, StringReads
  <2> QED
    BY <2>1, <2>2
<1>3. v = r.text
  <2>1. returns = "text"
    BY DEF TextFunctions, Unary, Decoding, FloatFunctions, Constants, BoolFunctions
  <2> QED
    BY <2>1 DEF ValueTold
<1>4. Parse(v).status = "ok" /\ Same(Parse(v), x)
  BY <1>2, <1>3 DEF Same
<1>5. m \notin {"neg", "is_zero"}
  BY DEF CallsItsFunction, Method, TextFunctions
<1> QED
  BY <1>4, <1>5 DEF TextMeant

(***************************************************************************)
(* What a request's value means, by the number of its arguments.           *)
(***************************************************************************)
LEMMA MeaningByLength ==
  ASSUME NEW m, NEW x, NEW y, NEW v
  PROVE  /\ ExtremeMeant(m, v) => ValueMeant(<<m>>, v)
         /\ TextMeant(m, x, v) => ValueMeant(<<m, x>>, v)
         /\ TextMeant(m, x, v) /\ OrderMeant(m, x, y, v) /\ ConversionMeant(m, x, y, v)
              => ValueMeant(<<m, x, y>>, v)
<1>1. Len(<<m>>) = 1 /\ (<<m>>)[1] = m
  OBVIOUS
<1>2. Len(<<m, x>>) = 2 /\ (<<m, x>>)[1] = m /\ (<<m, x>>)[2] = x
  OBVIOUS
<1>3. Len(<<m, x, y>>) = 3 /\ (<<m, x, y>>)[1] = m /\ (<<m, x, y>>)[2] = x /\ (<<m, x, y>>)[3] = y
  OBVIOUS
<1> QED
  BY <1>1, <1>2, <1>3 DEF ValueMeant

(***************************************************************************)
(* A method that a thread has: its function, and what it stands for.       *)
(***************************************************************************)
LEMMA MethodStandsFor ==
  ASSUME NEW t \in Threads, NEW functions, NEW m \in MethodsOf(t, functions)
  PROVE  /\ Api[m].fn \in functions /\ Decoding(Api[m].fn, Api[m].returns)
         /\ CallsItsFunction(m, Method(Api[m].fn, Api[m].returns))
<1>1. m \in DOMAIN Api /\ Api[m].fn \in functions /\ Decoding(Api[m].fn, Api[m].returns)
  BY MethodDecodes
<1>2. CallsItsFunction(m, Api[m])
  BY <1>1, MethodsCallTheirFunctions
<1>3. CallsItsFunction(m, Method(Api[m].fn, Api[m].returns))
  BY <1>2 DEF CallsItsFunction, Method
<1> QED
  BY <1>1, <1>3

(***************************************************************************)
(* The value of any request means what its method promises.                *)
(***************************************************************************)
LEMMA ValuesAreMeant ==
  ASSUME NEW t \in Threads, NEW request \in Requests(t), MadeOf(request).result = "ok"
  PROVE  ValueMeant(request, MadeOf(request).value)
<1> DEFINE R(q) == Result(Encode(q))
           V(q) == ValueTold(Api[q[1]].returns, R(q))
           P(q) == R(q).status = "ok" /\ Matches(Api[q[1]].fn, Api[q[1]].returns, R(q)) => ValueMeant(q, V(q))
<1>a. Floats \subseteq PackedFloat /\ DefaultLimits \in FormatLimits /\ Limits \subseteq FormatLimits
  BY CallersAssumption
<1>b. Values \subseteq 0..UintMax /\ Decimals \subseteq 0..(ExpMax - PackExpMax)
  BY CallersAssumption
<1>1. \A m \in MethodsOf(t, Constants) : P(<<m>>)
  <2> TAKE m \in MethodsOf(t, Constants)
  <2>1. PICK fn, returns : fn = Api[m].fn /\ returns = Api[m].returns
    OBVIOUS
  <2>2. fn \in Constants /\ Decoding(fn, returns) /\ CallsItsFunction(m, Method(fn, returns))
    BY <2>1, MethodStandsFor
  <2>3. R(<<m>>) = ConstantResult(fn)
    <3>1. Result(<<fn>>) = ConstantResult(fn)
      BY <2>2 DEF Result, Constants, Unary, Binary, ToFixed, FromFixed
    <3> QED
      BY <2>1, <3>1, EncodedTuples
  <2>4. returns = "float"
    BY <2>2 DEF Constants, Decoding, BoolFunctions, TextFunctions
  <2>5. V(<<m>>) = FloatOf(ConstantResult(fn))
    BY <2>1, <2>3, <2>4 DEF ValueTold
  <2>6. ExtremeMeant(m, V(<<m>>))
    BY <2>2, <2>5, ExtremesMeant
  <2> QED
    BY <2>6, MeaningByLength
<1>2. \A m \in MethodsOf(t, Unary), x \in Floats : P(<<m, x>>)
  <2> TAKE m \in MethodsOf(t, Unary), x \in Floats
  <2>1. PICK fn, returns : fn = Api[m].fn /\ returns = Api[m].returns
    OBVIOUS
  <2>2. fn \in Unary /\ CallsItsFunction(m, Method(fn, returns))
    BY <2>1, MethodStandsFor
  <2>3. R(<<m, x>>) = UnaryResult(fn, x)
    <3>1. Result(<<fn, x>>) = UnaryResult(fn, x)
      BY <2>2 DEF Result, Constants, Unary, Binary, ToFixed, FromFixed
    <3> QED
      BY <2>1, <3>1, EncodedTuples
  <2>4. R(<<m, x>>).status = "ok" => TextMeant(m, x, V(<<m, x>>))
    BY <1>a, <2>1, <2>2, <2>3, UnaryMeant
  <2> QED
    BY <2>4, MeaningByLength
<1>3. \A m \in MethodsOf(t, Binary), x \in Floats, y \in Floats : P(<<m, x, y>>)
  <2> TAKE m \in MethodsOf(t, Binary), x \in Floats, y \in Floats
  <2>1. PICK fn, returns : fn = Api[m].fn /\ returns = Api[m].returns
    OBVIOUS
  <2>2. fn \in Binary /\ CallsItsFunction(m, Method(fn, returns))
    BY <2>1, MethodStandsFor
  <2>3. R(<<m, x, y>>) = BinaryResult(fn, x, y)
    <3>1. Result(<<fn, x, y>>) = BinaryResult(fn, x, y)
      BY <2>2 DEF Result, Constants, Unary, Binary, ToFixed, FromFixed
    <3> QED
      BY <2>1, <3>1, EncodedTuples
  <2>4. R(<<m, x, y>>).status = "ok" => OrderMeant(m, x, y, V(<<m, x, y>>))
    BY <1>a, <2>1, <2>2, <2>3, OrdersMeant
  <2>5. fn \notin ToFixed \cup FromFixed /\ fn \notin Unary \cup TextFunctions
    BY <2>2 DEF Binary, ToFixed, FromFixed, Unary, TextFunctions
  <2>6. ConversionMeant(m, x, y, V(<<m, x, y>>)) /\ TextMeant(m, x, V(<<m, x, y>>))
    BY <2>2, <2>5, OtherMethods
  <2> QED
    BY <2>4, <2>6, MeaningByLength
<1>4. \A m \in MethodsOf(t, ToFixed), x \in Floats, n \in Decimals : P(<<m, x, n>>)
  <2> TAKE m \in MethodsOf(t, ToFixed), x \in Floats, n \in Decimals
  <2>1. PICK fn, returns : fn = Api[m].fn /\ returns = Api[m].returns
    OBVIOUS
  <2>2. fn \in ToFixed /\ CallsItsFunction(m, Method(fn, returns))
    BY <2>1, MethodStandsFor
  <2>3. R(<<m, x, n>>) = ToFixedResult(fn, x, n)
    <3>1. Result(<<fn, x, n>>) = ToFixedResult(fn, x, n)
      BY <2>2 DEF Result, Constants, Unary, Binary, ToFixed, FromFixed
    <3> QED
      BY <2>1, <3>1, EncodedTuples
  <2>4. R(<<m, x, n>>).status = "ok" /\ Matches(fn, returns, R(<<m, x, n>>))
          => ConversionMeant(m, x, n, V(<<m, x, n>>))
    BY <1>a, <1>b, <2>1, <2>2, <2>3, ToFixedConverts
  <2>5. fn \notin Binary /\ fn \notin Unary \cup TextFunctions
    BY <2>2 DEF Binary, ToFixed, Unary, TextFunctions
  <2>6. OrderMeant(m, x, n, V(<<m, x, n>>)) /\ TextMeant(m, x, V(<<m, x, n>>))
    BY <2>2, <2>5, OtherMethods
  <2> QED
    BY <2>1, <2>4, <2>6, MeaningByLength
<1>5. \A m \in MethodsOf(t, FromFixed), v \in Values, n \in Decimals : P(<<m, v, n>>)
  <2> TAKE m \in MethodsOf(t, FromFixed), v \in Values, n \in Decimals
  <2>1. PICK fn, returns : fn = Api[m].fn /\ returns = Api[m].returns
    OBVIOUS
  <2>2. fn \in FromFixed /\ CallsItsFunction(m, Method(fn, returns))
    BY <2>1, MethodStandsFor
  <2>3. R(<<m, v, n>>) = FromFixedResult(fn, v, n)
    <3>1. Result(<<fn, v, n>>) = FromFixedResult(fn, v, n)
      BY <2>2 DEF Result, Constants, Unary, Binary, ToFixed, FromFixed
    <3> QED
      BY <2>1, <3>1, EncodedTuples
  <2>4. R(<<m, v, n>>).status = "ok" /\ Matches(fn, returns, R(<<m, v, n>>))
          => ConversionMeant(m, v, n, V(<<m, v, n>>))
    BY <1>b, <2>1, <2>2, <2>3, FromFixedKeeps
  <2>5. fn \notin Binary /\ fn \notin Unary \cup TextFunctions
    BY <2>2 DEF Binary, FromFixed, Unary, TextFunctions
  <2>6. OrderMeant(m, v, n, V(<<m, v, n>>)) /\ TextMeant(m, v, V(<<m, v, n>>))
    BY <2>2, <2>5, OtherMethods
  <2> QED
    BY <2>1, <2>4, <2>6, MeaningByLength
<1>6. \A m \in MethodsOf(t, {"parse"}), text \in Texts : P(<<m, text>>)
  <2> TAKE m \in MethodsOf(t, {"parse"}), text \in Texts
  <2>1. Api[m].fn \in {"parse"} /\ CallsItsFunction(m, Method(Api[m].fn, Api[m].returns))
    BY MethodStandsFor
  <2>2. Api[m].fn \notin Unary \cup TextFunctions
    BY <2>1 DEF Unary, TextFunctions
  <2>3. TextMeant(m, text, V(<<m, text>>))
    BY <2>1, <2>2, OtherMethods
  <2> QED
    BY <2>3, MeaningByLength
<1>7. \A m \in MethodsOf(t, {"formatDefault"}), x \in Floats : P(<<m, x>>)
  <2> TAKE m \in MethodsOf(t, {"formatDefault"}), x \in Floats
  <2>1. PICK fn, returns : fn = Api[m].fn /\ returns = Api[m].returns
    OBVIOUS
  <2>2. fn = "formatDefault" /\ Decoding(fn, returns) /\ CallsItsFunction(m, Method(fn, returns))
    BY <2>1, MethodStandsFor
  <2>3. R(<<m, x>>) = FormatWithin(x, DefaultLimits)
    <3>1. Result(<<fn, x>>) = FormatWithin(x, DefaultLimits)
      BY <2>2 DEF Result, Constants, Unary, Binary, ToFixed, FromFixed
    <3> QED
      BY <2>1, <3>1, EncodedTuples
  <2>4. fn \in TextFunctions
    BY <2>2 DEF TextFunctions
  <2>5. R(<<m, x>>).status = "ok" => TextMeant(m, x, V(<<m, x>>))
    BY <1>a, <2>1, <2>2, <2>3, <2>4, TextsMeant
  <2> QED
    BY <2>5, MeaningByLength
<1>8. \A m \in MethodsOf(t, {"format"}), x \in Floats, limits \in Limits : P(<<m, x, limits>>)
  <2> TAKE m \in MethodsOf(t, {"format"}), x \in Floats, limits \in Limits
  <2>1. PICK fn, returns : fn = Api[m].fn /\ returns = Api[m].returns
    OBVIOUS
  <2>2. fn = "format" /\ Decoding(fn, returns) /\ CallsItsFunction(m, Method(fn, returns))
    BY <2>1, MethodStandsFor
  <2>3. R(<<m, x, limits>>) = FormatWithin(x, limits)
    <3>1. Result(<<fn, x, limits>>) = FormatWithin(x, limits)
      BY <2>2 DEF Result, Constants, Unary, Binary, ToFixed, FromFixed, FormatResult
    <3> QED
      BY <2>1, <3>1, EncodedTuples
  <2>4. fn \in TextFunctions /\ fn \notin Binary /\ fn \notin ToFixed \cup FromFixed
    BY <2>2 DEF TextFunctions, Binary, ToFixed, FromFixed
  <2>5. R(<<m, x, limits>>).status = "ok" => TextMeant(m, x, V(<<m, x, limits>>))
    BY <1>a, <2>1, <2>2, <2>3, <2>4, TextsMeant
  <2>6. OrderMeant(m, x, limits, V(<<m, x, limits>>)) /\ ConversionMeant(m, x, limits, V(<<m, x, limits>>))
    BY <2>2, <2>4, OtherMethods
  <2> QED
    BY <2>5, <2>6, MeaningByLength
<1>9. \A m \in MethodsOf(t, {"formatAs"}), x \in Floats, p \in BOOLEAN : P(<<m, x, p>>)
  <2> TAKE m \in MethodsOf(t, {"formatAs"}), x \in Floats, p \in BOOLEAN
  <2>1. PICK fn, returns : fn = Api[m].fn /\ returns = Api[m].returns
    OBVIOUS
  <2>2. fn = "formatAs" /\ Decoding(fn, returns) /\ CallsItsFunction(m, Method(fn, returns))
    BY <2>1, MethodStandsFor
  <2>3. R(<<m, x, p>>) = ToDecimalString(x, p)
    <3>1. Result(<<fn, x, p>>) = ToDecimalString(x, p)
      BY <2>2 DEF Result, Constants, Unary, Binary, ToFixed, FromFixed, FormatResult
    <3> QED
      BY <2>1, <3>1, EncodedTuples
  <2>4. fn \in TextFunctions /\ fn \notin Binary /\ fn \notin ToFixed \cup FromFixed
    BY <2>2 DEF TextFunctions, Binary, ToFixed, FromFixed
  <2>5. R(<<m, x, p>>).status = "ok" => TextMeant(m, x, V(<<m, x, p>>))
    BY <1>a, <2>1, <2>2, <2>3, <2>4, TextsMeant
  <2>6. OrderMeant(m, x, p, V(<<m, x, p>>)) /\ ConversionMeant(m, x, p, V(<<m, x, p>>))
    BY <2>2, <2>4, OtherMethods
  <2> QED
    BY <2>5, <2>6, MeaningByLength
<1> HIDE DEF P
<1>10. P(request)
  BY <1>1, <1>2, <1>3, <1>4, <1>5, <1>6, <1>7, <1>8, <1>9 DEF Requests
<1>11. /\ R(request).status = "ok" /\ Matches(Api[request[1]].fn, Api[request[1]].returns, R(request))
       /\ MadeOf(request).value = V(request)
  BY ValueOfMethod
<1> QED
  BY <1>10, <1>11 DEF P

(***************************************************************************)
(* Every method returns what its name and its doc say, for all floats,     *)
(* values and texts, whatever other threads do and whatever the thread     *)
(* called before (lib.rs, evm.rs).                                         *)
(***************************************************************************)
THEOREM MethodsAreMeant == ClientSafe => []MethodsKeepTheirMeaning
<1>1. ClientInv => MethodsKeepTheirMeaning
  <2> SUFFICES ASSUME ClientInv, NEW t \in Threads, Returned(t), got[t].result = "ok"
               PROVE  ValueMeant(asked[t], got[t].value)
    BY DEF MethodsKeepTheirMeaning
  <2>1. CallInv(t) /\ pc[t] = "returned"
    BY DEF ClientInv, Returned
  <2>2. asked[t] \in Requests(t)
    BY <2>1 DEF CallInv
  <2>3. got[t] # FloatError("Access", "AccessError")
    BY DEF FloatError
  <2>4. got[t] = MadeOf(asked[t])
    BY <2>1, <2>3 DEF CallInv
  <2> QED
    BY <2>2, <2>4, ValuesAreMeant
<1> QED
  BY <1>1, ClientIsInvariant, PTL

(***************************************************************************)
(* The same of the JavaScript API (js_api.rs).                             *)
(***************************************************************************)
THEOREM JsMethodsAreMeant == JsSpec => []MethodsKeepTheirMeaning
BY JsIsClientSafe, MethodsAreMeant, PTL

-----------------------------------------------------------------------------

(***************************************************************************)
(* What Power computes.                                                    *)
(***************************************************************************)
LEMMA PowerUnfolds ==
  /\ Power[0] = 1
  /\ \A n \in Nat : Power[n + 1] = Radix * Power[n]
<1>1. Radix \in Nat
  BY RealmsAssumption
<1>2. PICK f : f = PowersFrom(Radix, f)
  BY <1>1, PowersExist
<1>3. Power = PowersFrom(Radix, Power)
  BY <1>2, Zenon DEF Power, PowersFrom
<1> QED BY <1>1, <1>3, PowersUnfold

(***************************************************************************)
(* The powers are positive, and n digits write more than n numbers.        *)
(***************************************************************************)
LEMMA PowerType ==
  ASSUME NEW n \in Nat
  PROVE  Power[n] \in Nat /\ n + 1 <= Power[n]
<1> DEFINE Bad == {m \in Nat : ~(Power[m] \in Nat /\ m + 1 <= Power[m])}
<1>1. ASSUME NEW x \in Bad PROVE FALSE
  <2>1. PICK m \in Bad : \A l \in Bad : m <= l
    BY <1>1, LeastNumber
  <2>2. m # 0
    BY <2>1, PowerUnfolds
  <2>3. m - 1 \in Nat /\ m - 1 \notin Bad /\ (m - 1) + 1 = m
    BY <2>1, <2>2
  <2>4. Power[m] = Radix * Power[m - 1]
    BY <2>3, PowerUnfolds
  <2>5. PICK p \in Nat : p = Power[m - 1] /\ m <= p
    BY <2>3
  <2>6. Radix \in Nat /\ 2 <= Radix
    BY RealmsAssumption
  <2>7. p * 2 <= p * Radix /\ p * Radix = Radix * p /\ Radix * p \in Nat
    BY <2>5, <2>6, TimesGrows
  <2>8. m + 1 <= p * 2
    BY <2>1, <2>2, <2>5
  <2> QED BY <2>1, <2>4, <2>5, <2>7, <2>8
<1> QED BY <1>1

(***************************************************************************)
(* More digits write more numbers.                                         *)
(***************************************************************************)
LEMMA PowerGrows ==
  ASSUME NEW m \in Nat, NEW n \in Nat, m <= n
  PROVE  Power[m] <= Power[n]
<1> DEFINE Bad == {k \in Nat : ~(Power[m] <= Power[m + k])}
<1>1. ASSUME NEW x \in Bad PROVE FALSE
  <2>1. PICK k \in Bad : \A l \in Bad : k <= l
    BY <1>1, LeastNumber
  <2>2. k # 0
    BY <2>1, PowerType
  <2>3. k - 1 \in Nat /\ k - 1 \notin Bad /\ m + (k - 1) \in Nat /\ (m + (k - 1)) + 1 = m + k
    BY <2>1, <2>2
  <2>4. Power[m + k] = Radix * Power[m + (k - 1)]
    BY <2>3, PowerUnfolds
  <2>5. PICK p \in Nat : p = Power[m + (k - 1)] /\ Power[m] <= p
    BY <2>3, PowerType
  <2>6. Radix \in Nat /\ 1 <= Radix
    BY RealmsAssumption
  <2>7. p * 1 <= p * Radix /\ p * Radix = Radix * p /\ Radix * p \in Nat
    BY <2>5, <2>6, TimesGrows
  <2>8. Power[m] \in Nat
    BY PowerType
  <2> QED BY <2>1, <2>4, <2>5, <2>7, <2>8
<1>2. n - m \in Nat /\ n - m \notin Bad /\ m + (n - m) = n
  BY <1>1
<1> QED BY <1>2

-----------------------------------------------------------------------------

(***************************************************************************)
(* The recursion of ValueOf, and its first values up to m.                 *)
(***************************************************************************)
ReadFrom(f, s) == [i \in 0..Len(s) |-> IF i = 0 THEN 0 ELSE Radix * f[i - 1] + s[i]]

Reads(f, s, m) == f \in [0..m -> Nat] /\ f[0] = 0 /\ \A i \in 1..m : f[i] = Radix * f[i - 1] + s[i]

(***************************************************************************)
(* The first values exist.                                                 *)
(***************************************************************************)
LEMMA FirstReadingsExist ==
  ASSUME NEW s \in Seq(Nat), NEW n \in 0..Len(s)
  PROVE  \E f : Reads(f, s, n)
<1> DEFINE Bad == {m \in 0..Len(s) : ~\E f : Reads(f, s, m)}
<1>0. Len(s) \in Nat /\ Bad \subseteq Nat /\ Radix \in Nat
  BY RealmsAssumption
<1>1. ASSUME NEW x \in Bad PROVE FALSE
  <2>1. PICK m \in Bad : \A l \in Bad : m <= l
    BY <1>0, <1>1, LeastNumber
  <2>2. CASE m = 0
    <3>1. PICK f : f = [i \in 0..0 |-> 0]
      OBVIOUS
    <3>2. Reads(f, s, 0)
      BY <3>1 DEF Reads
    <3> QED BY <2>1, <2>2, <3>2
  <2>3. CASE m # 0
    <3>a. m \in 0..Len(s) /\ m \in Int
      BY <1>0, <2>1
    <3>b. m \in 1..Len(s) /\ m - 1 \in 0..Len(s) /\ ~(m <= m - 1)
      BY <1>0, <2>3, <3>a
    <3>1. m \in 1..Len(s) /\ m - 1 \in 0..Len(s) /\ m - 1 \notin Bad
      BY <2>1, <3>b
    <3>2. PICK f : Reads(f, s, m - 1)
      BY <3>1
    <3>3. PICK p : p = f[m - 1]
      OBVIOUS
    <3>4. p \in Nat /\ s[m] \in Nat
      BY <3>1, <3>2, <3>3 DEF Reads
    <3>5. PICK q \in Nat : q = Radix * p + s[m]
      BY <1>0, <3>4
    <3>6. PICK g : g = [i \in 0..m |-> IF i = m THEN q ELSE f[i]]
      OBVIOUS
    <3>7. g \in [0..m -> Nat] /\ g[0] = 0
      BY <1>0, <2>3, <3>1, <3>2, <3>5, <3>6 DEF Reads
    <3>8. ASSUME NEW i \in 1..m PROVE g[i] = Radix * g[i - 1] + s[i]
      <4>1. i - 1 \in 0..m /\ i - 1 # m /\ g[i - 1] = f[i - 1]
        BY <1>0, <3>1, <3>6
      <4>2. CASE i = m
        BY <3>3, <3>5, <3>6, <4>1, <4>2
      <4>3. CASE i # m
        <5>1. i \in 1..(m - 1) /\ g[i] = f[i]
          BY <1>0, <3>1, <3>6, <4>3
        <5> QED BY <3>2, <4>1, <5>1 DEF Reads
      <4> QED BY <4>2, <4>3
    <3>9. Reads(g, s, m)
      BY <3>7, <3>8 DEF Reads
    <3> QED BY <2>1, <3>9
  <2> QED BY <2>2, <2>3
<1> QED BY <1>1

(***************************************************************************)
(* So the recursion has a solution.                                        *)
(***************************************************************************)
LEMMA ReadingExists ==
  ASSUME NEW s \in Seq(Nat)
  PROVE  \E f : f = ReadFrom(f, s)
<1>1. Len(s) \in Nat /\ Len(s) \in 0..Len(s)
  OBVIOUS
<1>2. PICK f : Reads(f, s, Len(s))
  BY <1>1, FirstReadingsExist
<1>3. f = ReadFrom(f, s)
  BY <1>1, <1>2 DEF Reads, ReadFrom
<1> QED BY <1>3

(***************************************************************************)
(* A solution is a reading.                                                *)
(***************************************************************************)
LEMMA SolutionReads ==
  ASSUME NEW s \in Seq(Nat), NEW f, f = ReadFrom(f, s)
  PROVE  Reads(f, s, Len(s))
<1>0. Len(s) \in Nat /\ Radix \in Nat
  BY RealmsAssumption
<1>1. DOMAIN f = 0..Len(s) /\ f = [i \in 0..Len(s) |-> f[i]]
  BY DEF ReadFrom
<1>2. f[0] = 0
  BY <1>0 DEF ReadFrom
<1>3. ASSUME NEW i \in 1..Len(s) PROVE f[i] = Radix * f[i - 1] + s[i]
  <2>1. i \in 0..Len(s) /\ i # 0
    BY <1>0
  <2> QED BY <2>1 DEF ReadFrom
<1> DEFINE Bad == {i \in 0..Len(s) : f[i] \notin Nat}
<1>4. ASSUME NEW x \in Bad PROVE FALSE
  <2>0. Bad \subseteq Nat
    OBVIOUS
  <2>1. PICK m \in Bad : \A l \in Bad : m <= l
    BY <1>4, <2>0, LeastNumber
  <2>2. m # 0
    BY <1>2, <2>1
  <2>3. m \in 1..Len(s) /\ m - 1 \in 0..Len(s) /\ m - 1 \notin Bad
    BY <1>0, <2>1, <2>2
  <2>4. PICK p \in Nat : p = f[m - 1]
    BY <2>3
  <2>5. s[m] \in Nat /\ f[m] = Radix * p + s[m]
    BY <1>3, <2>3, <2>4
  <2>6. Radix * p \in Nat
    BY <1>0
  <2> QED BY <2>1, <2>5, <2>6
<1>5. f \in [0..Len(s) -> Nat]
  BY <1>1, <1>4
<1> QED BY <1>2, <1>3, <1>5 DEF Reads

(***************************************************************************)
(* What ValueOf computes.                                                  *)
(***************************************************************************)
LEMMA ValueReads ==
  ASSUME NEW s \in Seq(Nat)
  PROVE  \E f : Reads(f, s, Len(s)) /\ ValueOf(s) = f[Len(s)]
<1>1. PICK h : h = ReadFrom(h, s)
  BY ReadingExists
<1>2. PICK f : f = CHOOSE g : g = ReadFrom(g, s)
  OBVIOUS
<1>3. f = ReadFrom(f, s)
  BY <1>1, <1>2, Zenon
<1>4. ValueOf(s) = f[Len(s)]
  BY <1>2, Zenon DEF ValueOf, ReadFrom
<1>5. Reads(f, s, Len(s))
  BY <1>3, SolutionReads
<1> QED BY <1>4, <1>5

-----------------------------------------------------------------------------

(***************************************************************************)
(* The first i of len digits of n are what dividing the others away leaves.*)
(***************************************************************************)
LEMMA DigitsReadBack ==
  ASSUME NEW n \in Nat, NEW len \in Nat, n < Power[len]
  PROVE  /\ DigitsOf(n, len) \in Seq(Nat) /\ Len(DigitsOf(n, len)) = len
         /\ IsHex(DigitsOf(n, len)) /\ ValueOf(DigitsOf(n, len)) = n
<1>0. Radix \in Nat /\ Radix >= 1
  BY RealmsAssumption
<1>1. PICK s : s = DigitsOf(n, len)
  OBVIOUS
<1>2. ASSUME NEW i \in 1..len
      PROVE  s[i] = (n \div Power[len - i]) % Radix /\ s[i] \in Nat /\ s[i] < Radix
  <2>1. s[i] = (n \div Power[len - i]) % Radix
    BY <1>1 DEF DigitsOf
  <2>2. PICK p \in Nat : p = Power[len - i] /\ p >= 1
    <3>1. len - i \in Nat
      OBVIOUS
    <3> QED BY <3>1, PowerType
  <2>3. PICK q \in Nat : q = n \div p
    BY <2>2, DivBounds
  <2>4. q % Radix \in 0..(Radix - 1)
    BY <1>0
  <2> QED BY <1>0, <2>1, <2>2, <2>3, <2>4
<1>3. s \in [1..len -> Nat]
  <2>1. s = [i \in 1..len |-> s[i]]
    BY <1>1 DEF DigitsOf
  <2> QED BY <1>2, <2>1
<1>4. s \in Seq(Nat) /\ Len(s) = len /\ DOMAIN s = 1..len
  BY <1>3
<1>5. IsHex(s)
  BY <1>2, <1>4 DEF IsHex
<1>6. PICK f : Reads(f, s, len) /\ ValueOf(s) = f[len]
  BY <1>4, ValueReads
<1>7. f \in [0..len -> Nat] /\ f[0] = 0 /\ \A i \in 1..len : f[i] = Radix * f[i - 1] + s[i]
  BY <1>6 DEF Reads
<1> DEFINE Bad == {i \in 0..len : f[i] # n \div Power[len - i]}
<1>8. ASSUME NEW x \in Bad PROVE FALSE
  <2>0. Bad \subseteq Nat
    OBVIOUS
  <2>1. PICK m \in Bad : \A l \in Bad : m <= l
    BY <1>8, <2>0, LeastNumber
  <2>2. m # 0
    <3>1. PICK p \in Nat : p = Power[len] /\ p >= 1
      BY PowerType
    <3>2. n \div p = 0
      <4>1. p * 0 <= n /\ n < p * (0 + 1)
        BY <3>1
      <4> QED BY <3>1, <4>1, DivUnique
    <3>3. len - 0 = len
      OBVIOUS
    <3> QED BY <1>7, <2>1, <3>1, <3>2, <3>3
  <2>3. m \in 0..len /\ m \in Int
    BY <2>1
  <2>4. m \in 1..len /\ m - 1 \in 0..len /\ ~(m <= m - 1)
    BY <2>2, <2>3
  <2>5. m - 1 \notin Bad
    BY <2>1, <2>4
  <2>6. PICK k \in Nat : k = len - m /\ k + 1 = len - (m - 1)
    BY <2>4
  <2>7. PICK p \in Nat : p = Power[k] /\ p >= 1
    BY PowerType
  <2>8. Power[len - (m - 1)] = p * Radix
    <3>1. Power[k + 1] = Radix * p
      BY <2>7, PowerUnfolds
    <3> QED BY <1>0, <2>6, <2>7, <3>1
  <2>9. PICK q \in Nat : q = n \div p
    BY <2>7, DivBounds
  <2>10. f[m - 1] = q \div Radix
    <3>1. f[m - 1] = n \div (p * Radix)
      BY <2>4, <2>5, <2>8
    <3>2. (n \div p) \div Radix = n \div (p * Radix)
      BY <1>0, <2>7, DivTwice
    <3> QED BY <2>9, <3>1, <3>2
  <2>11. s[m] = q % Radix
    BY <1>2, <2>4, <2>6, <2>7, <2>9
  <2>12. Radix * (q \div Radix) + (q % Radix) = q
    BY <1>0, <2>9, DivRest
  <2>13. f[m] = q
    <3>1. f[m] = Radix * f[m - 1] + s[m]
      BY <1>7, <2>4
    <3> QED BY <2>10, <2>11, <2>12, <3>1
  <2>14. n \div Power[len - m] = q
    BY <2>6, <2>7, <2>9
  <2> QED BY <2>1, <2>13, <2>14
<1>9. f[len] = n
  <2>1. len \in 0..len /\ len \notin Bad
    BY <1>8
  <2>2. f[len] = n \div Power[len - len]
    BY <2>1
  <2>3. Power[len - len] = 1
    <3>1. len - len = 0
      OBVIOUS
    <3> QED BY <3>1, PowerUnfolds
  <2>4. n \div 1 = n
    OBVIOUS
  <2> QED BY <2>2, <2>3, <2>4
<1> QED BY <1>1, <1>4, <1>5, <1>6, <1>9

(***************************************************************************)
(* A number with a last digit is the others' multiple and that digit.      *)
(***************************************************************************)
LEMMA LastDigit ==
  ASSUME NEW r \in Nat, r >= 1, NEW p \in Nat, NEW d \in Nat, d < r, NEW q \in Nat, q = r * p + d
  PROVE  q \div r = p /\ q % r = d /\ q + 1 <= (p + 1) * r
<1>1. PICK z \in Nat, y \in Nat : z = r * p /\ y = r * (p + 1) /\ y = z + r
  <2>1. r * p \in Nat /\ r * (p + 1) \in Nat /\ r * (p + 1) = r * p + r
    OBVIOUS
  <2> QED BY <2>1
<1>2. q = z + d
  BY <1>1
<1>3. z <= q /\ q < y /\ q + 1 <= y
  BY <1>1, <1>2
<1>4. q \div r = p
  BY <1>1, <1>3, DivUnique
<1>5. PICK l \in Nat : l = q % r
  BY DivRest
<1>6. q = r * p + l
  <2>1. q = r * (q \div r) + (q % r)
    BY DivRest
  <2> QED BY <1>4, <1>5, <2>1
<1>7. l = d
  BY <1>1, <1>2, <1>5, <1>6
<1>8. y = (p + 1) * r
  BY <1>1
<1> QED BY <1>3, <1>4, <1>5, <1>7, <1>8

(***************************************************************************)
(* Digits are those of their value.                                        *)
(***************************************************************************)
LEMMA ValueHasTheDigits ==
  ASSUME NEW s \in Seq(Nat), IsHex(s)
  PROVE  ValueOf(s) \in Nat /\ ValueOf(s) < Power[Len(s)] /\ DigitsOf(ValueOf(s), Len(s)) = s
<1>0. Radix \in Nat /\ Radix >= 1
  BY RealmsAssumption
<1>1. PICK len \in Nat : len = Len(s) /\ DOMAIN s = 1..len
  OBVIOUS
<1>2. PICK f : Reads(f, s, len) /\ ValueOf(s) = f[len]
  BY <1>1, ValueReads
<1>3. f \in [0..len -> Nat] /\ f[0] = 0 /\ \A i \in 1..len : f[i] = Radix * f[i - 1] + s[i]
  BY <1>2 DEF Reads
<1>4. ASSUME NEW i \in 1..len
      PROVE  f[i] \div Radix = f[i - 1] /\ f[i] % Radix = s[i] /\ f[i] + 1 <= (f[i - 1] + 1) * Radix
  <2>1. i - 1 \in 0..len /\ i \in 0..len
    BY <1>1
  <2>2. PICK p \in Nat, q \in Nat, d \in Nat : p = f[i - 1] /\ q = f[i] /\ d = s[i]
    BY <1>1, <1>3, <2>1
  <2>3. d < Radix
    BY <1>1, <2>2 DEF IsHex
  <2>4. q = Radix * p + d
    BY <1>3, <2>2
  <2>5. q \div Radix = p /\ q % Radix = d /\ q + 1 <= (p + 1) * Radix
    <3>1. PICK r : r = Radix
      OBVIOUS
    <3>2. r \in Nat /\ r >= 1 /\ p \in Nat /\ d \in Nat /\ d < r /\ q \in Nat /\ q = r * p + d
      BY <1>0, <2>2, <2>3, <2>4, <3>1
    <3>3. q \div r = p /\ q % r = d /\ q + 1 <= (p + 1) * r
      BY <3>2, LastDigit
    <3> QED BY <3>1, <3>3
  <2> QED BY <2>2, <2>5
<1> DEFINE Beyond == {i \in 0..len : ~(f[i] + 1 <= Power[i])}
<1>5. ASSUME NEW x \in Beyond PROVE FALSE
  <2>0. Beyond \subseteq Nat
    OBVIOUS
  <2>1. PICK m \in Beyond : \A l \in Beyond : m <= l
    BY <1>5, <2>0, LeastNumber
  <2>2. m # 0
    <3>1. f[0] + 1 <= Power[0]
      BY <1>3, PowerUnfolds
    <3> QED BY <2>1, <3>1
  <2>3. m \in 0..len /\ m \in Int
    BY <2>1
  <2>4. m \in 1..len /\ m - 1 \in 0..len /\ m - 1 \in Nat /\ (m - 1) + 1 = m /\ ~(m <= m - 1)
    BY <2>2, <2>3
  <2>5. m - 1 \notin Beyond
    BY <2>1, <2>4
  <2>6. PICK p \in Nat, q \in Nat, g \in Nat : p = Power[m - 1] /\ q = f[m] /\ g = f[m - 1]
    BY <1>3, <2>3, <2>4, PowerType
  <2>7. g + 1 <= p
    BY <2>4, <2>5, <2>6
  <2>8. Radix * (g + 1) <= Radix * p
    <3>1. g + 1 \in Int /\ p \in Int
      BY <2>6
    <3> QED BY <1>0, <2>7, <3>1, TimesGrows
  <2>9. q + 1 <= (g + 1) * Radix
    BY <1>4, <2>4, <2>6
  <2>10. (g + 1) * Radix = Radix * (g + 1) /\ Radix * (g + 1) \in Nat /\ Radix * p \in Nat
    BY <1>0
  <2>11. Power[m] = Radix * p
    BY <2>4, <2>6, PowerUnfolds
  <2> QED BY <2>1, <2>6, <2>8, <2>9, <2>10, <2>11
<1>6. PICK n \in Nat : n = f[len] /\ n < Power[len]
  <2>1. len \in 0..len /\ len \notin Beyond
    BY <1>5
  <2>2. f[len] \in Nat /\ Power[len] \in Nat
    BY <1>3, <2>1, PowerType
  <2> QED BY <2>1, <2>2
<1> DEFINE Bad == {k \in 0..len : f[len - k] # n \div Power[k]}
<1>7. ASSUME NEW x \in Bad PROVE FALSE
  <2>0. Bad \subseteq Nat
    OBVIOUS
  <2>1. PICK m \in Bad : \A l \in Bad : m <= l
    BY <1>7, <2>0, LeastNumber
  <2>2. m # 0
    <3>1. n \div 1 = n /\ len - 0 = len
      OBVIOUS
    <3> QED BY <1>6, <2>1, <3>1, PowerUnfolds
  <2>3. m \in 0..len /\ m \in Int
    BY <2>1
  <2>4. m \in 1..len /\ m - 1 \in 0..len /\ m - 1 \in Nat /\ (m - 1) + 1 = m /\ ~(m <= m - 1)
    BY <2>2, <2>3
  <2>5. m - 1 \notin Bad
    BY <2>1, <2>4
  <2>6. PICK p \in Nat : p = Power[m - 1] /\ p >= 1
    <3>1. Power[m - 1] \in Nat /\ (m - 1) + 1 <= Power[m - 1]
      BY <2>4, PowerType
    <3> QED BY <2>4, <3>1
  <2>7. Power[m] = p * Radix
    <3>1. Power[m] = Radix * p
      BY <2>4, <2>6, PowerUnfolds
    <3> QED BY <1>0, <2>6, <3>1
  <2>8. PICK i \in 1..len : i = len - (m - 1) /\ i - 1 = len - m
    BY <2>4
  <2>9. f[i] = n \div p
    BY <2>4, <2>5, <2>6, <2>8
  <2>10. f[i - 1] = (n \div p) \div Radix
    BY <1>4, <2>8, <2>9
  <2>11. (n \div p) \div Radix = n \div (p * Radix)
    BY <1>0, <1>6, <2>6, DivTwice
  <2> QED BY <2>1, <2>7, <2>8, <2>10, <2>11
<1>8. ASSUME NEW i \in 1..len PROVE (n \div Power[len - i]) % Radix = s[i]
  <2>1. len - i \in 0..len /\ len - (len - i) = i
    OBVIOUS
  <2>2. len - i \notin Bad
    BY <1>7
  <2>3. f[i] = n \div Power[len - i]
    BY <2>1, <2>2
  <2> QED BY <1>4, <2>3
<1>9. DigitsOf(n, len) = [i \in 1..len |-> s[i]]
  BY <1>8 DEF DigitsOf
<1>10. s = [i \in 1..len |-> s[i]]
  BY <1>1
<1> QED BY <1>1, <1>2, <1>6, <1>9, <1>10

-----------------------------------------------------------------------------

(***************************************************************************)
(* An integer is a multiple and a rest.                                    *)
(***************************************************************************)
LEMMA IntRest ==
  ASSUME NEW n \in Nat, n >= 1, NEW x \in Int
  PROVE  x \div n \in Int /\ x = n * (x \div n) + (x % n) /\ x % n \in 0..(n - 1)
OBVIOUS

(***************************************************************************)
(* Multiples add.                                                          *)
(***************************************************************************)
LEMMA SumOfMultiples ==
  ASSUME NEW n \in Nat, NEW p \in Int, NEW q \in Int, NEW x \in Int, NEW y \in Int, NEW w \in Int,
         x = n * q + y, y = w + p * n
  PROVE  x = w + (p + q) * n
<1>1. n * q = q * n /\ (p + q) * n = p * n + q * n /\ p * n \in Int /\ q * n \in Int
  OBVIOUS
<1> QED BY <1>1

(***************************************************************************)
(* A part of a float, its coefficient or exponent, comes back from its     *)
(* unsigned rest.                                                          *)
(***************************************************************************)
LEMMA PartComesBack ==
  ASSUME NEW max \in Nat, NEW n, n = 2 * max + 2, NEW x \in (-max - 1)..max
  PROVE  x % n \in 0..(n - 1) /\ WrapTo(x % n, max) = x
<1>1. n \in Nat /\ n >= 1 /\ x \in Int /\ n = 2 * (max + 1)
  OBVIOUS
<1>2. x \div n \in Int /\ x = n * (x \div n) + (x % n) /\ x % n \in 0..(n - 1)
  BY <1>1, IntRest
<1>3. PICK y \in Int, q \in Int : y = x % n /\ q = x \div n /\ x = n * q + y
  BY <1>1, <1>2
<1>4. PICK w \in (-max - 1)..max, p \in Int : w = WrapTo(y, max) /\ y = w + p * n
  <2>1. WrapTo(y, max) \in (-max - 1)..max
    BY <1>3, WrapType
  <2>2. PICK p \in Int : y = WrapTo(y, max) + p * n
    <3>1. PICK p \in Int : y = WrapTo(y, max) + p * (2 * (max + 1))
      BY <1>3, WrapIsCongruent
    <3> QED BY <1>1, <3>1
  <2> QED BY <2>1, <2>2
<1>5. x = w + (p + q) * n
  <2>1. w \in Int
    BY <1>4
  <2> QED BY <1>1, <1>3, <1>4, <2>1, SumOfMultiples
<1>6. w \in Int /\ x - w < n /\ w - x < n /\ p + q \in Int
  BY <1>1, <1>3, <1>4
<1>7. x = w
  BY <1>1, <1>5, <1>6, CongruentAndNear
<1> QED BY <1>2, <1>3, <1>4, <1>7

(***************************************************************************)
(* And the rest from it.                                                   *)
(***************************************************************************)
LEMMA RestComesBack ==
  ASSUME NEW max \in Nat, NEW n, n = 2 * max + 2, NEW y \in 0..(n - 1)
  PROVE  WrapTo(y, max) \in (-max - 1)..max /\ WrapTo(y, max) % n = y
<1>1. n \in Nat /\ n >= 1 /\ y \in Int /\ n = 2 * (max + 1)
  OBVIOUS
<1>2. PICK w \in (-max - 1)..max, p \in Int : w = WrapTo(y, max) /\ y = w + p * n
  <2>1. WrapTo(y, max) \in (-max - 1)..max
    BY <1>1, WrapType
  <2>2. PICK p \in Int : y = WrapTo(y, max) + p * n
    <3>1. PICK p \in Int : y = WrapTo(y, max) + p * (2 * (max + 1))
      BY <1>1, WrapIsCongruent
    <3> QED BY <1>1, <3>1
  <2> QED BY <2>1, <2>2
<1>3. w \in Int
  BY <1>2
<1>4. w \div n \in Int /\ w = n * (w \div n) + (w % n) /\ w % n \in 0..(n - 1)
  BY <1>1, <1>3, IntRest
<1>5. PICK z \in Int, q \in Int : z = w % n /\ q = w \div n /\ w = n * q + z
  BY <1>1, <1>4
<1>6. y = z + (p + q) * n
  <2>1. w = n * q + z /\ y = w + p * n
    BY <1>2, <1>5
  <2>2. n * q = q * n /\ (p + q) * n = p * n + q * n /\ p * n \in Int /\ q * n \in Int
    BY <1>1, <1>2, <1>5
  <2>3. z \in Int
    BY <1>5
  <2>4. \A i, j, k \in Int : y = i + k /\ i = j + z => y = z + (k + j)
    BY <2>3
  <2>5. w = q * n + z
    BY <2>1, <2>2
  <2> QED BY <1>3, <2>1, <2>2, <2>3, <2>4, <2>5
<1>7. y - z < n /\ z - y < n /\ p + q \in Int
  <2>1. z \in 0..(n - 1) /\ y \in 0..(n - 1)
    BY <1>4, <1>5
  <2> QED BY <1>1, <1>2, <1>5, <2>1
<1>8. y = z
  BY <1>1, <1>5, <1>6, <1>7, CongruentAndNear
<1> QED BY <1>2, <1>5, <1>8

-----------------------------------------------------------------------------

(***************************************************************************)
(* The unsigned numbers of as many bits as a float.                        *)
(***************************************************************************)
Words == 0..(Power[2 * FloatBytes] - 1)

(***************************************************************************)
(* There are as many as pairs of a coefficient's and an exponent's rest.   *)
(***************************************************************************)
LEMMA WordSizes ==
  /\ 2 * PackMax + 2 \in Nat /\ 2 * PackExpMax + 2 \in Nat /\ 2 * FloatBytes \in Nat
  /\ Power[2 * FloatBytes] = (2 * PackMax + 2) * (2 * PackExpMax + 2)
  /\ Power[2 * FloatBytes] \in Nat
  /\ 2 * PackMax + 2 >= 1 /\ 2 * PackExpMax + 2 >= 1
<1>1. PackMax \in Nat /\ PackExpMax \in Nat
  BY WidthsAreInts
<1>2. FloatBytes \in Nat /\ Power[2 * FloatBytes] = (2 * PackMax + 2) * (2 * PackExpMax + 2)
  BY RealmsAssumption
<1>3. 2 * FloatBytes \in Nat
  BY <1>2
<1>4. Power[2 * FloatBytes] \in Nat
  BY <1>3, PowerType
<1> QED BY <1>1, <1>2, <1>3, <1>4

(***************************************************************************)
(* A float comes back from its word.                                       *)
(***************************************************************************)
LEMMA FloatOfWord ==
  ASSUME NEW x \in PackedFloat
  PROVE  Raw(x) \in Words /\ FromRaw(Raw(x)) = x
<1>1. PICK W, E : W = 2 * PackMax + 2 /\ E = 2 * PackExpMax + 2
  OBVIOUS
<1>2. W \in Nat /\ W >= 1 /\ E \in Nat /\ E >= 1 /\ Power[2 * FloatBytes] = W * E
  BY <1>1, WordSizes
<1>3. /\ x.c \in (-PackMax - 1)..PackMax /\ x.e \in (-PackExpMax - 1)..PackExpMax
      /\ PackMax \in Nat /\ PackExpMax \in Nat /\ x = [c |-> x.c, e |-> x.e]
  BY WidthsAreInts DEF PackedFloat, Packed, PackExp, PackMin, PackExpMin
<1>4. PICK r, s : r = x.c % W /\ s = x.e % E
  OBVIOUS
<1>5. r \in 0..(W - 1) /\ WrapTo(r, PackMax) = x.c
  BY <1>1, <1>3, <1>4, PartComesBack
<1>6. s \in 0..(E - 1) /\ WrapTo(s, PackExpMax) = x.e
  BY <1>1, <1>3, <1>4, PartComesBack
<1>7. PICK n : n = Raw(x)
  OBVIOUS
<1>8. n = s * W + r
  BY <1>1, <1>4, <1>7 DEF Raw
<1>9. n \in Nat /\ n < W * E /\ n = W * s + r
  <2>1. s \in Nat /\ r \in Nat /\ s + 1 <= E /\ r < W
    BY <1>2, <1>5, <1>6
  <2>2. W * (s + 1) <= W * E
    BY <1>2, <2>1, TimesGrows
  <2>3. W * (s + 1) = W * s + W /\ s * W = W * s /\ W * s \in Nat /\ W * E \in Nat
    BY <1>2, <2>1
  <2> QED BY <1>2, <1>8, <2>1, <2>2, <2>3
<1>10. n \div W = s /\ n % W = r
  <2>1. s \in Nat /\ r \in Nat /\ r < W
    BY <1>2, <1>5, <1>6
  <2> QED BY <1>2, <1>9, <2>1, LastDigit
<1>11. FromRaw(n) = [c |-> x.c, e |-> x.e]
  BY <1>1, <1>5, <1>6, <1>10 DEF FromRaw
<1>12. n \in Words
  <2>1. W * E \in Nat
    BY <1>2
  <2> QED BY <1>2, <1>9, <2>1 DEF Words
<1> QED BY <1>3, <1>7, <1>11, <1>12

(***************************************************************************)
(* And every word from its float.                                          *)
(***************************************************************************)
LEMMA WordOfFloat ==
  ASSUME NEW n \in Words
  PROVE  FromRaw(n) \in PackedFloat /\ Raw(FromRaw(n)) = n
<1>1. PICK W, E : W = 2 * PackMax + 2 /\ E = 2 * PackExpMax + 2
  OBVIOUS
<1>2. /\ W \in Nat /\ W >= 1 /\ E \in Nat /\ E >= 1 /\ Power[2 * FloatBytes] = W * E
      /\ PackMax \in Nat /\ PackExpMax \in Nat
  BY <1>1, WordSizes, WidthsAreInts
<1>3. n \in Nat /\ n < W * E
  <2>1. W * E \in Nat
    BY <1>2
  <2> QED BY <1>2, <2>1 DEF Words
<1>4. PICK s, r : s = n \div W /\ r = n % W
  OBVIOUS
<1>5. s \in Nat /\ r \in 0..(W - 1) /\ n = s * W + r
  BY <1>2, <1>3, <1>4, DivRest
<1>6. s \in 0..(E - 1)
  <2>1. s < E
    BY <1>2, <1>3, <1>4, DivAtLeast
  <2> QED BY <1>2, <1>5, <2>1
<1>7. WrapTo(r, PackMax) \in (-PackMax - 1)..PackMax /\ WrapTo(r, PackMax) % W = r
  BY <1>1, <1>2, <1>5, RestComesBack
<1>8. WrapTo(s, PackExpMax) \in (-PackExpMax - 1)..PackExpMax /\ WrapTo(s, PackExpMax) % E = s
  BY <1>1, <1>2, <1>6, RestComesBack
<1>9. FromRaw(n) = [c |-> WrapTo(r, PackMax), e |-> WrapTo(s, PackExpMax)]
  BY <1>1, <1>4 DEF FromRaw
<1>10. FromRaw(n) \in PackedFloat
  BY <1>7, <1>8, <1>9 DEF PackedFloat, Packed, PackExp, PackMin, PackExpMin
<1>11. Raw(FromRaw(n)) = s * W + r
  BY <1>1, <1>7, <1>8, <1>9 DEF Raw
<1> QED BY <1>5, <1>10, <1>11

-----------------------------------------------------------------------------

(***************************************************************************)
(* A bigint has a shortest form.                                           *)
(***************************************************************************)
LEMMA ShortestDigits ==
  ASSUME NEW n \in Nat
  PROVE  /\ Shortest(n) \in 1..(n + 1) /\ n < Power[Shortest(n)]
         /\ Shortest(n) > 1 => n >= Power[Shortest(n) - 1]
<1> DEFINE Long == {k \in 1..(n + 1) : n < Power[k]}
<1>1. n + 1 \in Long
  <2>1. n + 1 \in Nat /\ (n + 1) + 1 <= Power[n + 1] /\ Power[n + 1] \in Nat
    BY PowerType
  <2> QED BY <2>1
<1>2. Long \subseteq Nat
  OBVIOUS
<1>3. PICK k \in Long : \A l \in Long : k <= l
  BY <1>1, <1>2, LeastNumber
<1>4. k > 1 => n >= Power[k - 1]
  <2>1. SUFFICES ASSUME k > 1 PROVE n >= Power[k - 1]
    OBVIOUS
  <2>2. k \in 1..(n + 1) /\ k \in Int
    BY <1>3
  <2>3. k - 1 \in 1..(n + 1) /\ k - 1 \in Nat /\ ~(k <= k - 1)
    BY <2>1, <2>2
  <2>4. k - 1 \notin Long
    BY <1>3, <2>3
  <2>5. ~(n < Power[k - 1]) /\ Power[k - 1] \in Nat
    BY <2>3, <2>4, PowerType
  <2> QED BY <2>5
<1>5. k \in 1..(n + 1) /\ n < Power[k]
  BY <1>3
<1>6. \E len \in 1..(n + 1) : n < Power[len] /\ (len > 1 => n >= Power[len - 1])
  BY <1>4, <1>5
<1> QED BY <1>6 DEF Shortest

(***************************************************************************)
(* A zero in front.                                                        *)
(***************************************************************************)
LEMMA ZeroInFront ==
  ASSUME NEW n \in Nat, NEW len \in Nat, n < Power[len]
  PROVE  <<0>> \o DigitsOf(n, len) = DigitsOf(n, len + 1)
<1>0. Radix \in Nat /\ Radix >= 1
  BY RealmsAssumption
<1>1. PICK s : s = DigitsOf(n, len)
  OBVIOUS
<1>2. s \in Seq(Nat) /\ Len(s) = len /\ s = [i \in 1..len |-> (n \div Power[len - i]) % Radix]
  BY <1>1, DigitsReadBack DEF DigitsOf
<1>3. PICK z : z = <<0>> \o s
  OBVIOUS
<1>4. z \in Seq(Nat) /\ Len(z) = len + 1
  BY <1>2, <1>3
<1>5. ASSUME NEW i \in 1..(len + 1) PROVE z[i] = (n \div Power[(len + 1) - i]) % Radix
  <2>1. CASE i = 1
    <3>1. z[1] = 0
      BY <1>2, <1>3
    <3>2. PICK p \in Nat : p = Power[len] /\ p >= 1
      BY PowerType
    <3>3. n \div p = 0
      <4>1. p * 0 <= n /\ n < p * (0 + 1)
        BY <3>2
      <4> QED BY <3>2, <4>1, DivUnique
    <3>4. 0 % Radix = 0
      BY <1>0, DivRest
    <3>5. (len + 1) - 1 = len
      OBVIOUS
    <3> QED BY <2>1, <3>1, <3>2, <3>3, <3>4, <3>5
  <2>2. CASE i # 1
    <3>1. i - 1 \in 1..len /\ len - (i - 1) = (len + 1) - i
      BY <2>2
    <3>2. z[i] = s[i - 1]
      BY <1>2, <1>3, <2>2
    <3> QED BY <1>2, <3>1, <3>2
  <2> QED BY <2>1, <2>2
<1>6. z = [i \in 1..(len + 1) |-> z[i]]
  BY <1>4
<1>7. z = [i \in 1..(len + 1) |-> (n \div Power[(len + 1) - i]) % Radix]
  BY <1>5, <1>6
<1> QED BY <1>1, <1>3, <1>7 DEF DigitsOf

(***************************************************************************)
(* An even number of digits write a bigint, and no more than a float has   *)
(* if it is a word.                                                        *)
(***************************************************************************)
LEMMA EvenDigitsOfBigint ==
  ASSUME NEW n \in Nat
  PROVE  \E len \in Nat : /\ EvenDigits(DigitsOf(n, Shortest(n))) = DigitsOf(n, len)
                          /\ n < Power[len] /\ len % 2 = 0 /\ (n \in Words <=> len <= 2 * FloatBytes)
<1>1. PICK k \in Nat : k = Shortest(n) /\ k >= 1 /\ n < Power[k] /\ (k > 1 => n >= Power[k - 1])
  <2>1. PICK k : k = Shortest(n)
    OBVIOUS
  <2>2. k \in 1..(n + 1) /\ n < Power[k] /\ (k > 1 => n >= Power[k - 1])
    BY <2>1, ShortestDigits
  <2> QED BY <2>1, <2>2
<1>2. PICK N \in Nat : N = 2 * FloatBytes /\ N >= 2 /\ N % 2 = 0 /\ Power[N] \in Nat
  <2>1. FloatBytes \in Nat /\ FloatBytes >= 1
    BY RealmsAssumption
  <2>2. 2 * FloatBytes \in Nat /\ 2 * FloatBytes >= 2 /\ (2 * FloatBytes) % 2 = 0
    BY <2>1
  <2> QED BY <2>2, PowerType
<1>3. n \in Words <=> n < Power[N]
  BY <1>2 DEF Words
<1>4. n \in Words <=> k <= N
  <2>1. k <= N => n < Power[N]
    <3>1. k <= N => Power[k] <= Power[N]
      BY <1>1, <1>2, PowerGrows
    <3>2. Power[k] \in Nat
      BY <1>1, PowerType
    <3> QED BY <1>1, <1>2, <3>1, <3>2
  <2>2. ~(k <= N) => ~(n < Power[N])
    <3>1. SUFFICES ASSUME ~(k <= N) PROVE ~(n < Power[N])
      OBVIOUS
    <3>2. k - 1 \in Nat /\ N <= k - 1 /\ k > 1
      BY <1>1, <1>2, <3>1
    <3>3. Power[N] <= Power[k - 1] /\ Power[k - 1] \in Nat
      BY <1>2, <3>2, PowerGrows, PowerType
    <3> QED BY <1>1, <1>2, <3>2, <3>3
  <2> QED BY <1>3, <2>1, <2>2
<1>5. PICK s : s = DigitsOf(n, k)
  OBVIOUS
<1>6. Len(s) = k
  BY <1>1, <1>5, DigitsReadBack
<1>7. CASE k % 2 = 1
  <2>1. EvenDigits(s) = DigitsOf(n, k + 1)
    BY <1>1, <1>5, <1>6, <1>7, ZeroInFront DEF EvenDigits
  <2>2. (k + 1) % 2 = 0 /\ k # N /\ k + 1 \in Nat
    BY <1>1, <1>2, <1>7
  <2>3. n < Power[k + 1]
    <3>1. Power[k] <= Power[k + 1] /\ Power[k] \in Nat /\ Power[k + 1] \in Nat
      BY <1>1, <2>2, PowerGrows, PowerType
    <3> QED BY <1>1, <3>1
  <2>4. k <= N <=> k + 1 <= N
    BY <1>1, <1>2, <2>2
  <2> QED BY <1>1, <1>2, <1>4, <1>5, <2>1, <2>2, <2>3, <2>4
<1>8. CASE k % 2 # 1
  <2>1. EvenDigits(s) = s
    BY <1>6, <1>8 DEF EvenDigits
  <2>2. k % 2 = 0
    BY <1>1, <1>8
  <2> QED BY <1>1, <1>2, <1>4, <1>5, <2>1, <2>2
<1> QED BY <1>7, <1>8

(***************************************************************************)
(* What a bigint becomes.                                                  *)
(***************************************************************************)
LEMMA BigintBecomes ==
  ASSUME NEW n \in Int
  PROVE  /\ n < 0 => TryFromBigint(n) = FloatError("AlloyFromHexError", "InvalidHexCharacter")
         /\ n \in Words => TryFromBigint(n) = Ok(FromRaw(n))
         /\ n >= 0 /\ n \notin Words => TryFromBigint(n) = Trap
<1>1. CASE n < 0
  <2>1. n \notin Words
    BY <1>1, WordSizes DEF Words
  <2> QED BY <1>1, <2>1 DEF TryFromBigint
<1>2. CASE n >= 0
  <2>1. n \in Nat
    BY <1>2
  <2>2. PICK len \in Nat :
          /\ EvenDigits(DigitsOf(n, Shortest(n))) = DigitsOf(n, len)
          /\ n < Power[len] /\ len % 2 = 0 /\ (n \in Words <=> len <= 2 * FloatBytes)
    BY <2>1, EvenDigitsOfBigint
  <2>3. PICK s : s = DigitsOf(n, len)
    OBVIOUS
  <2>4. Len(s) = len /\ ValueOf(s) = n
    BY <2>1, <2>2, <2>3, DigitsReadBack
  <2>5. TryFromBigint(n) = PaddedLeft(s)
    BY <1>2, <2>2, <2>3 DEF TryFromBigint
  <2>6. 2 * FloatBytes \in Nat
    BY WordSizes
  <2>7. PaddedLeft(s) = IF len <= 2 * FloatBytes THEN Ok(FromRaw(n)) ELSE Trap
    BY <2>2, <2>4, <2>6 DEF PaddedLeft
  <2> QED BY <1>2, <2>2, <2>5, <2>7
<1> QED BY <1>1, <1>2

-----------------------------------------------------------------------------

(***************************************************************************)
(* The word that a float's digits write is its own.                        *)
(***************************************************************************)
LEMMA HexOfFloat ==
  ASSUME NEW x \in PackedFloat
  PROVE  /\ AsHex(x).prefix = TRUE /\ Len(AsHex(x).digits) = 2 * FloatBytes
         /\ IsHex(AsHex(x).digits) /\ ValueOf(AsHex(x).digits) = Raw(x)
<1>1. PICK n, N : n = Raw(x) /\ N = 2 * FloatBytes
  OBVIOUS
<1>2. n \in Nat /\ N \in Nat /\ n < Power[N]
  <2>1. n \in Words /\ N \in Nat /\ Power[N] \in Nat
    BY <1>1, FloatOfWord, WordSizes
  <2> QED BY <1>1, <2>1 DEF Words
<1>3. PICK s : s = DigitsOf(n, N)
  OBVIOUS
<1>4. Len(s) = N /\ IsHex(s) /\ ValueOf(s) = n
  BY <1>2, <1>3, DigitsReadBack
<1>5. AsHex(x) = HexOf(TRUE, s)
  BY <1>1, <1>3 DEF AsHex
<1> QED BY <1>1, <1>4, <1>5 DEF HexOf

(***************************************************************************)
(* Hex strings and bigints made of floats.                                 *)
(***************************************************************************)
LEMMA BigintsOfFloats ==
  ASSUME NEW m \in {"as_hex", "try_to_bigint", "to_bigint"}, NEW x \in PackedFloat,
         NEW r, r = WordResult(<<m, x>>)
  PROVE  WordsSurvive(m, x, r)
<1>1. PICK h : h = AsHex(x)
  OBVIOUS
<1>2. /\ h.prefix = TRUE /\ Len(h.digits) = 2 * FloatBytes /\ IsHex(h.digits) /\ ValueOf(h.digits) = Raw(x)
  BY <1>1, HexOfFloat
<1>3. PICK n : n = Raw(x)
  OBVIOUS
<1>4. n \in Words /\ FromRaw(n) = x
  BY <1>3, FloatOfWord
<1>5. n \in Int
  BY <1>4, WordSizes DEF Words
<1>6. TryFromBigint(n) = Ok(x)
  BY <1>4, <1>5, BigintBecomes
<1>7. FromHex(h) = Ok(x)
  BY <1>2, <1>3, <1>4 DEF FromHex
<1>8. TryToBigint(x) = Ok(Big(n))
  BY <1>1, <1>2, <1>3 DEF TryToBigint
<1>9. CASE m = "as_hex"
  <2>1. r = Ok(h)
    BY <1>1, <1>9 DEF WordResult
  <2>2. r.value = h
    BY <2>1 DEF Ok
  <2> QED BY <1>2, <1>7, <1>9, <2>2 DEF WordsSurvive
<1>10. CASE m \in {"try_to_bigint", "to_bigint"}
  <2>1. r = Ok(Big(n))
    <3>1. m = "try_to_bigint" => r = TryToBigint(x)
      BY DEF WordResult
    <3>2. m = "to_bigint" => r = OrThrow(TryToBigint(x))
      BY DEF WordResult
    <3>3. OrThrow(Ok(Big(n))) = Ok(Big(n))
      BY DEF OrThrow, Ok
    <3> QED BY <1>8, <1>10, <3>1, <3>2, <3>3
  <2>2. r.result = "ok" /\ r.value.bigint = n
    BY <2>1 DEF Ok, Big
  <2>3. BigintIsWord(n, x)
    BY <1>3, <1>4 DEF BigintIsWord, Words
  <2> QED BY <1>6, <1>10, <2>2, <2>3 DEF WordsSurvive
<1> QED BY <1>9, <1>10

(***************************************************************************)
(* Floats made of bigints.                                                 *)
(***************************************************************************)
LEMMA FloatsOfBigints ==
  ASSUME NEW m \in {"try_from_bigint", "from_bigint"}, NEW n \in Int, NEW r, r = WordResult(<<m, n>>)
  PROVE  WordsSurvive(m, n, r)
<1>1. PICK g : g = TryFromBigint(n)
  OBVIOUS
<1>2. m = "try_from_bigint" => r = g
  BY <1>1 DEF WordResult
<1>3. m = "from_bigint" => r = OrThrow(g)
  BY <1>1 DEF WordResult
<1>4. CASE n < 0
  <2>1. g = FloatError("AlloyFromHexError", "InvalidHexCharacter")
    BY <1>1, <1>4, BigintBecomes
  <2>2. g.result = "err" /\ OrThrow(g).result = "throws"
    BY <2>1 DEF FloatError, OrThrow, Throws
  <2>3. r.result = IF m = "from_bigint" THEN "throws" ELSE "err"
    BY <1>2, <1>3, <2>2
  <2>4. m = "from_bigint" \/ m = "try_from_bigint"
    OBVIOUS
  <2> QED BY <1>4, <2>3, <2>4 DEF WordsSurvive
<1>5. CASE n \in Words
  <2>1. g = Ok(FromRaw(n)) /\ ~(n < 0)
    BY <1>1, <1>5, WordSizes, BigintBecomes DEF Words
  <2>2. r = Ok(FromRaw(n))
    <3>1. OrThrow(g) = g
      BY <2>1 DEF Ok, OrThrow
    <3> QED BY <1>2, <1>3, <2>1, <3>1
  <2>3. r.result = "ok" /\ r.value = FromRaw(n)
    BY <2>2 DEF Ok
  <2>4. BigintIsWord(n, FromRaw(n))
    BY <1>5, WordOfFloat DEF BigintIsWord, Words
  <2>5. n \in 0..(Power[2 * FloatBytes] - 1)
    BY <1>5 DEF Words
  <2> QED BY <2>1, <2>3, <2>4, <2>5 DEF WordsSurvive
<1>6. CASE n >= 0 /\ n \notin Words
  <2>1. g = Trap
    BY <1>1, <1>6, BigintBecomes
  <2>2. r.result # "ok"
    <3>1. OrThrow(g) = g
      BY <2>1 DEF Trap, OrThrow
    <3> QED BY <1>2, <1>3, <2>1, <3>1 DEF Trap
  <2>3. n \notin 0..(Power[2 * FloatBytes] - 1) /\ ~(n < 0)
    BY <1>6 DEF Words
  <2> QED BY <2>2, <2>3 DEF WordsSurvive
<1> QED BY <1>4, <1>5, <1>6

(***************************************************************************)
(* Floats made of hex strings.                                             *)
(***************************************************************************)
LEMMA FloatsOfHexes ==
  ASSUME NEW h \in Hexes, NEW r, r = WordResult(<<"from_hex", h>>)
  PROVE  WordsSurvive("from_hex", h, r)
<1>1. PICK s, N : s = h.digits /\ N = 2 * FloatBytes
  OBVIOUS
<1>2. s \in Seq(0..Radix) /\ Radix \in Nat /\ N \in Nat
  BY <1>1, RealmsAssumption, WordSizes
<1>3. r = FromHex(h)
  BY DEF WordResult
<1>4. CASE Len(s) = N /\ IsHex(s)
  <2>1. s \in Seq(Nat)
    <3>1. \A i \in 1..Len(s) : s[i] \in Nat
      BY <1>2
    <3> QED BY <1>2, <3>1
  <2>2. PICK n \in Nat : n = ValueOf(s) /\ n < Power[N] /\ DigitsOf(n, N) = s
    BY <1>4, <2>1, ValueHasTheDigits
  <2>3. n \in Words
    BY <1>1, <2>2, WordSizes DEF Words
  <2>4. r = Ok(FromRaw(n))
    BY <1>1, <1>3, <1>4, <2>2 DEF FromHex
  <2>5. r.result = "ok" /\ r.value = FromRaw(n)
    BY <2>4 DEF Ok
  <2>6. AsHex(FromRaw(n)).digits = DigitsOf(n, N)
    BY <1>1, <2>3, WordOfFloat DEF AsHex, HexOf
  <2> QED BY <1>1, <2>2, <2>5, <2>6 DEF WordsSurvive
<1>5. CASE ~(Len(s) = N /\ IsHex(s))
  <2>1. r.result = "err"
    BY <1>1, <1>3, <1>5 DEF FromHex, FloatError
  <2> QED BY <1>1, <1>5, <2>1 DEF WordsSurvive
<1> QED BY <1>4, <1>5

(***************************************************************************)
(* So the calls that need no EVM keep what they carry.                     *)
(***************************************************************************)
LEMMA WordsAreKept ==
  ASSUME NEW js \in WordCalls \cup HexCalls \cup BigCalls
  PROVE  BigintSurvives(js, WordResult(js))
<1>1. PICK r : r = WordResult(js)
  OBVIOUS
<1>2. CASE js \in WordCalls
  <2>1. PICK m \in {"as_hex", "try_to_bigint", "to_bigint"}, x \in Floats : js = <<m, x>>
    BY <1>2 DEF WordCalls
  <2>2. x \in PackedFloat
    BY CallersAssumption
  <2>3. WordsSurvive(m, x, r)
    BY <1>1, <2>1, <2>2, BigintsOfFloats
  <2>4. js[1] = m /\ js[2] = x /\ m \notin FixedInput
    BY <2>1 DEF FixedInput
  <2> QED BY <1>1, <2>3, <2>4 DEF BigintSurvives
<1>3. CASE js \in HexCalls
  <2>1. PICK h \in Hexes : js = <<"from_hex", h>>
    BY <1>3 DEF HexCalls
  <2>2. WordsSurvive("from_hex", h, r)
    BY <1>1, <2>1, FloatsOfHexes
  <2>3. js[1] = "from_hex" /\ js[2] = h /\ "from_hex" \notin FixedInput
    BY <2>1 DEF FixedInput
  <2> QED BY <1>1, <2>2, <2>3 DEF BigintSurvives
<1>4. CASE js \in BigCalls
  <2>1. PICK m \in {"try_from_bigint", "from_bigint"}, n \in Bigints : js = <<m, n>>
    BY <1>4 DEF BigCalls
  <2>2. n \in Int
    BY RealmsAssumption
  <2>3. WordsSurvive(m, n, r)
    BY <1>1, <2>1, <2>2, FloatsOfBigints
  <2>4. js[1] = m /\ js[2] = n /\ m \notin FixedInput
    BY <2>1 DEF FixedInput
  <2> QED BY <1>1, <2>3, <2>4 DEF BigintSurvives
<1> QED BY <1>1, <1>2, <1>3, <1>4

-----------------------------------------------------------------------------

(***************************************************************************)
(* The methods that need no EVM.                                           *)
(***************************************************************************)
WordMethods == {"as_hex", "try_to_bigint", "to_bigint", "from_hex", "try_from_bigint", "from_bigint"}

(***************************************************************************)
(* None of the calls that need no EVM is a method of the crate.            *)
(***************************************************************************)
LEMMA WordMethodsAreTheirOwn == WordMethods \cap DOMAIN Api = {}
<1>1. \A table \in Tables : WordMethods \cap DOMAIN table = {}
  BY DEF WordMethods, FixedMethods, Tables, ParseMethods, ExtremeMethods, DefaultMethods, FormatMethods,
         ComparisonMethods, InverseMethods, BoundMethods, OperatorMethods, RoundingMethods, SelectionMethods,
         NegMethods
<1> QED BY <1>1, Zenon DEF Api

(***************************************************************************)
(* A call of a method that takes a fixed point value.                      *)
(***************************************************************************)
IsFixedRequest(t, q) ==
  \E m \in MethodsOf(t, FromFixed), n \in Values, d \in Decimals : q = <<m, n, d>>

(***************************************************************************)
(* A request names a method, and takes a fixed point value if it is one of *)
(* those that do.                                                          *)
(***************************************************************************)
LEMMA RequestIsACall ==
  ASSUME NEW t \in Threads, NEW request \in Requests(t)
  PROVE  /\ request # <<>> /\ request[1] \in DOMAIN Api
         /\ Api[request[1]].fn \in FromFixed => IsFixedRequest(t, request)
<1> DEFINE P(q) == /\ q # <<>> /\ q[1] \in DOMAIN Api
                   /\ Api[q[1]].fn \in FromFixed => IsFixedRequest(t, q)
<1>1. ASSUME NEW functions, functions \cap FromFixed = {}, NEW m \in MethodsOf(t, functions), NEW x, NEW y
      PROVE  P(<<m>>) /\ P(<<m, x>>) /\ P(<<m, x, y>>)
  <2>1. m \in DOMAIN Api /\ Api[m].fn \notin FromFixed
    BY <1>1, MethodDecodes
  <2>2. <<m>>[1] = m /\ <<m, x>>[1] = m /\ <<m, x, y>>[1] = m
    OBVIOUS
  <2>3. <<m>> # <<>> /\ <<m, x>> # <<>> /\ <<m, x, y>> # <<>>
    OBVIOUS
  <2> QED BY <2>1, <2>2, <2>3
<1>2. ASSUME NEW m \in MethodsOf(t, FromFixed), NEW n \in Values, NEW d \in Decimals
      PROVE  P(<<m, n, d>>)
  <2>1. m \in DOMAIN Api
    BY MethodDecodes
  <2>2. <<m, n, d>>[1] = m /\ <<m, n, d>> # <<>>
    OBVIOUS
  <2>3. IsFixedRequest(t, <<m, n, d>>)
    BY DEF IsFixedRequest
  <2> QED BY <2>1, <2>2, <2>3
<1>3. \A functions \in {Constants, Unary, Binary, ToFixed, {"parse"}, {"formatDefault"}, {"format"}, {"formatAs"}} :
        functions \cap FromFixed = {}
  BY DEF Constants, Unary, Binary, ToFixed, FromFixed
<1> HIDE DEF P
<1>4. \A m \in MethodsOf(t, Constants) : P(<<m>>)
  BY <1>1, <1>3
<1>5. \A m \in MethodsOf(t, Unary) \cup MethodsOf(t, {"parse"}) \cup MethodsOf(t, {"formatDefault"}) :
        \A x : P(<<m, x>>)
  BY <1>1, <1>3
<1>6. \A m \in MethodsOf(t, Binary) \cup MethodsOf(t, ToFixed) \cup MethodsOf(t, {"format"})
                 \cup MethodsOf(t, {"formatAs"}) : \A x, y : P(<<m, x, y>>)
  BY <1>1, <1>3
<1>7. P(request)
  BY <1>2, <1>4, <1>5, <1>6 DEF Requests
<1> QED BY <1>7 DEF P

(***************************************************************************)
(* A fixed point bigint survives what comes back of its call.              *)
(***************************************************************************)
LEMMA FixedIsKept ==
  ASSUME NEW t \in Threads, NEW request \in Requests(t), request[1] \in FixedInput,
         NEW g, g = FloatError("Access", "AccessError") \/ g = MadeOf(request)
  PROVE  FixedSurvives(request[1], request[2], request[3], AsJs(request[1], g))
<1>1. PICK fn, returns : fn = Api[request[1]].fn /\ returns = Api[request[1]].returns
  OBVIOUS
<1>2. fn \in FromFixed
  BY <1>1, FixedInputFits
<1>3. PICK m \in MethodsOf(t, FromFixed), n \in Values, d \in Decimals : request = <<m, n, d>>
  BY <1>1, <1>2, RequestIsACall DEF IsFixedRequest
<1>4. request[1] = m /\ request[2] = n /\ request[3] = d /\ m \in FixedInput
  BY <1>3
<1>5. n \in 0..UintMax /\ d \in 0..(ExpMax - PackExpMax) /\ IsUint(n)
  BY CallersAssumption DEF IsUint
<1>6. CallsItsFunction(m, Method(fn, returns))
  BY <1>1, <1>4, MethodStandsFor
<1>7. m = "from_fixed_decimal" \/ m = "from_fixed_decimal_lossy"
  BY <1>4 DEF FixedInput
<1>8. PICK r : r = AsJs(m, g)
  OBVIOUS
<1>9. r.result = "err" => m = "from_fixed_decimal"
  <2>1. m = "from_fixed_decimal_lossy" => r.result # "err"
    BY <1>8 DEF AsJs, OrThrow, Throws
  <2> QED BY <1>7, <2>1
<1>10. ASSUME r.result = "ok"
       PROVE  LET x    == IF m = "from_fixed_decimal" THEN r.value ELSE r.value.float
                  back == ToFixedResult("toFixedDecimalLossy", x, d)
              IN  m = "from_fixed_decimal" \/ r.value.lossless => back = Fixed(n, TRUE)
  <2>1. g.result = "ok" /\ r = g
    BY <1>7, <1>8, <1>10 DEF AsJs, OrThrow, Throws
  <2>2. g = MadeOf(request)
    BY <2>1 DEF FloatError
  <2>3. PICK s : s = Result(Encode(request))
    OBVIOUS
  <2>4. s.status = "ok" /\ Matches(fn, returns, s) /\ r.value = ValueTold(returns, s)
    BY <1>1, <2>1, <2>2, <2>3, ValueOfMethod
  <2>5. s = FromFixedResult(fn, n, d)
    <3>1. Result(<<fn, n, d>>) = FromFixedResult(fn, n, d)
      BY <1>2 DEF Result, Constants, Unary, Binary, ToFixed, FromFixed
    <3>2. Encode(request) = <<fn, n, d>>
      <4>1. Encode(<<m, n, d>>) = <<Api[m].fn, n, d>>
        BY EncodedTuples
      <4> QED BY <1>1, <1>3, <1>4, <4>1
    <3> QED BY <2>3, <3>1, <3>2
  <2>6. CASE m = "from_fixed_decimal"
    <3>1. returns = "float" /\ fn = "fromFixedDecimalLossless"
      BY <1>6, <2>6 DEF CallsItsFunction, Method
    <3>2. r.value.c = s.c /\ r.value.e = s.e /\ s.lossless = TRUE
      BY <2>4, <3>1 DEF ValueTold, Matches, FloatOf
    <3>3. PICK x, back : x = r.value /\ back = ToFixedResult("toFixedDecimalLossy", x, d)
      OBVIOUS
    <3>4. x.c = s.c /\ x.e = s.e
      BY <3>2, <3>3
    <3>5. s.lossless => back = Fixed(n, TRUE)
      BY <1>2, <1>5, <2>4, <2>5, <3>3, <3>4, FixedComesBack
    <3> QED BY <2>6, <3>2, <3>3, <3>5
  <2>7. CASE m = "from_fixed_decimal_lossy"
    <3>1. returns = "floatFlag"
      BY <1>6, <2>7 DEF CallsItsFunction, Method
    <3>2. r.value.float.c = s.c /\ r.value.float.e = s.e /\ r.value.lossless = s.lossless
      BY <2>4, <3>1 DEF ValueTold, FloatOf
    <3>3. PICK x, back : x = r.value.float /\ back = ToFixedResult("toFixedDecimalLossy", x, d)
      OBVIOUS
    <3>4. x.c = s.c /\ x.e = s.e
      BY <3>2, <3>3
    <3>5. s.lossless => back = Fixed(n, TRUE)
      BY <1>2, <1>5, <2>4, <2>5, <3>3, <3>4, FixedComesBack
    <3> QED BY <2>7, <3>2, <3>3, <3>5
  <2> QED BY <1>7, <2>6, <2>7
<1>11. FixedSurvives(m, n, d, r)
  BY <1>5, <1>9, <1>10 DEF FixedSurvives
<1> QED BY <1>4, <1>8, <1>11

-----------------------------------------------------------------------------

(***************************************************************************)
(* The inductive invariant of the realms: a page that waits for a call of  *)
(* the crate waits for the one its thread makes, and what it is shown      *)
(* keeps the value.                                                        *)
(***************************************************************************)
PageInv(t) ==
  /\ pc[t] # "idle" => page[t] = asked[t] /\ shown[t] = NoResult
  /\ shown[t] # NoResult => BigintSurvives(page[t], shown[t])

JsInv == DOMAIN page = Realms /\ DOMAIN shown = Realms /\ \A t \in Realms : PageInv(t)

(***************************************************************************)
(* No realm has called.                                                    *)
(***************************************************************************)
LEMMA JsInvInit == JsInit => JsInv
<1> SUFFICES ASSUME JsInit PROVE JsInv
  OBVIOUS
<1>1. /\ page = [t \in Realms |-> <<>>] /\ shown = [t \in Realms |-> NoResult]
      /\ pc = [t \in Threads |-> "idle"]
  BY DEF JsInit, ClientInit
<1>2. \A t \in Realms : t \in Threads
  BY RealmsAssumption
<1> QED BY <1>1, <1>2 DEF JsInv, PageInv

(***************************************************************************)
(* A fixed point bigint that is no uint256 is refused.                     *)
(***************************************************************************)
LEMMA RefusalSurvives ==
  ASSUME NEW t \in Realms, NEW js \in FixedCalls(t), ~IsUint(js[2])
  PROVE  BigintSurvives(js, AsJs(js[1], FloatError("AlloyParseError", "U256")))
<1>1. PICK m \in FixedInput, n \in Bigints, d \in Decimals : js = <<m, n, d>>
  BY DEF FixedCalls
<1>2. PICK g : g = FloatError("AlloyParseError", "U256")
  OBVIOUS
<1>3. PICK r : r = AsJs(m, g)
  OBVIOUS
<1>4. r.result # "ok" /\ (r.result = "err" => m # "from_fixed_decimal_lossy")
  <2>1. g.result = "err"
    BY <1>2 DEF FloatError
  <2> QED BY <1>3, <2>1 DEF AsJs, OrThrow, Throws
<1>5. m = "from_fixed_decimal" \/ m = "from_fixed_decimal_lossy"
  BY <1>1 DEF FixedInput
<1>6. FixedSurvives(m, n, d, r)
  BY <1>2, <1>3, <1>4, <1>5 DEF FixedSurvives
<1>7. js[1] = m /\ js[2] = n /\ js[3] = d /\ Len(js) # 2
  BY <1>1
<1> QED BY <1>2, <1>3, <1>6, <1>7 DEF BigintSurvives

(***************************************************************************)
(* Whatever a call of the crate returns to a page keeps the value.         *)
(***************************************************************************)
LEMMA AnswerSurvives ==
  ASSUME NEW t \in Threads, NEW request \in Requests(t),
         NEW g, g = FloatError("Access", "AccessError") \/ g = MadeOf(request)
  PROVE  BigintSurvives(request, AsJs(request[1], g))
<1>1. request[1] \notin WordMethods
  BY RequestIsACall, WordMethodsAreTheirOwn
<1>2. PICK r : r = AsJs(request[1], g)
  OBVIOUS
<1>3. WordsSurvive(request[1], request[2], r)
  BY <1>1 DEF WordsSurvive, WordMethods
<1>4. request[1] \in FixedInput => FixedSurvives(request[1], request[2], request[3], r)
  BY <1>2, FixedIsKept
<1> QED BY <1>2, <1>3, <1>4 DEF BigintSurvives

(***************************************************************************)
(* Each step of a thread, and of a page, keeps the invariant.              *)
(***************************************************************************)
LEMMA JsInvStep == ClientInv /\ ClientInv' /\ JsInv /\ [JsNext]_<<clientVars, jsVars>> => JsInv'
<1> SUFFICES ASSUME ClientInv, ClientInv', JsInv, [JsNext]_<<clientVars, jsVars>> PROVE JsInv'
  OBVIOUS
<1>0. /\ Realms \subseteq Threads /\ DOMAIN pc = Threads /\ DOMAIN asked = Threads /\ DOMAIN got = Threads
      /\ DOMAIN page = Realms /\ DOMAIN shown = Realms /\ \A t \in Realms : PageInv(t)
  BY RealmsAssumption DEF ClientInv, JsInv
<1>a. \A t \in Threads : pc[t] # "idle" => asked[t] \in Requests(t) /\ asked[t] # <<>>
  BY RequestIsACall DEF ClientInv, CallInv
<1>1. ASSUME NEW t \in Threads \ Realms, RustCalls(t) PROVE JsInv'
  <2>1. UNCHANGED <<page, shown>>
    BY <1>1 DEF RustCalls, jsVars
  <2>2. \A s \in Threads : s # t => pc'[s] = pc[s] /\ asked'[s] = asked[s]
    BY <1>0, <1>1 DEF RustCalls, Invoke, Take, DestroyLocal
  <2> QED BY <1>0, <2>1, <2>2 DEF JsInv, PageInv
<1>2. ASSUME NEW t \in Realms, NEW js, NEW r, Waits(t), Shown(t, js, r), UNCHANGED clientVars,
             BigintSurvives(js, r)
      PROVE  JsInv'
  <2>1. UNCHANGED <<pc, asked>>
    BY <1>2 DEF clientVars
  <2>2. pc[t] = "idle"
    BY <1>0, <1>a, <1>2 DEF Waits, PageInv
  <2>3. /\ DOMAIN page' = Realms /\ DOMAIN shown' = Realms /\ page'[t] = js /\ shown'[t] = r
        /\ \A s \in Realms : s # t => page'[s] = page[s] /\ shown'[s] = shown[s]
    BY <1>0, <1>2 DEF Shown
  <2> QED BY <1>0, <1>2, <2>1, <2>2, <2>3 DEF JsInv, PageInv
<1>3. ASSUME NEW t \in Realms, NEW request, Invoke(t, request), Shown(t, request, NoResult)
      PROVE  JsInv'
  <2>1. /\ asked'[t] = request
        /\ \A s \in Threads : s # t => pc'[s] = pc[s] /\ asked'[s] = asked[s]
    BY <1>0, <1>3 DEF Invoke
  <2>2. /\ DOMAIN page' = Realms /\ DOMAIN shown' = Realms /\ page'[t] = request /\ shown'[t] = NoResult
        /\ \A s \in Realms : s # t => page'[s] = page[s] /\ shown'[s] = shown[s]
    BY <1>0, <1>3 DEF Shown
  <2> QED BY <1>0, <2>1, <2>2 DEF JsInv, PageInv
<1>4. ASSUME NEW t \in Realms, JsFinish(t) PROVE JsInv'
  <2>1. /\ pc[t] = "returned" /\ pc'[t] = "idle"
        /\ \A s \in Threads : s # t => pc'[s] = pc[s] /\ asked'[s] = asked[s]
    BY <1>0, <1>4 DEF JsFinish, Take
  <2>2. PICK r : r = AsJs(page[t][1], got[t])
    OBVIOUS
  <2>3. /\ DOMAIN page' = Realms /\ DOMAIN shown' = Realms /\ page'[t] = page[t] /\ shown'[t] = r
        /\ \A s \in Realms : s # t => page'[s] = page[s] /\ shown'[s] = shown[s]
    BY <1>0, <1>4, <2>2 DEF JsFinish, Shown
  <2>4. page[t] = asked[t] /\ asked[t] \in Requests(t)
    BY <1>0, <1>a, <2>1 DEF PageInv
  <2>5. got[t] = FloatError("Access", "AccessError") \/ got[t] = MadeOf(asked[t])
    BY <1>0, <2>1 DEF ClientInv, CallInv
  <2>6. BigintSurvives(page[t], r)
    BY <1>0, <2>2, <2>4, <2>5, AnswerSurvives
  <2> QED BY <1>0, <2>1, <2>3, <2>6 DEF JsInv, PageInv
<1>5. ASSUME NEW t \in Realms, JsTake(t) PROVE JsInv'
  <2>1. UNCHANGED <<pc, asked>>
    BY <1>5 DEF JsTake, clientVars
  <2>2. pc[t] = "idle"
    BY <1>0, <1>5 DEF JsTake, PageInv
  <2>3. /\ DOMAIN page' = Realms /\ DOMAIN shown' = Realms /\ shown'[t] = NoResult
        /\ \A s \in Realms : s # t => page'[s] = page[s] /\ shown'[s] = shown[s]
    BY <1>0, <1>5 DEF JsTake, Shown
  <2> QED BY <1>0, <2>1, <2>2, <2>3 DEF JsInv, PageInv
<1>6. ASSUME NEW t \in Realms, JsCalls(t) PROVE JsInv'
  <2>1. CASE JsWord(t)
    BY <1>2, <2>1, WordsAreKept DEF JsWord
  <2>2. CASE JsRefuse(t)
    BY <1>2, <2>2, RefusalSurvives DEF JsRefuse
  <2>3. CASE JsInvokeFixed(t)
    BY <1>3, <2>3 DEF JsInvokeFixed
  <2>4. CASE JsInvoke(t)
    BY <1>3, <2>4 DEF JsInvoke
  <2> QED BY <1>4, <1>5, <1>6, <2>1, <2>2, <2>3, <2>4 DEF JsCalls
<1>7. ASSUME NEW t \in Threads, EnterDestroyed(t) \/ EnterAlive(t) \/ RunCall(t) \/ Process(t), UNCHANGED jsVars
      PROVE  JsInv'
  <2>1. UNCHANGED <<page, shown, asked>>
    BY <1>7 DEF EnterDestroyed, EnterAlive, RunCall, Process, jsVars
  <2>2. pc[t] # "idle" /\ \A s \in Threads : s # t => pc'[s] = pc[s]
    BY <1>0, <1>7 DEF EnterDestroyed, EnterAlive, RunCall, Process
  <2> QED BY <1>0, <2>1, <2>2 DEF JsInv, PageInv
<1>8. CASE UNCHANGED <<clientVars, jsVars>>
  <2>1. UNCHANGED <<pc, asked, page, shown>>
    BY <1>8 DEF clientVars, jsVars
  <2> QED BY <1>0, <2>1 DEF JsInv, PageInv
<1> QED BY <1>1, <1>6, <1>7, <1>8 DEF JsNext

(***************************************************************************)
(* A bigint or a hex string and the float it stands for are one number, in *)
(* both directions, for floats of any width; a larger or negative bigint,  *)
(* and a text that is no word, are never taken for a float; a fixed point  *)
(* bigint comes back unchanged if nothing was reported lost, whatever      *)
(* other threads and realms do (js_api.rs).                                *)
(***************************************************************************)
THEOREM BigintsAreKept == JsSpec => []BigintsKeepTheirValue
<1>1. JsInv => BigintsKeepTheirValue
  BY DEF JsInv, PageInv, BigintsKeepTheirValue
<1>2. JsSpec => []ClientInv
  BY JsIsClientSafe, ClientIsInvariant, PTL
<1> QED
  BY <1>1, <1>2, JsInvInit, JsInvStep, PTL DEF JsSpec
=============================================================================
