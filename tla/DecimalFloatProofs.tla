------------------------- MODULE DecimalFloatProofs -------------------------
(***************************************************************************)
(* For every width, and all floats callers may hold: what the calls of the *)
(* contract return.  The order is that of the theorems: documented errors, *)
(* arithmetic, comparison, sums, rounding, fixed point values, the reasons *)
(* of range errors, parsing, formatting, and equal arguments.              *)
(***************************************************************************)
EXTENDS DecimalFloatCorrect, DecimalCallsProofs

-----------------------------------------------------------------------------
(***************************************************************************)
(* Calls.                                                                  *)
(***************************************************************************)
Asked == \/ call \in Unary \X PackedFloat
         \/ call \in Binary \X PackedFloat \X PackedFloat
         \/ call \in ToFixed \X PackedFloat \X (0..(ExpMax - PackExpMax))
         \/ call \in FromFixed \X (0..UintMax) \X (0..(ExpMax - PackExpMax))
         \/ call \in {"parse"} \X Texts
         \/ call \in {"formatDefault"} \X PackedFloat
         \/ call \in {"format"} \X PackedFloat \X FormatLimits
         \/ call \in {"formatAs"} \X PackedFloat \X BOOLEAN
         \/ fn \in Constants

Answered == call = Idle \/ (Asked /\ out = Result(call))

(***************************************************************************)
(* What a caller sees is what the function returns of its arguments.       *)
(***************************************************************************)
LEMMA CallsAreAnswered == Spec => []Answered
<1>1. Init => Answered
  BY DEF Init, Answered
<1>2. Answered /\ [Next]_vars => Answered'
  <2> SUFFICES ASSUME Answered, [Next]_vars PROVE Answered'
    OBVIOUS
  <2> USE CallersAssumption DEF Answer
  <2>1. CASE CallConstant
    <3>1. PICK c \in ConstantCalls : Answer(c)
      BY <2>1 DEF CallConstant
    <3>2. c[1] \in Constants
      BY DEF ConstantCalls
    <3> QED BY <3>1, <3>2 DEF Answered, Asked, fn
  <2>2. CASE CallUnary
    <3>1. PICK c \in UnaryCalls : Answer(c)
      BY <2>2 DEF CallUnary
    <3>2. c \in Unary \X PackedFloat
      BY DEF UnaryCalls
    <3> QED BY <3>1, <3>2 DEF Answered, Asked
  <2>3. CASE CallBinary
    <3>1. PICK c \in BinaryCalls : Answer(c)
      BY <2>3 DEF CallBinary
    <3>2. c \in Binary \X PackedFloat \X PackedFloat
      BY DEF BinaryCalls
    <3> QED BY <3>1, <3>2 DEF Answered, Asked
  <2>4. CASE CallToFixed
    <3>1. PICK c \in ToFixedCalls : Answer(c)
      BY <2>4 DEF CallToFixed
    <3>2. c \in ToFixed \X PackedFloat \X (0..(ExpMax - PackExpMax))
      BY DEF ToFixedCalls
    <3> QED BY <3>1, <3>2 DEF Answered, Asked
  <2>5. CASE CallFromFixed
    <3>1. PICK c \in FromFixedCalls : Answer(c)
      BY <2>5 DEF CallFromFixed
    <3>2. c \in FromFixed \X (0..UintMax) \X (0..(ExpMax - PackExpMax))
      BY DEF FromFixedCalls
    <3> QED BY <3>1, <3>2 DEF Answered, Asked
  <2>6. CASE CallParse
    <3>1. PICK c \in ParseCalls : Answer(c)
      BY <2>6 DEF CallParse
    <3>2. c \in {"parse"} \X Texts
      BY DEF ParseCalls
    <3> QED BY <3>1, <3>2 DEF Answered, Asked
  <2>9. CASE CallFormat
    <3>1. PICK c \in FormatCalls : Answer(c)
      BY <2>9 DEF CallFormat
    <3>2. c \in {"formatDefault"} \X PackedFloat
      BY DEF FormatCalls
    <3> QED BY <3>1, <3>2 DEF Answered, Asked
  <2>10. CASE CallFormatWithin
    <3>1. PICK c \in FormatWithinCalls : Answer(c)
      BY <2>10 DEF CallFormatWithin
    <3>2. c \in {"format"} \X PackedFloat \X FormatLimits
      BY DEF FormatWithinCalls
    <3> QED BY <3>1, <3>2 DEF Answered, Asked
  <2>11. CASE CallFormatAs
    <3>1. PICK c \in FormatAsCalls : Answer(c)
      BY <2>11 DEF CallFormatAs
    <3>2. c \in {"formatAs"} \X PackedFloat \X BOOLEAN
      BY DEF FormatAsCalls
    <3> QED BY <3>1, <3>2 DEF Answered, Asked
  <2>7. CASE TakeResult
    BY <2>7 DEF TakeResult, Answered
  <2>8. CASE UNCHANGED vars
    BY <2>8 DEF vars, Answered, Asked, fn
  <2> QED BY <2>1, <2>2, <2>3, <2>4, <2>5, <2>6, <2>7, <2>8, <2>9, <2>10, <2>11 DEF Next
<1> QED BY <1>1, <1>2, PTL DEF Spec

(***************************************************************************)
(* A call of one float.                                                    *)
(***************************************************************************)
LEMMA UnaryAnswer ==
  ASSUME Answered, call # Idle, fn \in Unary
  PROVE  /\ a \in PackedFloat /\ out = UnaryResult(fn, a)
         /\ a.c \in Packed /\ a.e \in PackExp
<1>1. Asked /\ out = Result(call)
  BY DEF Answered
<1>2. fn \notin Binary \cup ToFixed \cup FromFixed \cup Constants \cup Text
  BY DEF Unary, Binary, ToFixed, FromFixed, Constants, Text
<1>3. PICK f \in Unary, x \in PackedFloat : call = <<f, x>>
  BY <1>1, <1>2 DEF Asked, fn, Text
<1>4. Result(<<f, x>>) = UnaryResult(f, x)
  BY DEF Result, Constants, Unary, Binary, ToFixed, FromFixed
<1>5. fn = f /\ a = x
  BY <1>3 DEF fn, a
<1>6. out = UnaryResult(f, x)
  BY <1>1, <1>3, <1>4, Zenon
<1> QED BY <1>5, <1>6 DEF PackedFloat

(***************************************************************************)
(* A call of two floats.                                                   *)
(***************************************************************************)
LEMMA BinaryAnswer ==
  ASSUME Answered, call # Idle, fn \in Binary
  PROVE  /\ a \in PackedFloat /\ b \in PackedFloat /\ out = BinaryResult(fn, a, b)
         /\ a.c \in Packed /\ a.e \in PackExp /\ b.c \in Packed /\ b.e \in PackExp
<1>1. Asked /\ out = Result(call)
  BY DEF Answered
<1>2. fn \notin Unary \cup ToFixed \cup FromFixed \cup Constants \cup Text
  BY DEF Unary, Binary, ToFixed, FromFixed, Constants, Text
<1>3. PICK f \in Binary, x \in PackedFloat, y \in PackedFloat : call = <<f, x, y>>
  BY <1>1, <1>2 DEF Asked, fn, Text
<1>4. Result(<<f, x, y>>) = BinaryResult(f, x, y)
  BY DEF Result, Constants, Unary, Binary, ToFixed, FromFixed
<1>5. fn = f /\ a = x /\ b = y
  BY <1>3 DEF fn, a, b
<1>6. out = BinaryResult(f, x, y)
  BY <1>1, <1>3, <1>4, Zenon
<1> QED BY <1>5, <1>6 DEF PackedFloat

(***************************************************************************)
(* For all widths and all floats: no internal error reaches a caller, and  *)
(* division by zero is reported exactly for a zero divisor.                *)
(***************************************************************************)
THEOREM ErrorsAreDocumented == Spec => []OnlyDocumentedErrors
<1>1. Answered => OnlyDocumentedErrors
  <2> SUFFICES ASSUME Answered, call # Idle,
                      fn \in {"add", "sub", "mul", "div", "minus", "abs", "inv", "integer", "frac", "floor", "ceil"}
               PROVE  /\ out.status \in {"ok", "DivisionByZero", "ExponentOverflow", "ExponentUnderflow"}
                      /\ out.status = "DivisionByZero" <=>
                           ((fn = "div" /\ b.c = 0) \/ (fn = "inv" /\ a.c = 0))
    BY DEF OnlyDocumentedErrors, Done
  <2>1. CASE fn \in {"add", "sub", "mul", "div"}
    <3>1. /\ a.c \in Packed /\ a.e \in PackExp /\ b.c \in Packed /\ b.e \in PackExp
          /\ out = BinaryResult(fn, a, b)
      BY <2>1, BinaryAnswer DEF Binary
    <3>2. IF fn = "div" /\ b.c = 0 THEN out.status = "DivisionByZero" ELSE Good(out)
      BY <2>1, <3>1, OperationIsGood
    <3> QED BY <2>1, <3>2 DEF Good
  <2>2. CASE fn \in {"minus", "abs", "inv", "integer", "frac", "floor", "ceil"}
    <3>1. a.c \in Packed /\ a.e \in PackExp /\ out = UnaryResult(fn, a) /\ fn \in Unary
      BY <2>2, UnaryAnswer DEF Unary
    <3>2. IF fn = "inv" /\ a.c = 0 THEN out.status = "DivisionByZero" ELSE Good(out)
      BY <2>2, <3>1, UnaryIsGood
    <3> QED BY <2>2, <3>2 DEF Good
  <2> QED BY <2>1, <2>2
<1> QED BY <1>1, CallsAreAnswered, PTL

-----------------------------------------------------------------------------
(***************************************************************************)
(* Products, quotients and negations.                                      *)
(***************************************************************************)

(***************************************************************************)
(* The digits of a product.                                                *)
(***************************************************************************)
LEMMA ProductTruncates ==
  ASSUME NEW x, x.c \in Packed, x.e \in PackExp, NEW y, y.c \in Packed, y.e \in PackExp,
         NEW r, r = BinaryResult("mul", x, y), r.status = "ok"
  PROVE  /\ Sign(r.c) = Sign(x.c) * Sign(y.c)
         /\ x.c * y.c # 0 => Truncates(r, Abs(x.c * y.c), x.e + y.e)
<1>1. PICK n : n = Mul(x.c, x.e, y.c, y.e)
  OBVIOUS
<1>2. r = Packed224(n)
  BY <1>1 DEF BinaryResult
<1>3. x.c \in Int /\ y.c \in Int
  BY PackedIsRoomy
<1>4. CASE x.c = 0 \/ y.c = 0
  <2>1. n.c = 0
    BY <1>1, <1>4 DEF Mul, MaximizedZero, Num
  <2>2. r.c = 0
    BY <1>2, <2>1, PackedZero
  <2>3. x.c * y.c = 0
    BY <1>3, <1>4
  <2> QED BY <1>3, <1>4, <2>2, <2>3 DEF Sign
<1>5. CASE x.c # 0 /\ y.c # 0
  <2>1. PICK p : p = PackArithmeticResult(n.c, n.e) /\ p.status = "ok" /\ r.c = p.c /\ r.e = p.e /\ n.status = "ok"
    BY <1>2, PackedFrom
  <2>2. PICK u, ux, v, vx : u = x.c /\ ux = x.e /\ v = y.c /\ vx = y.e
    OBVIOUS
  <2>3. /\ u \in Packed /\ v \in Packed /\ u # 0 /\ v # 0 /\ ux \in PackExp /\ vx \in PackExp
        /\ n = Mul(u, ux, v, vx)
    BY <1>1, <1>5, <2>2
  <2>4. /\ p.c \in Packed /\ p.e \in PackExp /\ p.c # 0 /\ (p.c < 0 <=> (u < 0) # (v < 0))
        /\ CutDigits(Abs(p.c), p.e, Abs(u * v), ux + vx)
        /\ p.e = ux + vx \/ Abs(p.c) >= PackMax \div 10
    BY <2>1, <2>3, PackedProduct
  <2>5. p.c \in Int /\ u \in Int /\ v \in Int
    BY <2>3, <2>4, PackedIsRoomy
  <2>6. Sign(p.c) = Sign(u) * Sign(v)
    BY <2>3, <2>4, <2>5, SignOfProduct
  <2> QED BY <2>1, <2>2, <2>4, <2>6 DEF Truncates
<1> QED BY <1>4, <1>5

(***************************************************************************)
(* The digits of a negated number.                                         *)
(***************************************************************************)
LEMMA NegationPacks ==
  ASSUME NEW x \in Packed, NEW e \in PackExp, NEW r, r = Packed224(Num(-x, e)), r.status = "ok"
  PROVE  /\ x = PackMin => /\ Truncates(r, -x, e) /\ r.c > 0
         /\ x # PackMin => SameNumber(r.c, r.e, -x, e)
<1>1. /\ x \in Int /\ -x \in Coef /\ e \in Exp /\ e \in Int /\ e + D + 1 <= ExpMax /\ D \in Nat
      /\ PackMin = -PackMax - 1 /\ PackMax \in Nat /\ Reach = D + 1
  <2>1. e \in Int /\ e <= PackExpMax /\ PackExpMax \in Nat /\ e \in Exp
    BY Widths DEF PackExp, PackExpMin, Exp, ExpMin
  <2> QED BY <2>1, PackedIsRoomy, ExponentsFit, Widths, WidthsAreInts DEF PackMin, Reach
<1>2. PICK p : p = PackArithmeticResult(-x, e) /\ p.status = "ok" /\ r.c = p.c /\ r.e = p.e
  BY PackedFrom DEF Num
<1>3. PICK z \in Coef : z = -x /\ (z = 0 <=> x = 0)
  BY <1>1
<1>4. CASE x = 0
  <2>1. z = 0
    BY <1>4, <1>3
  <2>2. r.c = 0
    BY <1>2, <1>3, <2>1, ZeroPacks
  <2>3. x # PackMin
    BY <1>1, <1>4
  <2> QED BY <1>3, <2>1, <2>2, <2>3, Zenon DEF SameNumber
<1>5. CASE x # 0
  <2>1. z # 0
    BY <1>5, <1>3
  <2>2. /\ p.c \in Packed /\ p.c # 0 /\ (p.c < 0 <=> z < 0) /\ p.e \in PackExp
        /\ z \in Packed => p.c = z /\ p.e = e
        /\ \E k \in 0..(D + 1) :
              /\ p.e = e + k /\ Abs(p.c) = Abs(z) \div Pow10[k]
              /\ k = 0 => p.c = z
              /\ k > 0 => Abs(p.c) >= PackMax \div 10
    BY <1>1, <1>2, <1>3, <2>1, PackedNumber
  <2>3. CASE x = PackMin
    <3>1. z = PackMax + 1 /\ z \notin Packed /\ Abs(z) = -x
      BY <1>1, <1>3, <2>3, Widths DEF Packed, Abs
    <3>2. PICK k \in 0..(D + 1) : /\ p.e = e + k /\ Abs(p.c) = (-x) \div Pow10[k]
                                  /\ k > 0 /\ Abs(p.c) >= PackMax \div 10
      <4>1. PICK k \in 0..(D + 1) : /\ p.e = e + k /\ Abs(p.c) = Abs(z) \div Pow10[k]
                                    /\ k = 0 => p.c = z
                                    /\ k > 0 => Abs(p.c) >= PackMax \div 10
        BY <2>2
      <4>2. k # 0
        <5>1. p.c # z
          BY <2>2, <3>1
        <5> QED BY <4>1, <5>1
      <4>3. k > 0
        BY <1>1, <4>2
      <4> QED BY <3>1, <4>1, <4>3
    <3>3. CutDigits(Abs(r.c), r.e, -x, e)
      BY <1>1, <1>2, <3>2 DEF CutDigits
    <3>4. r.c > 0
      BY <1>1, <1>2, <2>2, <3>1 DEF Packed
    <3> QED BY <1>2, <2>3, <3>2, <3>3, <3>4 DEF Truncates
  <2>4. CASE x # PackMin
    <3>1. z \in Packed
      BY <1>1, <1>3, <2>4 DEF Packed
    <3>2. r.c = -x /\ r.e = e
      BY <1>2, <1>3, <2>1, <2>2, <3>1
    <3>3. 0 \in 0..(D + 1) /\ Pow10[0] = 1 /\ e - e = 0 /\ -x * 1 = -x
      BY <1>1, Pow10Def
    <3> QED BY <1>1, <2>4, <3>2, <3>3 DEF SameNumber
  <2> QED BY <2>3, <2>4
<1> QED BY <1>4, <1>5

(***************************************************************************)
(* For all widths and all floats: what mul, div, inv, minus and abs return *)
(* is the exact product, quotient or negation, cut off once at the last    *)
(* digit an int224 holds.                                                  *)
(***************************************************************************)
THEOREM ArithmeticTruncates == Spec => []ResultsAreTruncated
<1>1. ASSUME Answered, Returned({"mul"}) PROVE ProductIsTruncated
  <2>1. call # Idle /\ fn = "mul" /\ out.status = "ok"
    BY <1>1 DEF Returned, Done
  <2>2. /\ a.c \in Packed /\ a.e \in PackExp /\ b.c \in Packed /\ b.e \in PackExp
        /\ out = BinaryResult("mul", a, b)
    BY <1>1, <2>1, BinaryAnswer DEF Binary
  <2> QED BY <2>1, <2>2, ProductTruncates DEF ProductIsTruncated
<1>2. ASSUME Answered, Returned({"div"}) PROVE TruncatesQuotient(out, a, b)
  <2>1. call # Idle /\ fn = "div" /\ out.status = "ok"
    BY <1>2 DEF Returned, Done
  <2>2. /\ a.c \in Packed /\ a.e \in PackExp /\ b.c \in Packed /\ b.e \in PackExp
        /\ out = BinaryResult("div", a, b)
    BY <1>2, <2>1, BinaryAnswer DEF Binary
  <2>3. PICK x, ex, y, ey : x = a.c /\ ex = a.e /\ y = b.c /\ ey = b.e
    OBVIOUS
  <2>4. PICK n : n = Div(x, ex, y, ey)
    OBVIOUS
  <2>5. out = Packed224(n)
    BY <2>2, <2>3, <2>4 DEF BinaryResult
  <2>6. x \in Coef /\ ex \in Roomy /\ y \in Coef /\ ey \in Roomy /\ x \in Int /\ y \in Int
    BY <2>2, <2>3, PackedIsRoomy
  <2>7. y # 0
    <3>1. n.status = "ok"
      BY <2>1, <2>5, PackedFrom
    <3>2. n.status = IF y = 0 THEN "DivisionByZero" ELSE "ok"
      BY <2>4, <2>6, DivIsGood
    <3> QED BY <3>1, <3>2
  <2>8. CASE x = 0
    <3>1. n.c = 0
      BY <2>4, <2>7, <2>8 DEF Div, MaximizedZero, Num
    <3>2. out.c = 0
      BY <2>1, <2>5, <3>1, PackedZero
    <3> QED BY <2>3, <2>6, <2>8, <3>2 DEF TruncatesQuotient, Sign
  <2>9. CASE x # 0
    <3>1. PICK A : A = Maximize(x, ex)
      OBVIOUS
    <3>2. ex \in Exp /\ ex \in Int
      BY <2>6, RoomySuffices
    <3>3. PICK i \in 0..D : A.e = ex - i /\ Abs(A.c) = Abs(x) * Pow10[i]
      BY <2>6, <2>9, <3>1, <3>2, MaximizedBy
    <3>4. PICK u \in Nat : u = Abs(x)
      BY <2>6 DEF Abs
    <3>5. /\ Sign(out.c) = Sign(x) * Sign(y) /\ Abs(out.c) >= PackMax \div 10
          /\ \E k \in 0..D : CutQuotient(Abs(out.c), out.e, u * Pow10[k], Abs(y), ex - k - ey)
      <4>1. Abs(A.c) = u * Pow10[i]
        BY <3>3, <3>4
      <4> QED BY <2>1, <2>2, <2>3, <2>4, <2>5, <2>6, <2>7, <2>9, <3>1, <3>2, <3>3, <4>1, QuotientTruncates
    <3> QED BY <2>3, <3>4, <3>5 DEF TruncatesQuotient
  <2> QED BY <2>8, <2>9
<1>3. ASSUME Answered, Returned({"inv"}) PROVE TruncatesQuotient(out, [c |-> 1, e |-> 0], a)
  <2>1. call # Idle /\ fn = "inv" /\ out.status = "ok"
    BY <1>3 DEF Returned, Done
  <2>2. a.c \in Packed /\ a.e \in PackExp /\ out = UnaryResult("inv", a)
    BY <1>3, <2>1, UnaryAnswer DEF Unary
  <2>3. PICK y, ey, t, et : y = a.c /\ ey = a.e /\ t = Pow10[D] /\ et = -D
    OBVIOUS
  <2>4. PICK n : n = Div(t, et, y, ey)
    OBVIOUS
  <2>5. out = Packed224(n)
    BY <2>2, <2>3, <2>4 DEF UnaryResult, Inv
  <2>6. y \in Coef /\ ey \in Roomy /\ ey \in Int /\ y \in Int /\ D \in Nat
        /\ t \in Coef /\ et \in Roomy /\ t # 0
    BY <2>2, <2>3, PackedIsRoomy, WidthsAreInts
  <2>7. y # 0
    <3>1. n.status = "ok"
      BY <2>1, <2>5, PackedFrom
    <3>2. n.status = IF y = 0 THEN "DivisionByZero" ELSE "ok"
      BY <2>4, <2>6, DivIsGood
    <3> QED BY <3>1, <3>2
  <2>8. PICK A, one, zero, i : A = Maximize(t, et) /\ one = 1 /\ zero = 0 /\ i = D
    OBVIOUS
  <2>9. et \in Exp /\ et \in Int /\ et = 0 - D
    BY <2>3, <2>6, RoomySuffices
  <2>10. A.e = et /\ Abs(A.c) = t /\ D \in 0..D
    <3>1. PICK k \in 0..D : A.c = t * Pow10[k] /\ A.e = et - k
      BY <2>6, <2>8, <2>9, MaximizedBy
    <3>2. A.c \in Coef
      BY <2>6, <2>8, <2>9, MaximizedNumber
    <3>3. /\ t \in Nat /\ t >= 1 /\ CoefMax \in Nat /\ CoefMax < t * 10
          /\ Pow10[0] = 1
      <4>1. Pow10[D] \in Nat /\ Pow10[D] >= 1
        BY PowersOfCoef, Pow10Grows
      <4>2. CoefMax \in Nat /\ CoefMax + 1 < Pow10[D] * 10
        BY PowersOfCoef
      <4> QED BY <2>3, <4>1, <4>2, Pow10Def
    <3>4. CASE k = 0
      BY <2>6, <2>9, <3>1, <3>3, <3>4 DEF Abs
    <3>5. CASE k # 0
      <4>1. 1 \in 0..(D + 1) /\ k \in 0..(D + 1) /\ 1 <= k
        BY <2>6, <3>5
      <4>2. Pow10[k] \in Nat /\ 10 <= Pow10[k]
        BY <4>1, Pow10Grows, Pow10Def
      <4>3. t * 10 <= t * Pow10[k]
        BY <3>3, <4>2, TimesGrows
      <4> QED BY <3>1, <3>2, <3>3, <4>2, <4>3, Widths DEF Coef
    <3> QED BY <2>6, <3>4, <3>5
  <2>11. /\ Sign(out.c) = Sign(t) * Sign(y) /\ Abs(out.c) >= PackMax \div 10
         /\ \E k \in 0..D : CutQuotient(Abs(out.c), out.e, one * Pow10[k], Abs(y), zero - k - ey)
    <3>1. Abs(A.c) = one * Pow10[i] /\ A.e = zero - i /\ one \in Nat /\ zero \in Int /\ i \in 0..D
      <4>1. Pow10[D] \in Nat
        BY PowersOfCoef, Pow10Grows
      <4> QED BY <2>3, <2>8, <2>9, <2>10, <4>1
    <3>2. A = Maximize(t, et) /\ out.status = "ok" /\ y \in Packed /\ ey \in PackExp
      BY <2>1, <2>2, <2>3, <2>8
    <3>3. \A f \in Int, u \in Nat, j \in 0..D :
             A.e = f - j /\ Abs(A.c) = u * Pow10[j] =>
               /\ Sign(out.c) = Sign(t) * Sign(y) /\ Abs(out.c) >= PackMax \div 10
               /\ \E k \in 0..D : CutQuotient(Abs(out.c), out.e, u * Pow10[k], Abs(y), f - k - ey)
      <4>1. t \in Coef /\ t # 0 /\ et \in Roomy /\ y \in Packed /\ y # 0 /\ ey \in PackExp /\ A = Maximize(t, et) /\ n = Div(t, et, y, ey) /\ out = Packed224(n) /\ out.status = "ok"
        BY <2>4, <2>5, <2>6, <2>7, <3>2
      <4> HIDE <2>3, <2>4, <2>5, <2>8
      <4>2. TAKE f \in Int, u \in Nat, j \in 0..D
      <4>3. HAVE A.e = f - j /\ Abs(A.c) = u * Pow10[j]
      <4>4. Maximize(t, et).e = f - j /\ Abs(Maximize(t, et).c) = u * Pow10[j] /\ out = Packed224(Div(t, et, y, ey))
        BY <4>1, <4>3
      <4>5. f \in Int /\ u \in Nat /\ j \in 0..D
        BY <4>2
      <4>6. \E k \in 0..D : /\ Sign(out.c) = Sign(t) * Sign(y) /\ Abs(out.c) >= PackMax \div 10
                            /\ CutQuotient(Abs(out.c), out.e, u * Pow10[k], Abs(y), f - k - ey)
        BY <4>1, <4>4, <4>5, QuotientTruncates
      <4> QED BY <4>6
    <3> HIDE <2>8
    <3> QED BY <3>1, <3>3
  <2>12. Sign(t) = 1 /\ Sign(1) = 1 /\ Abs(1) = 1
    <3>1. t \in Nat /\ t >= 1
      BY <2>3, PowersOfCoef, Pow10Grows
    <3> QED BY <3>1 DEF Sign, Abs
  <2>13. PICK x : x = [c |-> 1, e |-> 0]
    OBVIOUS
  <2>14. x.c = 1 /\ x.e = 0
    BY <2>13
  <2> QED BY <2>3, <2>8, <2>11, <2>12, <2>13, <2>14 DEF TruncatesQuotient
<1>4. ASSUME Answered, Returned({"minus", "abs"}) PROVE NegationIsExact
  <2>1. call # Idle /\ fn \in {"minus", "abs"} /\ out.status = "ok"
    BY <1>4 DEF Returned, Done
  <2>2. a.c \in Packed /\ a.e \in PackExp /\ out = UnaryResult(fn, a)
    BY <1>4, <2>1, UnaryAnswer DEF Unary
  <2>3. PICK x, e : x = a.c /\ e = a.e
    OBVIOUS
  <2>4. x \in Packed /\ e \in PackExp /\ x \in Int /\ x # CoefMin /\ PackMin < 0
    <3>1. PackMin < 0
      BY Widths DEF PackMin
    <3> QED BY <2>2, <2>3, <3>1, PackedIsRoomy
  <2>5. Minus(x, e) = Num(-x, e)
    BY <2>4 DEF Minus
  <2>6. CASE fn = "minus" \/ x < 0
    <3>1. out = Packed224(Num(-x, e))
      BY <2>1, <2>2, <2>3, <2>5, <2>6 DEF UnaryResult, AbsOf
    <3>2. /\ x = PackMin => Truncates(out, -x, e) /\ out.c > 0
          /\ x # PackMin => SameNumber(out.c, out.e, -x, e)
      BY <2>1, <2>4, <3>1, NegationPacks
    <3>3. -1 * x = -x
      BY <2>4
    <3>4. (IF fn = "minus" \/ x < 0 THEN -1 ELSE 1) = -1
      BY <2>6
    <3>5. IF x = PackMin THEN Truncates(out, -x, e) /\ out.c > 0
                         ELSE SameNumber(out.c, out.e, -1 * x, e)
      BY <3>2, <3>3, Zenon
    <3>6. CASE x = PackMin
      BY <2>3, <3>5, <3>6 DEF NegationIsExact
    <3>7. CASE x # PackMin
      <4>1. PICK s : s = IF fn = "minus" \/ x < 0 THEN -1 ELSE 1
        OBVIOUS
      <4>2. SameNumber(out.c, out.e, s * x, e)
        BY <2>4, <3>4, <3>5, <3>7, <4>1
      <4> QED BY <2>3, <3>7, <4>1, <4>2 DEF NegationIsExact
    <3> QED BY <3>6, <3>7
  <2>7. CASE ~(fn = "minus" \/ x < 0)
    <3>1. out = Packed224(Num(x, e)) /\ x # PackMin
      BY <2>1, <2>2, <2>3, <2>4, <2>7 DEF UnaryResult, AbsOf
    <3>2. PICK p : p = PackArithmeticResult(x, e) /\ p.status = "ok" /\ out.c = p.c /\ out.e = p.e
      BY <2>1, <3>1, PackedFrom DEF Num
    <3>3. SameNumber(out.c, out.e, x, e)
      <4>1. CASE x = 0
        BY <3>2, <4>1, ZeroPacks DEF SameNumber
      <4>2. CASE x # 0
        <5>1. e + D + 1 <= ExpMax /\ e \in Exp /\ x \in Coef /\ e \in Int
          <6>1. e \in Int /\ e <= PackExpMax /\ PackExpMax \in Nat /\ e \in Exp
            BY <2>4, Widths DEF PackExp, PackExpMin, Exp, ExpMin
          <6> QED BY <2>4, <6>1, PackedIsRoomy, ExponentsFit, WidthsAreInts
        <5>2. out.c = x /\ out.e = e
          BY <2>4, <3>2, <4>2, <5>1, PackedNumber
        <5>3. 0 \in 0..(D + 1) /\ Pow10[0] = 1 /\ e - e = 0 /\ x * 1 = x /\ 0 <= Reach
          BY <2>4, <5>1, Pow10Def, WidthsAreInts DEF Reach
        <5> QED BY <5>1, <5>2, <5>3 DEF SameNumber
      <4> QED BY <4>1, <4>2
    <3>4. 1 * x = x
      BY <2>4
    <3> QED BY <2>1, <2>3, <2>7, <3>1, <3>3, <3>4 DEF NegationIsExact
  <2> QED BY <2>6, <2>7
<1>5. Answered => ResultsAreTruncated
  <2>1. ASSUME Answered PROVE ProductIsTruncated
    BY <1>1, <2>1 DEF ProductIsTruncated
  <2>2. ASSUME Answered PROVE QuotientIsTruncated
    BY <1>2, <1>3, <2>2, Zenon DEF QuotientIsTruncated
  <2>3. ASSUME Answered PROVE NegationIsExact
    BY <1>4, <2>3 DEF NegationIsExact
  <2> QED BY <2>1, <2>2, <2>3 DEF ResultsAreTruncated
<1> QED BY <1>5, CallsAreAnswered, PTL

(***************************************************************************)
(* The same of mul alone.                                                  *)
(***************************************************************************)
THEOREM ProductsAreCutOnce == Spec => []ProductIsTruncated
<1>1. ResultsAreTruncated => ProductIsTruncated
  BY DEF ResultsAreTruncated
<1> QED BY <1>1, ArithmeticTruncates, PTL

-----------------------------------------------------------------------------
(***************************************************************************)
(* A call that compares two floats.                                        *)
(***************************************************************************)
LEMMA ComparisonAnswer ==
  ASSUME Answered, call # Idle,
         NEW less, less = LessNumber(a.c, a.e, b.c, b.e),
         NEW same, same = SameNumber(a.c, a.e, b.c, b.e)
  PROVE  /\ fn = "eq"  => out.holds = same
         /\ fn = "lt"  => out.holds = less
         /\ fn = "gt"  => out.holds = (~less /\ ~same)
         /\ fn = "lte" => out.holds = (less \/ same)
         /\ fn = "gte" => out.holds = ~less
         /\ fn \in {"min", "max"} =>
              \/ out.c = a.c /\ out.e = a.e /\ (same \/ less = (fn = "min"))
              \/ out.c = b.c /\ out.e = b.e /\ (same \/ less = (fn = "max"))
<1> SUFFICES ASSUME fn \in {"eq", "lt", "gt", "lte", "gte", "min", "max"}
             PROVE  /\ fn = "eq"  => out.holds = same
                    /\ fn = "lt"  => out.holds = less
                    /\ fn = "gt"  => out.holds = (~less /\ ~same)
                    /\ fn = "lte" => out.holds = (less \/ same)
                    /\ fn = "gte" => out.holds = ~less
                    /\ fn \in {"min", "max"} =>
                         \/ out.c = a.c /\ out.e = a.e /\ (same \/ less = (fn = "min"))
                         \/ out.c = b.c /\ out.e = b.e /\ (same \/ less = (fn = "max"))
  OBVIOUS
<1>1. /\ a.c \in Packed /\ a.e \in PackExp /\ b.c \in Packed /\ b.e \in PackExp
      /\ out = BinaryResult(fn, a, b)
  BY BinaryAnswer DEF Binary
<1>2. PICK r : r = Rescaled(a, b)
  OBVIOUS
<1>3. /\ r[1] \in Int /\ r[2] \in Int /\ less \in BOOLEAN /\ same \in BOOLEAN
      /\ less <=> r[1] < r[2]
      /\ same <=> r[1] = r[2]
  BY <1>1, <1>2, PairCompares
<1>4. /\ Lt(a, b) = less /\ Eq(a, b) = same /\ Gt(a, b) = (~less /\ ~same)
      /\ (r[1] <= r[2]) = (less \/ same) /\ (r[1] >= r[2]) = ~less
  <2>1. /\ Lt(a, b) <=> r[1] < r[2]
        /\ Eq(a, b) <=> r[1] = r[2]
        /\ Gt(a, b) <=> r[1] > r[2]
    BY <1>2 DEF Lt, Eq, Gt
  <2>2. Lt(a, b) \in BOOLEAN /\ Eq(a, b) \in BOOLEAN /\ Gt(a, b) \in BOOLEAN
    BY DEF Lt, Eq, Gt
  <2>3. /\ Gt(a, b) <=> ~less /\ ~same
        /\ r[1] <= r[2] <=> less \/ same
        /\ r[1] >= r[2] <=> ~less
    BY <1>3, <2>1
  <2> QED BY <1>3, <2>1, <2>2, <2>3
<1>5. \A p : Holds(p).holds = p
  BY DEF Holds
<1>6. /\ fn = "eq"  => out = Holds(Eq(a, b))
      /\ fn = "lt"  => out = Holds(Lt(a, b))
      /\ fn = "gt"  => out = Holds(Gt(a, b))
      /\ fn = "lte" => out = Holds(r[1] <= r[2])
      /\ fn = "gte" => out = Holds(r[1] >= r[2])
      /\ fn = "min" => out = Packs(IF Lt(a, b) THEN a ELSE b)
      /\ fn = "max" => out = Packs(IF Gt(a, b) THEN a ELSE b)
  BY <1>1, <1>2 DEF BinaryResult
<1>7. CASE fn \in {"eq", "lt", "gt", "lte", "gte"}
  BY <1>4, <1>5, <1>6, <1>7
<1>8. CASE fn = "min"
  <2>1. CASE less
    <3>1. out = Packs(a)
      BY <1>3, <1>4, <1>6, <1>8, <2>1
    <3> QED BY <1>8, <2>1, <3>1, <1>3 DEF Packs
  <2>2. CASE ~less
    <3>1. out = Packs(b)
      BY <1>3, <1>4, <1>6, <1>8, <2>2
    <3>2. out.c = b.c /\ out.e = b.e /\ less = FALSE /\ (fn = "max") = FALSE
      BY <1>3, <1>8, <2>2, <3>1 DEF Packs
    <3> QED BY <1>8, <3>2, Zenon
  <2> QED BY <2>1, <2>2
<1>9. CASE fn = "max"
  <2>1. CASE less \/ same
    <3>1. out = Packs(b)
      BY <1>3, <1>4, <1>6, <1>9, <2>1
    <3> QED BY <1>9, <2>1, <3>1, <1>3 DEF Packs
  <2>2. CASE ~less /\ ~same
    <3>1. out = Packs(a)
      BY <1>3, <1>4, <1>6, <1>9, <2>2
    <3>2. out.c = a.c /\ out.e = a.e /\ less = FALSE /\ (fn = "min") = FALSE
      BY <1>3, <1>9, <2>2, <3>1 DEF Packs
    <3> QED BY <1>9, <3>2, Zenon
  <2> QED BY <2>1, <2>2
<1> QED BY <1>7, <1>8, <1>9

(***************************************************************************)
(* For all widths and all floats: comparisons order floats as the numbers  *)
(* they hold, min and max return the extreme argument, isZero and sub know *)
(* zero, whatever the representations.                                     *)
(***************************************************************************)
THEOREM ComparisonOrdersFloats == Spec => []ComparisonIsExact
<1>1. Answered => ComparisonIsExact
  <2> SUFFICES ASSUME Answered PROVE ComparisonIsExact
    OBVIOUS
  <2>1. PICK less, same : less = LessNumber(a.c, a.e, b.c, b.e) /\ same = SameNumber(a.c, a.e, b.c, b.e)
    OBVIOUS
  <2>2. Returned({"sub"}) => (out.c = 0) = same
    <3> SUFFICES ASSUME Returned({"sub"}) PROVE (out.c = 0) = same
      OBVIOUS
    <3>1. call # Idle /\ fn = "sub" /\ out.status = "ok"
      BY DEF Returned, Done
    <3>2. /\ a.c \in Packed /\ a.e \in PackExp /\ b.c \in Packed /\ b.e \in PackExp
          /\ out = BinaryResult("sub", a, b)
      BY <3>1, BinaryAnswer DEF Binary
    <3>3. out.c = 0 <=> SameNumber(a.c, a.e, b.c, b.e)
      BY <3>1, <3>2, DifferenceIsZero
    <3>4. SameNumber(a.c, a.e, b.c, b.e) \in BOOLEAN
      BY DEF SameNumber
    <3> QED BY <2>1, <3>3, <3>4
  <2>3. Done({"isZero"}) => out.holds = SameNumber(a.c, a.e, 0, 0)
    <3> SUFFICES ASSUME Done({"isZero"}) PROVE out.holds = SameNumber(a.c, a.e, 0, 0)
      OBVIOUS
    <3>1. call # Idle /\ fn = "isZero"
      BY DEF Done
    <3>2. a.c \in Packed /\ a.e \in PackExp /\ out = UnaryResult("isZero", a)
      BY <3>1, UnaryAnswer DEF Unary
    <3>3. out.holds = (a.c = 0)
      BY <3>2 DEF UnaryResult, Holds
    <3>4. SameNumber(a.c, a.e, 0, 0) <=> a.c = 0
      BY <3>2, ZeroIsZero
    <3>5. SameNumber(a.c, a.e, 0, 0) \in BOOLEAN
      BY DEF SameNumber
    <3> QED BY <3>3, <3>4, <3>5
  <2>4. Done({"min", "max"}) =>
           \/ SameNumber(out.c, out.e, a.c, a.e) /\ (same \/ less = (fn = "min"))
           \/ SameNumber(out.c, out.e, b.c, b.e) /\ (same \/ less = (fn = "max"))
    <3> SUFFICES ASSUME Done({"min", "max"})
                 PROVE  \/ SameNumber(out.c, out.e, a.c, a.e) /\ (same \/ less = (fn = "min"))
                        \/ SameNumber(out.c, out.e, b.c, b.e) /\ (same \/ less = (fn = "max"))
      OBVIOUS
    <3>1. call # Idle /\ fn \in {"min", "max"} /\ fn \in Binary
      BY DEF Done, Binary
    <3>2. a.c \in Packed /\ a.e \in PackExp /\ b.c \in Packed /\ b.e \in PackExp
      BY <3>1, BinaryAnswer
    <3>3. SameNumber(a.c, a.e, a.c, a.e) /\ SameNumber(b.c, b.e, b.c, b.e)
      BY <3>2, SameAsItself
    <3>4. \/ out.c = a.c /\ out.e = a.e /\ (same \/ less = (fn = "min"))
          \/ out.c = b.c /\ out.e = b.e /\ (same \/ less = (fn = "max"))
      BY <2>1, <3>1, ComparisonAnswer
    <3> QED BY <3>3, <3>4
  <2>5. /\ Done({"eq"})  => out.holds = same
        /\ Done({"lt"})  => out.holds = less
        /\ Done({"gt"})  => out.holds = (~less /\ ~same)
        /\ Done({"lte"}) => out.holds = (less \/ same)
        /\ Done({"gte"}) => out.holds = ~less
    BY <2>1, ComparisonAnswer DEF Done
  <2> HIDE DEF Done, Returned
  <2> QED BY <2>1, <2>2, <2>3, <2>4, <2>5, Zenon DEF ComparisonIsExact
<1> QED BY <1>1, CallsAreAnswered, PTL

(***************************************************************************)
(* For all widths and all floats: add and sub are within one unit of the   *)
(* last place of the exact sum, also when the operands cancel.             *)
(***************************************************************************)
THEOREM SumsAreClose == Spec => []SumIsWithinOneUnit
<1>1. Answered => SumIsWithinOneUnit
  <2> SUFFICES ASSUME Answered, Returned({"add", "sub"}),
                      NEW m, m = IF out.e < SumExponent THEN out.e ELSE SumExponent
               PROVE  Abs(ExactSum * ten[SumExponent - m] - out.c * ten[out.e - m]) < ten[out.e - m]
    BY DEF SumIsWithinOneUnit
  <2>1. call # Idle /\ fn \in {"add", "sub"} /\ out.status = "ok"
    BY DEF Returned, Done
  <2>2. /\ a.c \in Packed /\ a.e \in PackExp /\ b.c \in Packed /\ b.e \in PackExp
        /\ out = BinaryResult(fn, a, b)
    BY <2>1, BinaryAnswer DEF Binary
  <2>3. PICK S, N : S = SumExponent /\ N = ExactSum
    OBVIOUS
  <2>4. /\ N \in Int /\ S \in PackExp
        /\ out.c \in Packed /\ out.e \in PackExp
        /\ Abs(N * ten[S - Low] - InUnits(out.c, out.e, Low)) < ten[out.e - Low]
    BY <2>1, <2>2, <2>3, SumAnswer DEF SumExponent, ExactSum
  <2>5. PICK c \in Int, e \in Int, s \in Int, z \in Int :
          c = out.c /\ e = out.e /\ s = S /\ z = Low /\ z <= e /\ z <= s
    BY <2>4, PackedIsRoomy, LowIsBelow
  <2>6. m \in Int /\ z <= m /\ m <= e /\ m <= s
    BY <2>3, <2>5
  <2>7. PICK A \in Int, B \in Int, C \in Nat, w \in Nat :
          /\ A = N * ten[s - m] /\ B = c * ten[e - m] /\ C = ten[e - m] /\ w = ten[m - z] /\ w >= 1
          /\ N * ten[s - z] = A * w /\ c * ten[e - z] = B * w /\ ten[e - z] = C * w
    <3>1. /\ InUnits(N, s, m) \in Int /\ InUnits(N, s, z) = InUnits(N, s, m) * ten[m - z]
          /\ InUnits(c, e, m) \in Int /\ InUnits(c, e, z) = InUnits(c, e, m) * ten[m - z]
          /\ ten[m - z] \in Nat /\ ten[m - z] >= 1
      BY <2>4, <2>5, <2>6, SmallerUnits
    <3>2. ten[e - m] \in Nat /\ ten[e - z] = ten[e - m] * ten[m - z]
      <4>1. e - m \in Nat /\ m - z \in Nat /\ (e - m) + (m - z) = e - z
        BY <2>5, <2>6
      <4>2. ten[(e - m) + (m - z)] = ten[e - m] * ten[m - z]
        BY <4>1, TenAdds
      <4>3. ten[e - m] \in Nat
        BY <4>1, TenType
      <4> QED BY <4>1, <4>2, <4>3
    <3> QED BY <3>1, <3>2 DEF InUnits
  <2>8. Abs(A * w - B * w) < C * w
    BY <2>4, <2>5, <2>7 DEF InUnits
  <2>9. Abs(A - B) < C
    <3>1. PICK d \in Int, u \in Nat : d = A - B /\ u = Abs(d)
      BY DEF Abs
    <3>2. d * w = A * w - B * w
      BY <3>1
    <3>3. Abs(d * w) = u * w
      BY <2>7, <3>1, TimesMagnitude
    <3>4. u * w < C * w
      BY <2>8, <3>2, <3>3
    <3> QED BY <2>7, <3>1, <3>4, FactorCompares
  <2> QED BY <2>3, <2>5, <2>7, <2>9
<1> QED BY <1>1, CallsAreAnswered, PTL

(***************************************************************************)
(* The lowest of the exponents.                                            *)
(***************************************************************************)
LEMMA LowestIsBelow ==
  ASSUME a.e \in Int, out.e \in Int
  PROVE  Lowest \in Int /\ Lowest <= a.e /\ Lowest <= out.e /\ Lowest <= 0
<1>1. PICK x \in Int, y \in Int : x = a.e /\ y = out.e
  OBVIOUS
<1>2. \E m \in {x, y, 0} : \A n \in {x, y, 0} : m <= n
  <2>1. CASE x <= y /\ x <= 0
    BY <2>1
  <2>2. CASE y <= x /\ y <= 0
    BY <2>2
  <2>3. CASE 0 <= x /\ 0 <= y
    BY <2>3
  <2> QED BY <2>1, <2>2, <2>3
<1>3. Lowest \in {x, y, 0} /\ \A n \in {x, y, 0} : Lowest <= n
  BY <1>1, <1>2 DEF Lowest
<1> QED BY <1>1, <1>3

(***************************************************************************)
(* floor and ceil return the nearest integer on their side.                *)
(***************************************************************************)
LEMMA RoundsToNearest == Answered => FloorAndCeilAreNearest
<1> SUFFICES ASSUME Answered, Done({"floor", "ceil", "integer", "frac"}),
                    NEW up, up = Units(out, Lowest) - Units(a, Lowest)
             PROVE  /\ out.status = "ok"
                    /\ fn # "frac" => IsInteger(out)
                    /\ fn = "floor" => up \in (1 - One)..0
                    /\ fn = "ceil"  => up \in 0..(One - 1)
                    /\ fn = "integer" => Abs(up) < One /\ up * Sign(a.c) <= 0
  BY DEF FloorAndCeilAreNearest
<1>1. call # Idle /\ fn \in {"floor", "ceil", "integer", "frac"}
  BY DEF Done
<1>2. a.c \in Packed /\ a.e \in PackExp /\ out = UnaryResult(fn, a)
  BY <1>1, UnaryAnswer DEF Unary
<1>3. a.c \in Int /\ a.e \in Int
  BY <1>2, PackedIsRoomy
<1>4. CASE fn = "frac"
  <2>1. PICK p : p = IntFrac(a.c, a.e)
    OBVIOUS
  <2>2. p.frac \in Packed
    <3>1. CASE a.e < 0
      BY <1>2, <2>1, <3>1, PartsOf
    <3>2. CASE a.e >= 0
      <4>1. ~(a.e < -D) /\ ~(a.e \in -D..-1)
        BY <1>3, <3>2, WidthsAreInts
      <4>2. p = [integer |-> a.c, frac |-> 0]
        BY <2>1, <3>2, <4>1 DEF IntFrac
      <4>3. 0 \in Packed
        BY WidthsAreInts DEF Packed, PackMin
      <4> QED BY <4>2, <4>3
    <3> QED BY <1>3, <3>1, <3>2
  <2>3. out = Packed224(Num(p.frac, a.e))
    BY <1>2, <1>4, <2>1 DEF UnaryResult
  <2>4. out.status = "ok"
    BY <1>2, <2>2, <2>3, PackedPacks
  <2> QED BY <1>4, <2>4
<1>5. CASE fn # "frac" /\ a.e >= 0
  <2>1. /\ out.status = "ok" /\ out.c = a.c /\ out.e \in {a.e, 0} /\ (out.c # 0 => out.e = a.e)
    BY <1>1, <1>2, <1>5, NothingToRound
  <2>2. IsInteger(out)
    BY <1>3, <1>5, <2>1 DEF IsInteger, FractionOf
  <2>3. PICK z \in Int : z = Lowest /\ z <= a.e /\ z <= out.e /\ z <= 0
    BY <1>3, <2>1, LowestIsBelow
  <2>4. up = 0
    <3>1. PICK v \in Int : v = Units(a, z)
      BY <1>3, <2>3, TenType DEF Units
    <3>2. Units(out, z) = v
      <4>1. CASE a.c # 0
        BY <2>1, <3>1, <4>1 DEF Units
      <4>2. CASE a.c = 0
        <5>1. ten[out.e - z] \in Nat /\ ten[a.e - z] \in Nat
          BY <1>3, <2>1, <2>3, TenType
        <5> QED BY <2>1, <3>1, <4>2, <5>1 DEF Units
      <4> QED BY <4>1, <4>2
    <3> QED BY <2>3, <3>1, <3>2
  <2>5. One \in Nat /\ One >= 1
    <3>1. -z \in Nat
      BY <2>3
    <3> QED BY <2>3, <3>1, TenType DEF One
  <2>6. up * Sign(a.c) = 0 /\ Abs(up) = 0
    BY <2>4 DEF Sign, Abs
  <2> QED BY <2>1, <2>2, <2>4, <2>5, <2>6
<1>6. CASE fn # "frac" /\ a.e < 0
  <2>1. PICK T \in Nat : T = ten[-a.e] /\ T >= 10
    BY <1>2, <1>6, PartsOf
  <2>2. PICK Q \in Int, d \in Int :
          /\ Whole(out, Q, a, d)
          /\ fn = "floor" => d \in (1 - T)..0
          /\ fn = "ceil" => d \in 0..(T - 1)
          /\ fn = "integer" => Abs(d) < T /\ (a.c >= 0 => d <= 0) /\ (a.c < 0 => d >= 0)
    BY <1>1, <1>2, <1>6, <2>1, RoundedAnswer
  <2>3. out.status = "ok" /\ out.e \in Int /\ IsInteger(out)
    <3>1. out.status = "ok" /\ \E j \in Nat : out.e = 0 - j
      BY <2>2 DEF Whole
    <3>2. IsInteger(out)
      BY <2>2, WholeIsInteger
    <3> QED BY <3>1, <3>2
  <2>4. PICK z \in Int : z = Lowest /\ z <= a.e /\ z <= out.e /\ z <= 0
    BY <1>3, <2>3, LowestIsBelow
  <2>5. PICK u \in Nat : /\ u >= 1 /\ ten[-z] = T * u
                         /\ InUnits(out.c, out.e, z) - InUnits(a.c, a.e, z) = d * u
    BY <1>3, <1>6, <2>1, <2>2, <2>4, WholeInUnits
  <2>6. up = d * u /\ One = T * u
    BY <2>4, <2>5 DEF Units, InUnits, One
  <2>7. fn = "floor" => up \in (1 - One)..0
    <3> SUFFICES ASSUME fn = "floor" PROVE up \in (1 - One)..0
      OBVIOUS
    <3>1. u * (1 - T) <= u * d /\ u * d <= u * 0
      BY <2>2, <2>5, TimesGrows
    <3>2. u * (1 - T) = u - T * u /\ u * d = d * u /\ u * 0 = 0
      OBVIOUS
    <3> QED BY <2>5, <2>6, <3>1, <3>2
  <2>8. fn = "ceil" => up \in 0..(One - 1)
    <3> SUFFICES ASSUME fn = "ceil" PROVE up \in 0..(One - 1)
      OBVIOUS
    <3>1. u * 0 <= u * d /\ u * d <= u * (T - 1)
      BY <2>2, <2>5, TimesGrows
    <3>2. u * (T - 1) = T * u - u /\ u * d = d * u /\ u * 0 = 0
      OBVIOUS
    <3> QED BY <2>5, <2>6, <3>1, <3>2
  <2>9. fn = "integer" => Abs(up) < One /\ up * Sign(a.c) <= 0
    <3> SUFFICES ASSUME fn = "integer" PROVE Abs(up) < One /\ up * Sign(a.c) <= 0
      OBVIOUS
    <3>1. PICK A \in Nat : A = Abs(d) /\ Abs(d * u) = A * u /\ A <= T - 1
      <4>1. Abs(d) \in Nat /\ Abs(d) < T
        BY <2>2 DEF Abs
      <4>2. Abs(d * u) = Abs(d) * u
        BY <2>2, <2>5, TimesMagnitude
      <4> QED BY <2>1, <4>1, <4>2
    <3>2. u * A <= u * (T - 1) /\ u * (T - 1) = T * u - u /\ u * A = A * u
      BY <2>1, <2>5, <3>1, TimesGrows
    <3>3. Abs(up) < One
      BY <2>5, <2>6, <3>1, <3>2
    <3>4. (d <= 0 => d * u <= 0) /\ (d >= 0 => d * u >= 0)
      <4>1. (d <= 0 => u * d <= u * 0) /\ (d >= 0 => u * 0 <= u * d)
        BY <2>5, TimesGrows
      <4> QED BY <4>1
    <3>5. up * Sign(a.c) <= 0
      <4>1. PICK s \in Int : s = Sign(a.c) /\ (a.c > 0 => s = 1) /\ (a.c < 0 => s = -1) /\ (a.c = 0 => s = 0)
        BY <1>3 DEF Sign
      <4>2. PICK v \in Int : v = up /\ v = d * u
        BY <2>6
      <4> QED BY <1>3, <2>2, <3>4, <4>1, <4>2
    <3> QED BY <3>3, <3>5
  <2> QED BY <1>6, <2>3, <2>7, <2>8, <2>9
<1> QED BY <1>3, <1>4, <1>5, <1>6

(***************************************************************************)
(* integer and frac split a number.                                        *)
(***************************************************************************)
LEMMA PartsAreParts == Answered => PartsAddUp
<1> SUFFICES ASSUME Answered, Done({"integer"}),
                    NEW f, f = UnaryResult("frac", a), NEW sum, sum = BinaryResult("add", out, f)
             PROVE  /\ sum.status = "ok" /\ SameNumber(sum.c, sum.e, a.c, a.e)
                    /\ Sign(out.c) * Sign(a.c) >= 0 /\ Sign(f.c) * Sign(a.c) >= 0
                    /\ LessNumber(Abs(f.c), f.e, 1, 0)
  BY DEF PartsAddUp
<1>1. call # Idle /\ fn = "integer" /\ fn \in Unary
  BY DEF Done, Unary
<1>2. a.c \in Packed /\ a.e \in PackExp /\ out = UnaryResult("integer", a)
  BY <1>1, UnaryAnswer
<1>3. PICK c \in Packed, e \in PackExp, p \in {IntFrac(a.c, a.e)} : c = a.c /\ e = a.e /\ p = IntFrac(c, e)
  BY <1>2
<1>4. /\ p.integer \in Packed /\ p.frac \in Packed /\ p.integer + p.frac = c
      /\ c >= 0 => p.integer >= 0 /\ p.frac >= 0
      /\ c < 0 => p.integer <= 0 /\ p.frac <= 0
      /\ e >= 0 => p.frac = 0
      /\ e < 0 => /\ -e \in Nat /\ Abs(p.frac) < ten[-e]
                  /\ p.integer # 0 => ten[-e] <= Abs(c)
  BY <1>3, PartsOfFloat
<1>5. PICK i \in Packed, g \in Packed : i = p.integer /\ g = p.frac
  BY <1>4
<1>6. c \in Int /\ e \in Int /\ i \in Int /\ g \in Int
  BY PackedIsRoomy
<1>7. out = Packed224(Num(i, e)) /\ f = Packed224(Num(g, e))
  BY <1>2, <1>3, <1>5 DEF UnaryResult
<1>8. /\ out.status = "ok" /\ out.c = i /\ out.e = IF i = 0 THEN 0 ELSE e
      /\ f.status = "ok" /\ f.c = g /\ f.e = IF g = 0 THEN 0 ELSE e
  <2>1. out.status = "ok" /\ out.c = i /\ out.e = IF i = 0 THEN 0 ELSE e
    BY <1>7, PackedPacks
  <2>2. f.status = "ok" /\ f.c = g /\ f.e = IF g = 0 THEN 0 ELSE e
    BY <1>7, PackedPacks
  <2> QED BY <2>1, <2>2
<1>9. sum.status = "ok" /\ SameNumber(sum.c, sum.e, c, e)
  <2>1. sum = Packed224(Add(i, IF i = 0 THEN 0 ELSE e, g, IF g = 0 THEN 0 ELSE e))
    BY <1>8 DEF BinaryResult
  <2>2. i + g = c /\ (i # 0 /\ g # 0 => e < 0 /\ ten[-e] <= Abs(c))
    BY <1>4, <1>5, <1>6
  <2> QED BY <2>1, <2>2, PartsJoin
<1>10. Sign(i) * Sign(c) >= 0 /\ Sign(g) * Sign(c) >= 0
  <2>1. CASE c > 0
    BY <1>4, <1>5, <1>6, <2>1 DEF Sign
  <2>2. CASE c < 0
    BY <1>4, <1>5, <1>6, <2>2 DEF Sign
  <2>3. CASE c = 0
    BY <1>6, <2>3 DEF Sign
  <2> QED BY <1>6, <2>1, <2>2, <2>3
<1>11. LessNumber(Abs(g), IF g = 0 THEN 0 ELSE e, 1, 0)
  <2>1. PICK m \in Int, h \in Int, o \in Int, z \in Int :
          m = Abs(g) /\ h = (IF g = 0 THEN 0 ELSE e) /\ o = 0 /\ z = h
    BY <1>6 DEF Abs
  <2>2. z <= h /\ z <= o
    BY <1>4, <1>5, <1>6, <2>1
  <2>3. 1 \in Int /\ (LessNumber(m, h, 1, o) <=> InUnits(m, h, z) < InUnits(1, o, z))
    BY <2>2, LessCompares
  <2>4. h - z = 0 /\ InUnits(m, h, z) = m
    <3>1. h - z = 0
      BY <2>1
    <3>2. m * 1 = m
      OBVIOUS
    <3> QED BY <3>1, <3>2, TenUnfolds DEF InUnits
  <2>5. m < InUnits(1, o, z)
    <3>1. CASE g = 0
      <4>1. m = 0 /\ o - z = 0
        BY <2>1, <3>1 DEF Abs
      <4>2. 1 * 1 = 1 /\ 0 < 1
        OBVIOUS
      <4> QED BY <4>1, <4>2, TenUnfolds DEF InUnits
    <3>2. CASE g # 0
      <4>1. ~(e >= 0)
        BY <1>4, <1>5, <3>2
      <4>2. e < 0 /\ m < ten[-e] /\ -e \in Nat
        BY <1>4, <1>5, <1>6, <2>1, <4>1
      <4>3. o - z = -e
        BY <1>6, <2>1, <3>2
      <4>4. ten[-e] \in Nat
        BY <4>2, TenType
      <4>5. 1 * ten[-e] = ten[-e]
        BY <4>4
      <4> QED BY <4>2, <4>3, <4>5 DEF InUnits
    <3> QED BY <3>1, <3>2
  <2> QED BY <2>1, <2>3, <2>4, <2>5
<1> QED BY <1>3, <1>8, <1>9, <1>10, <1>11

(***************************************************************************)
(* For all widths and all floats: floor and ceil return the nearest        *)
(* integer on their side, no rounding operation fails, and integer and     *)
(* frac are parts that add up to the number again.                         *)
(***************************************************************************)
THEOREM RoundingFindsIntegers == Spec => []RoundsToNextInteger
<1>1. Answered => RoundsToNextInteger
  BY RoundsToNearest, PartsAreParts DEF RoundsToNextInteger
<1> QED BY <1>1, CallsAreAnswered, PTL

-----------------------------------------------------------------------------
(***************************************************************************)
(* Fixed point values.                                                     *)
(***************************************************************************)

(***************************************************************************)
(* A call of fromFixedDecimal.                                             *)
(***************************************************************************)
LEMMA FromFixedAnswer ==
  ASSUME Answered, call # Idle, fn \in FromFixed
  PROVE  a \in 0..UintMax /\ b \in 0..(ExpMax - PackExpMax) /\ out = FromFixedResult(fn, a, b)
<1>1. Asked /\ out = Result(call)
  BY DEF Answered
<1>2. fn \notin Unary \cup Binary \cup ToFixed \cup Constants \cup Text
  BY DEF Unary, Binary, ToFixed, FromFixed, Constants, Text
<1>3. PICK f \in FromFixed, x \in 0..UintMax, y \in 0..(ExpMax - PackExpMax) : call = <<f, x, y>>
  BY <1>1, <1>2 DEF Asked, fn, Text
<1>4. Result(<<f, x, y>>) = FromFixedResult(f, x, y)
  BY DEF Result, Constants, Unary, Binary, ToFixed, FromFixed
<1>5. fn = f /\ a = x /\ b = y
  BY <1>3 DEF fn, a, b
<1>6. out = FromFixedResult(f, x, y)
  BY <1>1, <1>3, <1>4, Zenon
<1> QED BY <1>5, <1>6

(***************************************************************************)
(* A call of toFixedDecimal.                                               *)
(***************************************************************************)
LEMMA ToFixedAnswer ==
  ASSUME Answered, call # Idle, fn \in ToFixed
  PROVE  /\ a.c \in Packed /\ a.e \in PackExp /\ b \in 0..(ExpMax - PackExpMax)
         /\ out = ToFixedResult(fn, a, b)
<1>1. Asked /\ out = Result(call)
  BY DEF Answered
<1>2. fn \notin Unary \cup Binary \cup FromFixed \cup Constants \cup Text
  BY DEF Unary, Binary, ToFixed, FromFixed, Constants, Text
<1>3. PICK f \in ToFixed, x \in PackedFloat, y \in 0..(ExpMax - PackExpMax) : call = <<f, x, y>>
  BY <1>1, <1>2 DEF Asked, fn, Text
<1>4. Result(<<f, x, y>>) = ToFixedResult(f, x, y)
  BY DEF Result, Constants, Unary, Binary, ToFixed, FromFixed
<1>5. fn = f /\ a = x /\ b = y
  BY <1>3 DEF fn, a, b
<1>6. out = ToFixedResult(f, x, y)
  BY <1>1, <1>3, <1>4, Zenon
<1> QED BY <1>5, <1>6 DEF PackedFloat

(***************************************************************************)
(* toFixedDecimal returns the truncated value, with the right flag.        *)
(***************************************************************************)
LEMMA FixedDecimalIsCut == Answered => FixedDecimalIsTruncated
<1>1. SUFFICES ASSUME Answered, Done(ToFixed), a.c >= 0
               PROVE  LET shift    == a.e + b
                          exact    == IF shift >= 0 THEN a.c * ten[shift] ELSE a.c \div ten[-shift]
                          isExact  == shift >= 0 \/ a.c % ten[-shift] = 0
                      IN  CASE out.status = "ok" -> out.value = exact /\ out.lossless = isExact
                            [] out.status = "LossyConversionFromFloat" -> fn = "toFixedDecimalLossless" /\ ~isExact
                            [] OTHER -> out.status = "FixedDecimalOverflow" /\ exact > UintMax
  BY DEF FixedDecimalIsTruncated
<1>2. /\ a.c \in Packed /\ a.e \in PackExp /\ b \in 0..(ExpMax - PackExpMax) /\ fn \in ToFixed
      /\ out = ToFixedResult(fn, a, b)
  BY <1>1, ToFixedAnswer DEF Done
<1>3. PICK s, value : s = a.e + b /\ value = Scaled(a, s)
  OBVIOUS
<1>4. PICK exact \in BOOLEAN : exact = (s >= 0 \/ a.c % ten[-s] = 0)
  BY Zenon
<1>5. /\ out.status \in {"ok", "NegativeFixedDecimalConversion", "FixedDecimalOverflow", "LossyConversionFromFloat"}
      /\ out.status # "NegativeFixedDecimalConversion" /\ value \in Nat
      /\ out.status = "ok" =>
           /\ out = Fixed(value, out.lossless) /\ out.value = value /\ out.lossless \in BOOLEAN
           /\ out.lossless <=> s >= 0 \/ a.c % ten[-s] = 0
      /\ out.status = "FixedDecimalOverflow" => value > UintMax
      /\ out.status = "LossyConversionFromFloat" =>
           fn = "toFixedDecimalLossless" /\ ~(s >= 0 \/ a.c % ten[-s] = 0)
  BY <1>1, <1>2, <1>3, ToFixedTruncates
<1>6. value = IF s >= 0 THEN a.c * ten[s] ELSE a.c \div ten[-s]
  BY <1>3 DEF Scaled
<1>7. out.status = "ok" => out.lossless = exact
  BY <1>4, <1>5
<1>8. (CASE out.status = "ok" -> out.value = value /\ out.lossless = exact
         [] out.status = "LossyConversionFromFloat" -> fn = "toFixedDecimalLossless" /\ ~exact
         [] OTHER -> out.status = "FixedDecimalOverflow" /\ value > UintMax)
  <2>1. CASE out.status = "ok"
    BY <1>5, <1>7, <2>1
  <2>2. CASE out.status = "LossyConversionFromFloat"
    BY <1>4, <1>5, <2>2
  <2>3. CASE out.status = "FixedDecimalOverflow"
    BY <1>5, <2>3
  <2> QED BY <1>5, <2>1, <2>2, <2>3
<1> QED BY <1>3, <1>4, <1>6, <1>8

(***************************************************************************)
(* Fixed point values.  A float converts to the truncated fixed point      *)
(* value, with a flag that is right, and only a value above uint256 is     *)
(* refused.                                                                *)
(***************************************************************************)
THEOREM FixedPointTruncates == Spec => []FixedDecimalIsTruncated
BY CallsAreAnswered, FixedDecimalIsCut, PTL

(***************************************************************************)
(* A fixed point value goes through a float and back.                      *)
(***************************************************************************)
LEMMA ValuesComeBack == Answered => FixedDecimalRoundTrip
<1> SUFFICES ASSUME Answered, Returned(FromFixed),
                    NEW back, back = ToFixedResult("toFixedDecimalLossy", [c |-> out.c, e |-> out.e], b)
             PROVE  /\ back.status = "ok" /\ back.value <= a
                    /\ LessNumber(a, -b, out.c + 1, out.e)
                    /\ out.lossless => back = Fixed(a, TRUE)
  BY DEF FixedDecimalRoundTrip
<1>1. /\ a \in 0..UintMax /\ b \in 0..(ExpMax - PackExpMax) /\ out = FromFixedResult(fn, a, b)
      /\ fn \in FromFixed /\ out.status = "ok"
  BY FromFixedAnswer DEF Returned, Done
<1>2. PICK v, dec, f, r : v = a /\ dec = b /\ f = fn /\ r = out
  OBVIOUS
<1>3. PICK x : x = [c |-> out.c, e |-> out.e]
  OBVIOUS
<1>4. x.c = r.c /\ x.e = r.e /\ back = ToFixedResult("toFixedDecimalLossy", x, dec)
  BY <1>2, <1>3
<1>5. /\ v \in 0..UintMax /\ dec \in 0..(ExpMax - PackExpMax) /\ f \in FromFixed
      /\ r = FromFixedResult(f, v, dec) /\ r.status = "ok"
  BY <1>1, <1>2
<1>6. /\ back.status = "ok" /\ back.value <= v /\ LessNumber(v, -dec, r.c + 1, r.e)
      /\ r.lossless => back = Fixed(v, TRUE)
  BY <1>4, <1>5, FixedComesBack
<1> QED BY <1>2, <1>6

(***************************************************************************)
(* A fixed point value comes back from a float less than one unit of the   *)
(* float's last digit smaller, and unchanged if nothing was reported lost. *)
(***************************************************************************)
THEOREM FixedPointComesBack == Spec => []FixedDecimalRoundTrip
BY CallsAreAnswered, ValuesComeBack, PTL

-----------------------------------------------------------------------------
(***************************************************************************)
(* Errors of range have their reasons.                                     *)
(***************************************************************************)

(***************************************************************************)
(* The same for one call.                                                  *)
(***************************************************************************)
LEMMA RangeErrors == Answered => RangeErrorsAreReal
<1> SUFFICES ASSUME Answered, call # Idle, fn \in Unary \cup Binary \cup ToFixed \cup FromFixed
             PROVE  OverflowIsReal /\ UnderflowIsReal
  BY DEF RangeErrorsAreReal, Done
<1>1. CASE out.status # "ExponentOverflow" /\ out.status # "ExponentUnderflow"
  BY <1>1 DEF OverflowIsReal, UnderflowIsReal
<1>2. CASE fn \in {"add", "sub"}
  <2>1. a.c \in Packed /\ a.e \in PackExp /\ b.c \in Packed /\ b.e \in PackExp /\ out = BinaryResult(fn, a, b)
    BY <1>2, BinaryAnswer DEF Binary
  <2>2. /\ out.status = "ExponentOverflow" => PackMax * ten[PackExpMax - SumExponent] < Abs(ExactSum)
        /\ out.status = "ExponentUnderflow" =>
             LessNumber(Abs(ExactSum), SumExponent, PackMax + 2, PackExpMin - 1) /\ ExactSum # 0
    BY <1>2, <2>1, SumRange DEF SumExponent, ExactSum
  <2> QED BY <1>2, <2>2 DEF OverflowIsReal, UnderflowIsReal
<1>3. CASE fn = "mul"
  <2>1. a.c \in Packed /\ a.e \in PackExp /\ b.c \in Packed /\ b.e \in PackExp /\ out = BinaryResult("mul", a, b)
    BY <1>3, BinaryAnswer DEF Binary
  <2>2. /\ out.status = "ExponentOverflow" =>
             \E k \in 0..Reach : CutBy(a.c * b.c, k) /\ a.e + b.e + k > PackExpMax
        /\ out.status = "ExponentUnderflow" =>
             /\ a.c # 0 /\ b.c # 0
             /\ \E k \in 0..Reach : CutBy(a.c * b.c, k) /\ a.e + b.e + k < PackExpMin
    BY <2>1, ProductRange
  <2>3. \A k \in 0..Reach : CutBy(a.c * b.c, k) = ProductLoses(k)
    BY DEF CutBy, ProductLoses
  <2> QED BY <1>3, <2>2, <2>3 DEF OverflowIsReal, UnderflowIsReal
<1>4. CASE fn = "div"
  <2>1. a.c \in Packed /\ a.e \in PackExp /\ b.c \in Packed /\ b.e \in PackExp /\ out = BinaryResult("div", a, b)
    BY <1>4, BinaryAnswer DEF Binary
  <2>2. /\ out.status = "ExponentOverflow" =>
             LessNumber(PackMax * Abs(b.c), PackExpMax, Abs(a.c), a.e - b.e)
        /\ out.status = "ExponentUnderflow" =>
             /\ LessNumber(Abs(a.c), a.e - b.e, (PackMax + 2) * Abs(b.c), PackExpMin - 1)
             /\ a.c # 0
    BY <2>1, DivisionRange
  <2> QED BY <1>4, <2>2 DEF OverflowIsReal, UnderflowIsReal
<1>5. CASE fn = "inv"
  <2>1. a.c \in Packed /\ a.e \in PackExp /\ out = UnaryResult("inv", a)
    BY <1>5, UnaryAnswer DEF Unary
  <2>2. /\ out.status = "ExponentOverflow" => LessNumber(PackMax * Abs(a.c), PackExpMax, 1, -a.e)
        /\ out.status = "ExponentUnderflow" =>
             LessNumber(1, -a.e, (PackMax + 2) * Abs(a.c), PackExpMin - 1)
    BY <2>1, InverseRange
  <2> QED BY <1>5, <2>2 DEF OverflowIsReal, UnderflowIsReal
<1>6. CASE fn \in {"minus", "abs"}
  <2>1. a \in PackedFloat /\ out = UnaryResult(fn, a)
    BY <1>6, UnaryAnswer DEF Unary
  <2>2. /\ out.status = "ExponentOverflow" => a = [c |-> PackMin, e |-> PackExpMax]
        /\ out.status # "ExponentUnderflow"
    BY <1>6, <2>1, MinusRange
  <2> QED BY <1>6, <2>2 DEF OverflowIsReal, UnderflowIsReal
<1>7. CASE fn \in {"floor", "ceil", "integer", "frac"}
  <2>1. out.status = "ok"
    BY <1>7, RoundsToNearest DEF FloorAndCeilAreNearest, Done
  <2> QED BY <1>1, <2>1
<1>8. CASE fn = "isZero"
  <2>1. out = UnaryResult("isZero", a)
    BY <1>8, UnaryAnswer DEF Unary
  <2>2. out.status = "ok"
    BY <2>1 DEF UnaryResult, Holds
  <2> QED BY <1>1, <2>2
<1>9. CASE fn \in {"min", "max", "eq", "lt", "gt", "lte", "gte"}
  <2>1. out = BinaryResult(fn, a, b)
    BY <1>9, BinaryAnswer DEF Binary
  <2>2. out.status = "ok"
    BY <1>9, <2>1 DEF BinaryResult, Holds, Packs
  <2> QED BY <1>1, <2>2
<1>10. CASE fn \in ToFixed
  <2>1. PICK s, value : s = a.e + b /\ value = Scaled(a, s)
    OBVIOUS
  <2>2. out.status \in {"ok", "NegativeFixedDecimalConversion", "FixedDecimalOverflow", "LossyConversionFromFloat"}
    BY <1>10, <2>1, ToFixedAnswer, ToFixedTruncates
  <2> QED BY <1>1, <2>2
<1>11. CASE fn \in FromFixed
  <2>1. out.status \in {"ok", "CoefficientOverflow", "LossyConversionToFloat"}
    BY <1>11, FromFixedAnswer, FromFixedConverts
  <2> QED BY <1>1, <2>1
<1> QED BY <1>2, <1>3, <1>4, <1>5, <1>6, <1>7, <1>8, <1>9, <1>10, <1>11 DEF Unary, Binary

(***************************************************************************)
(* For all widths and all floats: add, sub, div, inv, minus and abs report *)
(* an overflow only of a number above the largest float, and underflow     *)
(* only below the smallest one with a full coefficient; mul reports either *)
(* only if the exact product, cut just until it fits an int224, has an     *)
(* exponent out of range; the other functions never report them.  That the *)
(* result has no float at all is not true: see OverflowIsReal.             *)
(***************************************************************************)
THEOREM RangeErrorsHaveReasons == Spec => []RangeErrorsAreReal
BY CallsAreAnswered, RangeErrors, PTL

-----------------------------------------------------------------------------
(***************************************************************************)
(* Texts.                                                                  *)
(***************************************************************************)

(***************************************************************************)
(* A call of parse.                                                        *)
(***************************************************************************)
LEMMA ParseAnswer ==
  ASSUME Answered, call # Idle, fn = "parse"
  PROVE  /\ a \in Scanned /\ (a.frac # NoDigits => a.point) /\ (a.exp # NoDigits => a.mark)
         /\ out = Parse(a)
<1>1. Asked /\ out = Result(call)
  BY DEF Answered
<1>2. fn \notin Unary \cup Binary \cup ToFixed \cup FromFixed \cup Constants
  BY DEF Unary, Binary, ToFixed, FromFixed, Constants
<1>3. PICK t \in Texts : call = <<"parse", t>>
  BY <1>1, <1>2 DEF Asked, fn, Text
<1>4. Result(<<"parse", t>>) = Parse(t)
  BY DEF Result, Constants, Unary, Binary, ToFixed, FromFixed
<1>5. a = t
  BY <1>3 DEF a
<1>6. out = Parse(t)
  BY <1>1, <1>3, <1>4, Zenon
<1> QED BY <1>5, <1>6, CallersAssumption

(***************************************************************************)
(* The number written in a text, as the lemmas on parsing name it.         *)
(***************************************************************************)
LEMMA WrittenNumber ==
  ASSUME NEW t
  PROVE  Written(t) = [c |-> SignedBy(t.minus, Magnitude(t)), e |-> t.exp.value - Strip(t.frac).len]
BY DEF Written, SignedBy, Magnitude

(***************************************************************************)
(* For all widths and all texts no longer than an exponent is large: a     *)
(* parsed float is exactly the number written.                             *)
(***************************************************************************)
THEOREM ParsingIsExact == Spec => []ParseIsExact
<1>1. Answered => ParseIsExact
  <2> SUFFICES ASSUME Answered, call # Idle, fn = "parse", out.status = "ok"
               PROVE  /\ AtMost(out.c, out.e, Written(a).c, Written(a).e)
                      /\ AtMost(Written(a).c, Written(a).e, out.c, out.e)
                      /\ a.minus => out.c <= 0
    BY DEF ParseIsExact, Returned, Done
  <2>1. /\ a \in Scanned /\ (a.frac # NoDigits => a.point) /\ (a.exp # NoDigits => a.mark)
        /\ out = Parse(a)
    BY ParseAnswer
  <2>2. PICK n, e : n = Written(a).c /\ e = Written(a).e
    OBVIOUS
  <2>3. n = SignedBy(a.minus, Magnitude(a)) /\ e = a.exp.value - Strip(a.frac).len
    BY <2>2, WrittenNumber
  <2>4. n \in Int /\ e \in Int /\ (a.minus => n <= 0) /\ out = Num(n, IF n = 0 THEN 0 ELSE e)
    BY <2>1, <2>3, ParseReads
  <2>5. CASE n = 0
    <3>1. out.c = 0
      BY <2>4, <2>5 DEF Num
    <3>2. ~LessNumber(0, out.e, 0, e) /\ ~LessNumber(0, e, 0, out.e)
      BY DEF LessNumber, Sign
    <3> QED BY <2>2, <2>5, <3>1, <3>2 DEF AtMost
  <2>6. CASE n # 0
    <3>1. out.c = n /\ out.e = e
      BY <2>4, <2>6 DEF Num
    <3>2. ~LessNumber(n, e, n, e)
      <4>1. PICK z \in Int : z = e /\ z <= e
        BY <2>4
      <4>2. InUnits(n, e, z) \in Int /\ (LessNumber(n, e, n, e) <=> InUnits(n, e, z) < InUnits(n, e, z))
        BY <2>4, <4>1, LessCompares
      <4> QED BY <4>2
    <3> QED BY <2>2, <2>4, <3>1, <3>2 DEF AtMost
  <2> QED BY <2>5, <2>6
<1> QED BY <1>1, CallsAreAnswered, PTL

(***************************************************************************)
(* For all widths and all texts no longer than an exponent is large:       *)
(* exactly the well formed texts are parsed whose number fits a float as   *)
(* it is written, and only too large a number reverts.                     *)
(***************************************************************************)
THEOREM ParsingRefusesTheRest == Spec => []ParseRefusesWhatItMust
<1>1. Answered => ParseRefusesWhatItMust
  <2> SUFFICES ASSUME Answered, Done({"parse"})
               PROVE  LET n == Written(a)
                      IN  /\ (out.status = "ok") = /\ WellFormed(a)
                                                   /\ n.c \in Packed /\ a.exp.value \in Exp
                                                   /\ n.c # 0 => n.e \in PackExp
                          /\ out.status \notin {"ok", "refused"} =>
                               out.status = "ExponentOverflow" /\ LessNumber(1, PackExpMax, Abs(n.c), n.e)
    BY Zenon DEF ParseRefusesWhatItMust
  <2>1. /\ a \in Scanned /\ (a.frac # NoDigits => a.point) /\ (a.exp # NoDigits => a.mark)
        /\ out = Parse(a)
    BY ParseAnswer DEF Done
  <2>2. PICK n, e : n = Written(a).c /\ e = Written(a).e
    OBVIOUS
  <2>3. n = SignedBy(a.minus, Magnitude(a)) /\ e = a.exp.value - Strip(a.frac).len
    BY <2>2, WrittenNumber
  <2>4. /\ out.status = "ok" <=> /\ HasDigits(a) /\ ~a.rest
                                 /\ n \in Packed /\ a.exp.value \in Exp /\ (n # 0 => e \in PackExp)
        /\ out.status \notin {"ok", "refused"} =>
             out.status = "ExponentOverflow" /\ LessNumber(1, PackExpMax, Abs(n), e)
    BY <2>1, <2>3, ParseReads
  <2>5. WellFormed(a) <=> HasDigits(a) /\ ~a.rest
    BY Zenon DEF HasDigits, WellFormed
  <2> QED BY <2>2, <2>4, <2>5
<1> QED BY <1>1, CallsAreAnswered, PTL

-----------------------------------------------------------------------------
(***************************************************************************)
(* Formatting.                                                             *)
(***************************************************************************)
(***************************************************************************)
(* A call of one of the three formatting functions.                        *)
(***************************************************************************)
LEMMA FormatAnswer ==
  ASSUME Answered, call # Idle, fn \in {"format", "formatAs", "formatDefault"}
  PROVE  /\ a \in PackedFloat
         /\ fn = "formatAs" => b \in BOOLEAN /\ out = ToDecimalString(a, b)
         /\ fn # "formatAs" => GivenLimits \in FormatLimits /\ out = FormatWithin(a, GivenLimits)
<1>1. Asked /\ out = Result(call)
  BY DEF Answered
<1>2. fn \notin Unary \cup Binary \cup ToFixed \cup FromFixed \cup Constants \cup {"parse"}
  BY DEF Unary, Binary, ToFixed, FromFixed, Constants
<1>3. CASE fn = "formatDefault"
  <2>1. PICK x \in PackedFloat : call = <<"formatDefault", x>>
    BY <1>1, <1>2, <1>3 DEF Asked, fn
  <2>2. Result(<<"formatDefault", x>>) = FormatWithin(x, DefaultLimits)
    BY DEF Result, Constants, Unary, Binary, ToFixed, FromFixed
  <2>3. a = x
    BY <2>1 DEF a
  <2>4. out = FormatWithin(x, DefaultLimits)
    BY <1>1, <2>1, <2>2, Zenon
  <2> QED BY <1>3, <2>3, <2>4, CallersAssumption DEF GivenLimits
<1>4. CASE fn = "format"
  <2>1. PICK x \in PackedFloat, l \in FormatLimits : call = <<"format", x, l>>
    BY <1>1, <1>2, <1>4 DEF Asked, fn
  <2>2. Result(<<"format", x, l>>) = FormatResult("format", x, l)
    BY DEF Result, Constants, Unary, Binary, ToFixed, FromFixed
  <2>3. FormatResult("format", x, l) = FormatWithin(x, l)
    BY DEF FormatResult
  <2>4. a = x /\ b = l
    BY <2>1 DEF a, b
  <2>5. out = FormatWithin(x, l)
    BY <1>1, <2>1, <2>2, <2>3, Zenon
  <2> QED BY <1>4, <2>4, <2>5 DEF GivenLimits
<1>5. CASE fn = "formatAs"
  <2>1. PICK x \in PackedFloat, s \in BOOLEAN : call = <<"formatAs", x, s>>
    BY <1>1, <1>2, <1>5 DEF Asked, fn
  <2>2. Result(<<"formatAs", x, s>>) = FormatResult("formatAs", x, s)
    BY DEF Result, Constants, Unary, Binary, ToFixed, FromFixed
  <2>3. FormatResult("formatAs", x, s) = ToDecimalString(x, s)
    BY DEF FormatResult
  <2>4. a = x /\ b = s
    BY <2>1 DEF a, b
  <2>5. out = ToDecimalString(x, s)
    BY <1>1, <2>1, <2>2, <2>3, Zenon
  <2> QED BY <1>5, <2>4, <2>5
<1> QED BY <1>3, <1>4, <1>5

(***************************************************************************)
(* For all widths and all floats, in either layout and between any limits: *)
(* whatever format returns, parse reads back as the number it came from;   *)
(* it refuses only what the layout cannot show.                            *)
(***************************************************************************)
THEOREM FormattingIsReversible == Spec => []FormatParsesBack
<1>1. Answered => FormatParsesBack
  <2> SUFFICES ASSUME Answered, call # Idle, fn \in {"format", "formatAs", "formatDefault"}
               PROVE  /\ out.status = "ok" => /\ Parse(out.text).status = "ok"
                                              /\ SameNumber(Parse(out.text).c, Parse(out.text).e, a.c, a.e)
                      /\ out.status = "UnformatableExponent" => a.c # 0 /\ (a.c # PackMin => CannotShow)
                      /\ out.status \notin {"ok", "UnformatableExponent"} =>
                           /\ fn # "formatAs"
                           /\ out.status = "ScientificMinNotLessThanMax" <=> ~Lt(GivenLimits.min, GivenLimits.max)
                           /\ out.status = "ExponentOverflow" => a.c = PackMin
    BY DEF FormatParsesBack, Done
  <2>1. CASE fn = "formatAs"
    <3>1. a.c \in Packed /\ a.e \in PackExp /\ b \in BOOLEAN /\ out = ToDecimalString(a, b)
      BY <2>1, FormatAnswer DEF PackedFloat
    <3>2. \/ /\ out.status = "ok"
             /\ Parse(out.text).status = "ok"
             /\ SameNumber(Parse(out.text).c, Parse(out.text).e, a.c, a.e)
          \/ out.status = "UnformatableExponent" /\ a.c # 0 /\ NotShown(a.c, a.e, b)
      BY <3>1, StringReads
    <3>3. NotShown(a.c, a.e, b) => CannotShow
      BY <2>1, Zenon DEF NotShown, CannotShow, Scientific
    <3> QED BY <3>2, <3>3
  <2>2. CASE fn # "formatAs"
    <3>1. PICK l : l = GivenLimits
      OBVIOUS
    <3>2. a \in PackedFloat /\ l \in FormatLimits /\ out = FormatWithin(a, l)
      BY <2>2, <3>1, FormatAnswer
    <3>3. /\ out.status = "ScientificMinNotLessThanMax" <=> ~Lt(l.min, l.max)
          /\ out.status = "ok" => /\ Parse(out.text).status = "ok"
                                  /\ SameNumber(Parse(out.text).c, Parse(out.text).e, a.c, a.e)
          /\ out.status = "UnformatableExponent" =>
               a.c # 0 /\ (a.c # PackMin => NotShown(a.c, a.e, AsksForScientific(a.c, a.e, l)))
          /\ out.status \notin {"ok", "UnformatableExponent", "ScientificMinNotLessThanMax"} =>
               out.status = "ExponentOverflow" /\ a.c = PackMin
      BY <3>2, FormatReads
    <3>4. NotShown(a.c, a.e, AsksForScientific(a.c, a.e, l)) => CannotShow
      BY <2>2, <3>1, Zenon DEF NotShown, CannotShow, Scientific, AsksForScientific
    <3> QED BY <2>2, <3>1, <3>3, <3>4
  <2> QED BY <2>1, <2>2
<1> QED BY <1>1, CallsAreAnswered, PTL

-----------------------------------------------------------------------------
(***************************************************************************)
(* Equal arguments.                                                        *)
(***************************************************************************)
(***************************************************************************)
(* For all widths and all floats: in which of its representations the      *)
(* first argument comes makes no difference to the sum, product, quotient  *)
(* or text that is returned.                                               *)
(***************************************************************************)
THEOREM RepresentationDoesNotMatter == Spec => []EqualArgumentsEqualResults
<1>1. Answered => EqualArgumentsEqualResults
  <2> SUFFICES ASSUME Answered, Returned({"add", "sub", "mul", "div"}) \/ Returned({"format", "formatAs"}),
                      NEW x \in Floats, Eq(x, a)
               PROVE  /\ fn \in {"add", "sub", "mul", "div"} =>
                           LET other == BinaryResult(fn, x, b)
                           IN  other.status = "ok" => SameNumber(other.c, other.e, out.c, out.e)
                      /\ fn \in {"format", "formatAs"} =>
                           LET other == FormatResult(fn, x, b)
                           IN  other.status = "ok" => other.text = out.text
    BY DEF EqualArgumentsEqualResults, Returned, Done
  <2>1. call # Idle /\ out.status = "ok" /\ x \in PackedFloat
    BY CallersAssumption DEF Returned, Done
  <2>2. CASE fn \in {"add", "sub", "mul", "div"}
    <3>1. fn \in Binary /\ fn \notin {"format", "formatAs"}
      BY <2>2 DEF Binary
    <3>2. a \in PackedFloat /\ b \in PackedFloat /\ out = BinaryResult(fn, a, b)
      BY <2>1, <3>1, BinaryAnswer
    <3>3. PICK other : other = BinaryResult(fn, x, b)
      OBVIOUS
    <3>4. ASSUME other.status = "ok" PROVE SameNumber(other.c, other.e, out.c, out.e)
      BY <2>1, <2>2, <3>2, <3>3, <3>4, SameResults
    <3> QED BY <3>1, <3>3, <3>4
  <2>3. CASE fn = "formatAs"
    <3>1. a \in PackedFloat /\ b \in BOOLEAN /\ out = ToDecimalString(a, b)
      BY <2>1, <2>3, FormatAnswer
    <3>2. SameNumber(x.c, x.e, a.c, a.e)
      BY <2>1, <3>1, OrdersCompare DEF PackedFloat
    <3>3. PICK other : other = FormatResult(fn, x, b)
      OBVIOUS
    <3>4. other = ToDecimalString(x, b)
      BY <2>3, <3>3 DEF FormatResult
    <3>5. other.status = "ok" => other = out
      BY <2>1, <3>1, <3>2, <3>4, SameStrings
    <3> QED BY <2>3, <3>3, <3>5
  <2>4. CASE fn = "format"
    <3>1. PICK l \in FormatLimits : l = b
      BY <2>1, <2>4, FormatAnswer DEF GivenLimits
    <3>2. a \in PackedFloat /\ out = FormatWithin(a, l)
      BY <2>1, <2>4, <3>1, FormatAnswer DEF GivenLimits
    <3>3. SameNumber(x.c, x.e, a.c, a.e)
      BY <2>1, <3>2, OrdersCompare DEF PackedFloat
    <3>4. PICK other : other = FormatResult(fn, x, b)
      OBVIOUS
    <3>5. other = FormatWithin(x, l)
      BY <2>4, <3>1, <3>4 DEF FormatResult
    <3>6. other.status = "ok" => other = out
      BY <2>1, <3>2, <3>3, <3>5, SameTexts
    <3> QED BY <2>4, <3>4, <3>6
  <2> QED BY <2>2, <2>3, <2>4 DEF Returned, Done
<1> QED BY <1>1, CallsAreAnswered, PTL
=============================================================================
