-------------------------- MODULE StackFloatProofs --------------------------
(***************************************************************************)
(* Calls on any stack numbers, for every width: comparison orders them as  *)
(* the numbers are, a sum loses less than two of the units it is counted   *)
(* in, and products and quotients are truncated once, at a full            *)
(* coefficient, however their scales are guessed.                          *)
(***************************************************************************)
EXTENDS StackFloat, FloatImplementationProofs

-----------------------------------------------------------------------------
(***************************************************************************)
(* Calls.                                                                  *)
(***************************************************************************)
StackFunctions == {"mul", "div", "add", "sub", "compareRescale"}

Answered == call = Idle \/ \E fn \in StackFunctions, x, y \in Coef \X Exp :
                             call = <<fn, x, y>> /\ out = Result(fn, x, y)

(***************************************************************************)
(* What a caller sees is what the function returns of its arguments.       *)
(***************************************************************************)
LEMMA CallsAreAnswered == Spec => []Answered
<1>1. Init => Answered
  BY DEF Init, Answered
<1>2. Answered /\ [Next]_vars => Answered'
  <2> SUFFICES ASSUME Answered, [Next]_vars PROVE Answered'
    OBVIOUS
  <2>1. CASE Call
    <3>1. PICK fn \in StackFunctions, x \in Coefficients \X Exponents, y \in Coefficients \X Exponents :
            call' = <<fn, x, y>> /\ out' = Result(fn, x, y)
      BY <2>1 DEF Call, StackFunctions
    <3>2. x \in Coef \X Exp /\ y \in Coef \X Exp
      BY <3>1, StackCallersAssumption
    <3> QED BY <3>1, <3>2 DEF Answered
  <2>2. CASE TakeResult
    BY <2>2 DEF TakeResult, Answered
  <2>3. CASE UNCHANGED vars
    BY <2>3 DEF vars, Answered
  <2> QED BY <2>1, <2>2, <2>3 DEF Next
<1> QED BY <1>1, <1>2, PTL DEF Spec

(***************************************************************************)
(* For all widths, and all coefficients and exponents of int256: the       *)
(* comparison orders two numbers as they are, whatever their               *)
(* representations and however far their exponents are apart.              *)
(***************************************************************************)
THEOREM ComparisonOrdersNumbers == Spec => []StackComparisonIsExact
<1>1. Answered => StackComparisonIsExact
  <2> SUFFICES ASSUME Answered, Done("compareRescale") PROVE StackComparisonIsExact
    BY DEF StackComparisonIsExact
  <2>1. PICK fn \in StackFunctions, x \in Coef \X Exp, y \in Coef \X Exp :
          call = <<fn, x, y>> /\ out = Result(fn, x, y)
    BY DEF Answered, Done, Idle
  <2>2. fn = "compareRescale" /\ ca = x[1] /\ ea = x[2] /\ cb = y[1] /\ eb = y[2]
    BY <2>1 DEF Done, ca, ea, cb, eb
  <2>3. out = CompareRescale(ca, ea, cb, eb)
    BY <2>1, <2>2 DEF Result
  <2>4. ca \in Coef /\ cb \in Coef /\ ea \in Exp /\ eb \in Exp
    BY <2>2
  <2>5. /\ out[1] < out[2] <=> SmallerNumber(ca, ea, cb, eb)
        /\ out[1] = out[2] <=> SameNumber(ca, ea, cb, eb)
    BY <2>3, <2>4, RescalingComparesExactly
  <2>6. SmallerNumber(ca, ea, cb, eb) \in BOOLEAN /\ SameNumber(ca, ea, cb, eb) \in BOOLEAN
        /\ (out[1] < out[2]) \in BOOLEAN /\ (out[1] = out[2]) \in BOOLEAN
    BY DEF SmallerNumber, SameNumber
  <2> QED BY <2>5, <2>6, Zenon DEF StackComparisonIsExact
<1> QED BY <1>1, CallsAreAnswered, PTL

(***************************************************************************)
(* For all widths, and all coefficients and exponents of int256: a sum is  *)
(* within two units of the last place, cancelled or carried, and the       *)
(* number far below is the only one that is dropped.                       *)
(***************************************************************************)
THEOREM SumsAreClose == Spec => []StackSumIsClose
<1>1. Answered => StackSumIsClose
  <2> SUFFICES ASSUME Answered, Returned("add") \/ (Returned("sub") /\ cb # CoefMin)
               PROVE  StackSumIsClose
    BY DEF StackSumIsClose
  <2>1. PICK fn \in StackFunctions, x \in Coef \X Exp, y \in Coef \X Exp :
          call = <<fn, x, y>> /\ out = Result(fn, x, y)
    BY DEF Answered, Returned, Done, Idle
  <2>2. /\ fn = call[1] /\ ca = x[1] /\ ea = x[2] /\ cb = y[1] /\ eb = y[2]
        /\ ca \in Coef /\ cb \in Coef /\ ea \in Exp /\ eb \in Exp /\ out.status = "ok"
    BY <2>1 DEF Returned, Done, ca, ea, cb, eb
  <2>3. CASE Returned("add")
    <3>1. fn = "add" /\ out = Add(ca, ea, cb, eb) /\ ~Done("sub")
      BY <2>1, <2>2, <2>3 DEF Returned, Done, Result
    <3>2. SumIsClose(ca, ea, cb, eb, out)
      BY <2>2, <3>1, AddIsClose
    <3> QED BY <3>1, <3>2, Zenon DEF StackSumIsClose, SumIsClose
  <2>4. CASE Returned("sub") /\ cb # CoefMin
    <3>1. fn = "sub" /\ out = Sub(ca, ea, cb, eb) /\ Done("sub")
      BY <2>1, <2>2, <2>4 DEF Returned, Done, Result
    <3>2. Minus(cb, eb) = Num(-cb, eb)
      BY <2>4 DEF Minus
    <3>3. out = Add(ca, ea, -cb, eb)
      BY <3>1, <3>2 DEF Sub, Num
    <3>4. -cb \in Coef /\ (cb = 0 <=> -cb = 0)
      BY <2>2, <2>4, Widths DEF Coef, CoefMin
    <3>5. SumIsClose(ca, ea, -cb, eb, out)
      BY <2>2, <3>3, <3>4, AddIsClose
    <3> QED BY <3>1, <3>4, <3>5, Zenon DEF StackSumIsClose, SumIsClose
  <2> QED BY <2>3, <2>4
<1> QED BY <1>1, CallsAreAnswered, PTL

(***************************************************************************)
(* For all widths, and all coefficients and exponents of int256: mul       *)
(* never asks mulDiv for a quotient beyond uint256, truncates the product  *)
(* once and keeps its sign and its digits.                                 *)
(***************************************************************************)
THEOREM ProductsAreTruncated == Spec => []StackProductIsTruncated
<1>1. Answered => StackProductIsTruncated
  <2> SUFFICES ASSUME Answered, Done("mul") PROVE StackProductIsTruncated
    BY DEF StackProductIsTruncated, Returned
  <2>1. PICK fn \in StackFunctions, x \in Coef \X Exp, y \in Coef \X Exp :
          call = <<fn, x, y>> /\ out = Result(fn, x, y)
    BY DEF Answered, Done, Idle
  <2>2. /\ ca \in Coef /\ cb \in Coef /\ ea \in Exp /\ eb \in Exp
        /\ out = Mul(ca, ea, cb, eb)
    BY <2>1 DEF Done, Result, ca, ea, cb, eb
  <2>3. PICK x1 \in Coef, x2 \in Exp, y1 \in Coef, y2 \in Exp :
          x1 = ca /\ x2 = ea /\ y1 = cb /\ y2 = eb
    BY <2>2
  <2>4. x1 \in Int /\ y1 \in Int /\ CoefMax \in Nat
    BY CoefIsInt, Widths
  <2>5. CASE x1 = 0 \/ y1 = 0
    <3>1. out = MaximizedZero
      BY <2>2, <2>3, <2>5 DEF Mul
    <3>2. out.status = "ok" /\ out.c = 0
      BY <3>1 DEF MaximizedZero, Num
    <3>3. x1 * y1 = 0 /\ Sign(x1) * Sign(y1) = 0 /\ Abs(0) = 0 /\ Sign(0) = 0
      BY <2>4, <2>5 DEF Sign, Abs
    <3> QED BY <2>3, <2>4, <3>2, <3>3 DEF StackProductIsTruncated
  <2>6. CASE x1 # 0 /\ y1 # 0
    <3>1. out = Mul(x1, x2, y1, y2)
      BY <2>2, <2>3
    <3>2. /\ out.status \in {"ok", "Panic"}
          /\ out.status = "ok" =>
               /\ out.c \in Coef /\ out.c # 0 /\ (out.c < 0 <=> (x1 < 0) # (y1 < 0))
               /\ CutDigits(Abs(out.c), out.e, Abs(x1 * y1), x2 + y2)
               /\ IF Abs(x1 * y1) > CoefMax THEN Abs(out.c) >= CoefMax \div 10 ELSE out.e = x2 + y2
      BY <2>6, <3>1, MulTruncates
    <3>3. ASSUME out.status = "ok" PROVE Sign(out.c) = Sign(x1) * Sign(y1)
      <4>1. out.c \in Int
        BY <3>2, <3>3, CoefIsInt
      <4> QED BY <2>4, <2>6, <3>2, <3>3, <4>1, SignOfProduct
    <3> QED BY <2>3, <3>2, <3>3 DEF StackProductIsTruncated, Returned
  <2> QED BY <2>5, <2>6
<1> QED BY <1>1, CallsAreAnswered, PTL

(***************************************************************************)
(* For all widths, and all coefficients and exponents of int256: the scale *)
(* that div's search ends at never overflows mulDiv, and a quotient whose  *)
(* exponent fits is truncated once, at full precision, and zero only if it *)
(* is too small for the smallest exponents.                                *)
(***************************************************************************)
THEOREM QuotientsAreTruncated == Spec => []StackQuotientIsTruncated
<1>1. ASSUME Answered, Done("div") PROVE out.status # "MulDivOverflow"
  <2>1. PICK fn \in StackFunctions, x \in Coef \X Exp, y \in Coef \X Exp :
          call = <<fn, x, y>> /\ out = Result(fn, x, y)
    BY <1>1 DEF Answered, Done, Idle
  <2>2. fn = "div"
    BY <1>1, <2>1 DEF Done
  <2>3. PICK x1 \in Coef, x2 \in Exp, y1 \in Coef, y2 \in Exp :
          x1 = x[1] /\ x2 = x[2] /\ y1 = y[1] /\ y2 = y[2]
    OBVIOUS
  <2>4. out = Div(x1, x2, y1, y2)
    BY <2>1, <2>2, <2>3 DEF Result
  <2> QED BY <2>4, DivFitsUint256
<1>2. Answered => StackQuotientIsTruncated
  <2> SUFFICES ASSUME Answered, Returned("div"), DividendIsFull, QuotientInRange
               PROVE  StackQuotientIsTruncated
    BY <1>1 DEF StackQuotientIsTruncated
  <2>1. PICK fn \in StackFunctions, x \in Coef \X Exp, y \in Coef \X Exp :
          call = <<fn, x, y>> /\ out = Result(fn, x, y)
    BY DEF Answered, Returned, Done, Idle
  <2>2. /\ ca \in Coef /\ cb \in Coef /\ ea \in Exp /\ eb \in Exp
        /\ out = Div(ca, ea, cb, eb) /\ out.status = "ok"
    BY <2>1 DEF Returned, Done, Result, ca, ea, cb, eb
  <2>3. PICK x1 \in Coef, x2 \in Exp, y1 \in Coef, y2 \in Exp :
          x1 = ca /\ x2 = ea /\ y1 = cb /\ y2 = eb
    BY <2>2
  <2>4. PICK A, B : A = Maximize(x1, x2) /\ B = Maximize(y1, y2)
    OBVIOUS
  <2>5. out = Div(x1, x2, y1, y2)
    BY <2>2, <2>3
  <2>6. y1 # 0
    <3>1. ASSUME y1 = 0 PROVE FALSE
      <4>1. out = Fail("DivisionByZero")
        BY <2>5, <3>1 DEF Div
      <4> QED BY <2>2, <4>1 DEF Fail
    <3> QED BY <3>1
  <2>7. CASE x1 = 0
    <3>1. out = MaximizedZero
      BY <2>5, <2>6, <2>7 DEF Div
    <3>2. out.c = 0
      BY <3>1 DEF MaximizedZero, Num
    <3>3. out.status # "MulDivOverflow"
      BY <2>2
    <3> QED BY <2>3, <2>7, <3>2, <3>3, Zenon DEF StackQuotientIsTruncated
  <2>8. CASE x1 # 0
    <3>1. A.full /\ x2 - y2 <= ExpMax - (D + 1)
      BY <2>3, <2>4 DEF DividendIsFull, QuotientInRange
    <3>2. QuotientIsCut(out, A, B)
      BY <2>2, <2>4, <2>5, <2>6, <2>8, <3>1, DivTruncates
    <3>3. /\ A.c < 0 <=> x1 < 0
          /\ B.c < 0 <=> y1 < 0
      <4>1. A.c < 0 <=> x1 < 0
        BY <2>4, <2>8, MaximizedDigits
      <4>2. B.c < 0 <=> y1 < 0
        BY <2>4, <2>6, MaximizedDigits
      <4> QED BY <4>1, <4>2
    <3>4. ASSUME out.c # 0 PROVE Sign(out.c) = Sign(x1) * Sign(y1)
      <4>1. out.c < 0 <=> (x1 < 0) # (y1 < 0)
        BY <3>2, <3>3, <3>4 DEF QuotientIsCut
      <4>2. out.c \in Int /\ x1 \in Int /\ y1 \in Int
        BY <3>2, CoefIsInt DEF QuotientIsCut
      <4> QED BY <2>6, <2>8, <3>4, <4>1, <4>2, SignOfProduct
    <3>5. Abs(A.c) \div 10 >= Pow10[D - 2]
      <4>1. IsFull(A.c) /\ A.c \in Int
        <5>1. A.full <=> IsFull(A.c)
          BY <2>4, <2>8, MaximizedDigits
        <5>2. A.c \in Coef
          BY <2>4, <2>8, MaximizedNumber
        <5> QED BY <3>1, <5>1, <5>2, CoefIsInt
      <4>2. Abs(A.c) \in Nat /\ Pow10[D - 2] * 10 <= Abs(A.c) /\ Pow10[D - 2] \in Nat
        BY <4>1, FullHasDigits, PowersOfCoef DEF Abs
      <4> QED BY <4>2
    <3>6. out.c # 0 => Abs(out.c) >= Pow10[D - 2] \/ out.e <= ExpMin + 1
      <4>1. out.c \in Int
        BY <3>2, CoefIsInt DEF QuotientIsCut
      <4>2. out.c # 0 => Abs(out.c) >= Abs(A.c) \div 10 \/ out.e <= ExpMin + 1
        BY <3>2 DEF QuotientIsCut
      <4>3. Abs(out.c) \in Int /\ Abs(A.c) \div 10 \in Int /\ Pow10[D - 2] \in Int
        <5>1. A.c \in Int
          BY <2>4, <2>8, MaximizedNumber, CoefIsInt
        <5> QED BY <4>1, <5>1, PowersOfCoef DEF Abs
      <4> QED BY <3>5, <4>2, <4>3
    <3>7. out.status # "MulDivOverflow"
      BY <2>2
    <3> QED BY <2>3, <2>4, <3>2, <3>4, <3>6, <3>7 DEF StackQuotientIsTruncated, QuotientIsCut
  <2> QED BY <2>7, <2>8
<1> QED BY <1>2, CallsAreAnswered, PTL
=============================================================================
