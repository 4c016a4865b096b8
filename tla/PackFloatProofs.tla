-------------------------- MODULE PackFloatProofs --------------------------
(***************************************************************************)
(* Packing, for every width that satisfies the assumptions of              *)
(* DecimalWidths, the real ones included: types, no silent zero, honest    *)
(* loss flags, one truncation, and the one-step contract of PackSpec.      *)
(***************************************************************************)
EXTENDS PackFloat, FloatImplementationProofs

-----------------------------------------------------------------------------
(***************************************************************************)
(* What dropping digits does to a coefficient.                             *)
(***************************************************************************)

(***************************************************************************)
(* Dividing by a power of ten keeps the type of a coefficient.             *)
(***************************************************************************)
LEMMA QuotType ==
  ASSUME NEW x \in Coef, NEW y \in Nat, y >= 1
  PROVE  Quot(x, y) \in Coef
<1>1. x \in Int /\ CoefMax \in Nat /\ -CoefMax - 1 <= x /\ x <= CoefMax
  BY Widths DEF Coef, CoefMin
<1>2. Quot(x, y) \in Int /\ (x >= 0 => Quot(x, y) \in 0..x) /\ (x < 0 => Quot(x, y) \in x..0)
  BY <1>1, QuotShrinks
<1> QED BY <1>1, <1>2 DEF Coef, CoefMin

(***************************************************************************)
(* Neither the jump nor a single digit takes a coefficient to zero that    *)
(* does not fit an int224: the heart of packArithmeticResult's test.       *)
(***************************************************************************)
LEMMA DroppingKeepsNonZero ==
  ASSUME NEW x \in Coef, ~Fits(x)
  PROVE  /\ x # 0
         /\ Quot(x, 10) # 0
         /\ Quot(x, Pow10[PackD + Jump]) # 0 => Quot(x, Pow10[Jump]) # 0
<1>1. x \in Int /\ x # 0 /\ Abs(x) > PackMax /\ Abs(x) >= 10
  BY Widths DEF Coef, CoefMin, Fits, Packed, PackMin, Abs
<1>2. Quot(x, 10) # 0
  BY <1>1, QuotShrinks DEF Abs
<1>3. ASSUME Quot(x, Pow10[PackD + Jump]) # 0
      PROVE  Quot(x, Pow10[Jump]) # 0
  <2>1. /\ Pow10[Jump] \in Nat /\ Pow10[Jump] >= 1
        /\ Pow10[PackD + Jump] \in Nat /\ Pow10[PackD + Jump] >= 1
        /\ Pow10[Jump] <= Pow10[PackD + Jump]
    BY Widths, Pow10Grows, WidthsAreInts
  <2>2. \A y \in Nat : y >= 1 => (Quot(x, y) = 0 <=> Abs(x) < y)
    BY <1>1, QuotShrinks
  <2>3. ~(Abs(x) < Pow10[PackD + Jump])
    BY <1>3, <2>1, <2>2, Pow10Grows
  <2>4. ~(Abs(x) < Pow10[Jump])
    BY <1>1, <2>1, <2>3 DEF Abs
  <2> QED BY <2>1, <2>2, <2>4
<1> QED BY <1>1, <1>2, <1>3

-----------------------------------------------------------------------------
(***************************************************************************)
(* Types of what packLossy and its callers return.                         *)
(***************************************************************************)
LEMMA OutcomeTypes ==
  /\ \A error \in Errors : Revert(error) \in Outcome
  /\ \A x \in Packed, y \in PackExp, z \in BOOLEAN : Float(x, y, z) \in Outcome
  /\ FloatZero \in Outcome /\ Underflow \in Outcome
<1>1. 0 \in Packed /\ 0 \in PackExp
  BY Widths DEF Packed, PackMin, PackExp, PackExpMin
<1> QED BY <1>1 DEF Revert, Float, FloatZero, Underflow, Outcome, Errors

(***************************************************************************)
(* What a caller makes of an outcome is an outcome.                        *)
(***************************************************************************)
LEMMA FinaliseType ==
  ASSUME NEW fn, NEW r \in Outcome, NEW exact \in BOOLEAN
  PROVE  Finalise(fn, r, exact) \in Outcome
<1>1. [r EXCEPT !.lossless = r.lossless /\ exact] \in Outcome
  BY DEF Outcome
<1> QED BY <1>1, OutcomeTypes DEF Finalise, Errors, Outcome

(***************************************************************************)
(* What fromFixedDecimalLossy hands to packLossy is an int256 pair.        *)
(***************************************************************************)
LEMMA FromFixedDecimalType ==
  ASSUME NEW value \in Values, NEW decimals \in Decimals
  PROVE  /\ FromFixedDecimal(value, decimals).c \in Coef
         /\ FromFixedDecimal(value, decimals).e \in Exp
         /\ FromFixedDecimal(value, decimals).exact \in BOOLEAN
<1>1. value \in 0..UintMax /\ decimals \in 0..ExpMax
  BY InputsAssumption
<1>2. value \div 10 \in 0..CoefMax
  BY <1>1, Widths DEF UintMax
<1>3. /\ 1 - decimals \in Exp /\ -decimals \in Exp
      /\ value <= CoefMax => value \in Coef
      /\ value \div 10 \in Coef
  BY <1>1, <1>2, Widths, ExponentsFit, WidthsAreInts DEF Exp, ExpMin, Coef, CoefMin, UintMax
<1>4. value > CoefMax \/ value <= CoefMax
  BY <1>1, Widths DEF UintMax
<1>5. CASE value > CoefMax
  BY <1>3, <1>5 DEF FromFixedDecimal
<1>6. CASE ~(value > CoefMax)
  BY <1>3, <1>4, <1>6 DEF FromFixedDecimal
<1> QED BY <1>5, <1>6

-----------------------------------------------------------------------------
(***************************************************************************)
(* The inductive invariant.                                                *)
(***************************************************************************)
TypedAndNonZero == TypeOK /\ NeverReachesZero

(***************************************************************************)
(* It holds before the first call.                                         *)
(***************************************************************************)
LEMMA InitInv == Init => TypedAndNonZero
<1> SUFFICES ASSUME Init PROVE TypedAndNonZero
  OBVIOUS
<1>1. 0 \in Coef /\ 0 \in Exp
  BY Widths DEF Coef, CoefMin, Exp, ExpMin
<1>2. NoCall \in Request
  BY <1>1 DEF NoCall, Abstract!NoCall, Request
<1>3. Pending \in Outcome /\ Pending.status = "pending"
  BY Widths DEF Pending, Abstract!NoAnswer, Abstract!Revert, Outcome,
                Packed, PackMin, PackExp, PackExpMin
<1>4. given \in Int \X Int /\ pc = "idle" /\ lossless \in BOOLEAN
  <2>1. lossless = FALSE
    BY Zenon DEF Init
  <2>2. lossless \in BOOLEAN
    BY <2>1, Zenon
  <2>3. <<0, 0>> \in Int \X Int
    OBVIOUS
  <2> QED BY <2>2, <2>3, Zenon DEF Init
<1>5. call \in Request /\ c \in Coef /\ e \in Exp /\ float \in Outcome /\ result \in Outcome
  BY <1>1, <1>2, <1>3 DEF Init
<1>6. TypeOK
  BY <1>4, <1>5 DEF TypeOK
<1> QED BY <1>6 DEF Init, TypedAndNonZero, NeverReachesZero, NoSilentZero, Succeeded

(***************************************************************************)
(* A call starts with packLossy's coefficient equal to its argument.       *)
(***************************************************************************)
LEMMA CallsKeepInv ==
  ASSUME TypedAndNonZero, Calls
  PROVE  TypedAndNonZero'
<1> USE DEF TypedAndNonZero
<1>1. ASSUME NEW fn \in {"packLossy", "packLossless", "packArithmeticResult"},
             NEW coefficient \in Coefficients, NEW exponent \in Exponents,
             CallPack(fn, coefficient, exponent)
      PROVE  TypedAndNonZero'
  <2>1. coefficient \in Coef /\ exponent \in Exp /\ coefficient \in Int /\ exponent \in Int
    BY InputsAssumption, Widths DEF Coef, Exp, CoefMin, ExpMin
  <2>2. TypeOK'
    BY <1>1, <2>1 DEF CallPack, Enter, TypeOK, Request
  <2>3. NeverReachesZero'
    BY <1>1 DEF CallPack, Enter, NeverReachesZero, NoSilentZero, Succeeded
  <2> QED BY <2>2, <2>3
<1>2. ASSUME NEW fn \in {"packLossy", "packLossless"},
             NEW value \in Values, NEW decimals \in Decimals,
             CallFromFixedDecimal(fn, value, decimals)
      PROVE  TypedAndNonZero'
  <2> DEFINE d == FromFixedDecimal(value, decimals)
  <2>1. d.c \in Coef /\ d.e \in Exp /\ d.exact \in BOOLEAN
    BY FromFixedDecimalType
  <2>2. value \in Int /\ -decimals \in Int
    BY InputsAssumption, WidthsAreInts DEF UintMax
  <2>3. Revert("LossyConversionToFloat") \in Outcome
    BY OutcomeTypes DEF Errors
  <2>4. Revert("LossyConversionToFloat").status # "ok"
    BY DEF Revert
  <2> HIDE DEF d
  <2>5. /\ pc' \in {"fit", "finish"} /\ given' = <<value, -decimals>>
        /\ call' = [fn |-> fn, c |-> d.c, e |-> d.e, exact |-> d.exact]
        /\ c' = d.c /\ e' = d.e /\ UNCHANGED <<lossless, result>>
        /\ float' \in {float, Revert("LossyConversionToFloat")}
        /\ pc' = "finish" => float' = Revert("LossyConversionToFloat")
    BY <1>2 DEF CallFromFixedDecimal, Enter, d
  <2>6. TypeOK'
    BY <2>1, <2>2, <2>3, <2>5 DEF TypeOK, Request
  <2>7. NeverReachesZero'
    BY <2>4, <2>5 DEF NeverReachesZero, NoSilentZero, Succeeded
  <2> QED BY <2>6, <2>7
<1> QED BY <1>1, <1>2 DEF Calls

(***************************************************************************)
(* The steps of packLossy before its digit loop.                           *)
(***************************************************************************)
LEMMA FitKeepsInv ==
  ASSUME TypedAndNonZero, PackZero \/ AlreadyFits \/ DropJump
  PROVE  TypedAndNonZero'
<1> USE DEF TypedAndNonZero
<1>1. CASE PackZero
  <2>1. call.c = 0 /\ FloatZero \in Outcome
    BY <1>1, OutcomeTypes DEF PackZero, Return, Goto, NeverReachesZero
  <2> QED BY <1>1, <2>1 DEF PackZero, Return, Goto, TypeOK, NeverReachesZero,
                            NoSilentZero, Succeeded
<1>2. CASE AlreadyFits
  BY <1>2 DEF AlreadyFits, Goto, TypeOK, NeverReachesZero, NoSilentZero, Succeeded, Fits
<1>3. CASE DropJump
  <2>1. c \in Coef /\ ~Fits(c)
    BY <1>3 DEF DropJump, TypeOK
  <2>2. Quot(c, Pow10[Jump]) \in Coef
    BY <2>1, QuotType, Pow10Grows, Widths, WidthsAreInts
  <2>3. WrapExp(e + Jump) \in Exp
    BY WrapExpType, Widths, WidthsAreInts DEF TypeOK, Exp, ExpMin
  <2>4. c' \in Coef /\ e' \in Exp /\ c' # 0
    BY <1>3, <2>1, <2>2, <2>3, DroppingKeepsNonZero DEF DropJump, TypeOK
  <2> QED BY <1>3, <2>4 DEF DropJump, Goto, TypeOK, NeverReachesZero, NoSilentZero, Succeeded
<1> QED BY <1>1, <1>2, <1>3

(***************************************************************************)
(* The digit loop.                                                         *)
(***************************************************************************)
LEMMA ShiftKeepsInv ==
  ASSUME TypedAndNonZero, DropDigit \/ StopDropping
  PROVE  TypedAndNonZero'
<1> USE DEF TypedAndNonZero
<1>1. CASE DropDigit
  <2>1. c \in Coef /\ ~Fits(c)
    BY <1>1 DEF DropDigit, TypeOK
  <2>2. Quot(c, 10) \in Coef /\ Quot(c, 10) # 0
    BY <2>1, QuotType, DroppingKeepsNonZero
  <2>3. WrapExp(e + 1) \in Exp
    BY WrapExpType, Widths DEF TypeOK, Exp, ExpMin
  <2> QED BY <1>1, <2>2, <2>3 DEF DropDigit, Goto, TypeOK, NeverReachesZero,
                                  NoSilentZero, Succeeded
<1>2. CASE StopDropping
  BY <1>2 DEF StopDropping, Goto, TypeOK, NeverReachesZero, NoSilentZero, Succeeded, Fits
<1> QED BY <1>1, <1>2

(***************************************************************************)
(* The range check of the exponent: only an underflow returns zero.        *)
(***************************************************************************)
LEMMA RangeKeepsInv ==
  ASSUME TypedAndNonZero, ExponentUnderflows \/ ExponentOverflows \/ ExponentFits
  PROVE  TypedAndNonZero'
<1> USE DEF TypedAndNonZero
<1>1. CASE ExponentUnderflows
  <2>1. Underflow \in Outcome
    BY OutcomeTypes
  <2> QED BY <1>1, <2>1 DEF ExponentUnderflows, Return, Goto, TypeOK, NeverReachesZero,
                            NoSilentZero, Succeeded
<1>2. CASE ExponentOverflows
  <2>1. Revert("ExponentOverflow") \in Outcome /\ Revert("ExponentOverflow").status # "ok"
    BY OutcomeTypes DEF Revert, Errors
  <2> QED BY <1>2, <2>1 DEF ExponentOverflows, Return, Goto, TypeOK, NeverReachesZero,
                            NoSilentZero, Succeeded
<1>3. CASE ExponentFits
  <2>1. c \in Packed /\ c # 0 /\ e \in PackExp
    BY <1>3 DEF ExponentFits, Return, Goto, NeverReachesZero, Fits
  <2>2. Float(c, e, lossless) \in Outcome /\ Float(c, e, lossless).c # 0
    BY <2>1, OutcomeTypes DEF TypeOK, Float
  <2> QED BY <1>3, <2>2 DEF ExponentFits, Return, Goto, TypeOK, NeverReachesZero,
                            NoSilentZero, Succeeded
<1> QED BY <1>1, <1>2, <1>3

(***************************************************************************)
(* packArithmeticResult's test of the returned word catches every          *)
(* underflow, because an underflow is the only zero with a coefficient     *)
(* behind it.                                                              *)
(***************************************************************************)
LEMMA FinishKeepsInv ==
  ASSUME TypedAndNonZero, Finish
  PROVE  TypedAndNonZero'
<1> USE DEF TypedAndNonZero
<1>1. /\ pc = "finish" /\ pc' = "done" /\ UNCHANGED <<given, call, c, e, lossless, float>>
      /\ result' = Finalise(call.fn, float, call.exact)
  BY DEF Finish
<1>2. float \in Outcome /\ call \in Request /\ call.exact \in BOOLEAN
  BY DEF TypeOK, Request
<1>3. result' \in Outcome
  BY <1>1, <1>2, FinaliseType
<1>4. TypeOK'
  BY <1>1, <1>3 DEF TypeOK
<1>5. ASSUME call.fn = "packArithmeticResult", result'.status = "ok", result'.c = 0
      PROVE  call.c = 0
  <2>1. CASE float.status # "ok" \/ float.lossless
    <3>1. result' = [float EXCEPT !.lossless = float.lossless /\ call.exact]
      BY <1>1, <2>1 DEF Finalise
    <3>2. result'.status = float.status /\ result'.c = float.c
      BY <1>2, <3>1 DEF Outcome
    <3>3. float # Underflow
      BY <1>5, <2>1, <3>2 DEF Underflow, Float
    <3> QED BY <1>1, <1>5, <3>2, <3>3 DEF NeverReachesZero
  <2>2. CASE float.status = "ok" /\ ~float.lossless
    <3>1. ~(float.c = 0 /\ float.e = 0)
      BY <1>1, <1>5, <2>2 DEF Finalise, Revert
    <3>2. result' = float
      BY <1>1, <1>5, <2>2, <3>1 DEF Finalise
    <3>3. float # Underflow
      BY <3>1 DEF Underflow, Float
    <3> QED BY <1>1, <1>5, <2>2, <3>2, <3>3 DEF NeverReachesZero
  <2> QED BY <2>1, <2>2
<1>6. NeverReachesZero'
  BY <1>1, <1>5 DEF NeverReachesZero, NoSilentZero, Succeeded
<1> QED BY <1>4, <1>6

(***************************************************************************)
(* Handing the result over brings the machine back to its initial state.   *)
(***************************************************************************)
LEMMA TakeResultKeepsInv ==
  ASSUME TypedAndNonZero, TakeResult
  PROVE  TypedAndNonZero'
<1>1. Init'
  BY DEF TakeResult, Init
<1>2. Init' => TypedAndNonZero'
  BY InitInv, PTL
<1> QED BY <1>1, <1>2

(***************************************************************************)
(* Every step of the machine keeps the invariant.                          *)
(***************************************************************************)
LEMMA NextInv == TypedAndNonZero /\ [Next]_vars => TypedAndNonZero'
<1> SUFFICES ASSUME TypedAndNonZero, [Next]_vars PROVE TypedAndNonZero'
  OBVIOUS
<1>1. CASE Calls
  BY <1>1, CallsKeepInv
<1>2. CASE Steps
  BY <1>2, FitKeepsInv, ShiftKeepsInv, RangeKeepsInv, FinishKeepsInv DEF Steps
<1>3. CASE TakeResult
  BY <1>3, TakeResultKeepsInv
<1>4. CASE UNCHANGED vars
  BY <1>4 DEF vars, TypedAndNonZero, TypeOK, NeverReachesZero, NoSilentZero, Succeeded
<1> QED BY <1>1, <1>2, <1>3, <1>4 DEF Next

-----------------------------------------------------------------------------
(***************************************************************************)
(* Every variable of packLossy keeps its Solidity type through the         *)
(* unchecked arithmetic, and a finished call holds an int224 and an int32. *)
(***************************************************************************)
THEOREM TypeCorrect == Spec => []TypeOK
<1>1. TypedAndNonZero => TypeOK
  BY DEF TypedAndNonZero
<1> QED BY InitInv, NextInv, <1>1, PTL DEF Spec

(***************************************************************************)
(* packArithmeticResult returns zero only for zero: the comparison of the  *)
(* returned word with bytes32(0) tells underflow from truncation.          *)
(***************************************************************************)
THEOREM ZeroIsNeverSilent == Spec => []NoSilentZero
<1>1. TypedAndNonZero => NoSilentZero
  BY DEF TypedAndNonZero, NeverReachesZero
<1> QED BY InitInv, NextInv, <1>1, PTL DEF Spec
-----------------------------------------------------------------------------
(***************************************************************************)
(* The flag of packLossy and the flag of fromFixedDecimalLossy compose.    *)
(* The invariant follows the number through both: as long as no digit was  *)
(* dropped, packLossy works on its arguments, and an exact call's          *)
(* arguments are the given number.                                         *)
(***************************************************************************)
Untouched == c = call.c /\ e = call.e

FlagsFollowLoss ==
  /\ pc # "idle" /\ call.exact => SameNumber(call.c, call.e, given[1], given[2])
  /\ pc = "fit" => Untouched
  /\ pc = "shift" => lossless = FALSE
  /\ pc = "range" /\ lossless => Untouched
  /\ pc = "finish" /\ float.status = "ok" /\ float.lossless =>
       \/ float.c = call.c /\ float.e = call.e
       \/ float.c = 0 /\ call.c = 0
  /\ LosslessMeansExact

(***************************************************************************)
(* What fromFixedDecimalLossy calls exact is the given number: 10 * (v/10) *)
(* is v when the dropped digit is zero.                                    *)
(***************************************************************************)
LEMMA FromFixedDecimalExact ==
  ASSUME NEW value \in Values, NEW decimals \in Decimals,
         FromFixedDecimal(value, decimals).exact
  PROVE  SameNumber(FromFixedDecimal(value, decimals).c,
                    FromFixedDecimal(value, decimals).e, value, -decimals)
<1>1. value \in Nat /\ decimals \in Nat /\ D \in Nat
  BY InputsAssumption, Widths, WidthsAreInts DEF UintMax
<1>2. Pow10[0] = 1 /\ Pow10[1] = 10
  BY Pow10Def
<1>3. CASE value > CoefMax
  <2>1. value % 10 = 0
    BY <1>3 DEF FromFixedDecimal
  <2>2. (value \div 10) * 10 = value
    BY <1>1, <2>1
  <2>3. 1 - decimals >= -decimals /\ (1 - decimals) - (-decimals) = 1 /\ 1 <= D + 1
    BY <1>1
  <2>4. SameNumber(value \div 10, 1 - decimals, value, -decimals)
    BY <1>2, <2>2, <2>3 DEF SameNumber, Reach
  <2> QED BY <1>3, <2>4 DEF FromFixedDecimal
<1>4. CASE ~(value > CoefMax)
  <2>1. -decimals - (-decimals) = 0 /\ value * 1 = value /\ 0 <= D + 1 /\ -decimals >= -decimals
    BY <1>1
  <2>2. SameNumber(value, -decimals, value, -decimals)
    BY <1>2, <2>1 DEF SameNumber, Reach
  <2> QED BY <1>4, <2>2 DEF FromFixedDecimal
<1> QED BY <1>3, <1>4

(***************************************************************************)
(* A number equal to zero is zero, whatever the exponents.                 *)
(***************************************************************************)
LEMMA SameAsZero ==
  ASSUME NEW x \in Int, NEW ex \in Int, NEW ey \in Int, SameNumber(0, ex, x, ey)
  PROVE  x = 0
<1>1. D \in Nat
  BY WidthsAreInts
<1>2. CASE ex >= ey /\ ex - ey <= Reach /\ 0 * Pow10[ex - ey] = x
  <2>1. ex - ey \in 0..(D + 1)
    BY <1>1, <1>2 DEF Reach
  <2>2. Pow10[ex - ey] \in Nat
    BY <2>1, Pow10Grows
  <2> QED BY <1>2, <2>2
<1>3. CASE ey >= ex /\ ey - ex <= Reach /\ x * Pow10[ey - ex] = 0
  <2>1. ey - ex \in 0..(D + 1)
    BY <1>1, <1>3 DEF Reach
  <2>2. Pow10[ey - ex] \in Nat /\ Pow10[ey - ex] >= 1
    BY <2>1, Pow10Grows
  <2>3. \A y \in Nat : y >= 1 /\ x * y = 0 => x = 0
    OBVIOUS
  <2> QED BY <1>3, <2>2, <2>3
<1> QED BY <1>2, <1>3 DEF SameNumber

(***************************************************************************)
(* A call that starts is honest about what it was given.                   *)
(***************************************************************************)
LEMMA CallsAreHonest ==
  ASSUME TypeOK, FlagsFollowLoss, Calls
  PROVE  FlagsFollowLoss'
<1>1. ASSUME NEW fn \in {"packLossy", "packLossless", "packArithmeticResult"},
             NEW coefficient \in Coefficients, NEW exponent \in Exponents,
             CallPack(fn, coefficient, exponent)
      PROVE  FlagsFollowLoss'
  <2>1. coefficient \in Int /\ exponent \in Int /\ D \in Nat
    BY InputsAssumption, Widths, WidthsAreInts DEF Coef, Exp, CoefMin, ExpMin
  <2>2. SameNumber(coefficient, exponent, coefficient, exponent)
    BY <2>1, Pow10Def DEF SameNumber, Reach
  <2>3. /\ pc' = "fit" /\ c' = coefficient /\ e' = exponent
        /\ call' = [fn |-> fn, c |-> coefficient, e |-> exponent, exact |-> TRUE]
        /\ given' = <<coefficient, exponent>>
    BY <1>1 DEF CallPack, Enter
  <2>4. SameNumber(call'.c, call'.e, given'[1], given'[2])
    BY <2>2, <2>3
  <2> QED BY <2>3, <2>4 DEF FlagsFollowLoss, Untouched, LosslessMeansExact, Succeeded
<1>2. ASSUME NEW fn \in {"packLossy", "packLossless"},
             NEW value \in Values, NEW decimals \in Decimals,
             CallFromFixedDecimal(fn, value, decimals)
      PROVE  FlagsFollowLoss'
  <2> DEFINE d == FromFixedDecimal(value, decimals)
  <2>1. d.exact => SameNumber(d.c, d.e, value, -decimals)
    BY FromFixedDecimalExact
  <2>2. Revert("LossyConversionToFloat").status # "ok"
    BY DEF Revert
  <2> HIDE DEF d
  <2>3. /\ pc' \in {"fit", "finish"} /\ given' = <<value, -decimals>>
        /\ call' = [fn |-> fn, c |-> d.c, e |-> d.e, exact |-> d.exact]
        /\ c' = d.c /\ e' = d.e
        /\ pc' = "finish" => float' = Revert("LossyConversionToFloat")
    BY <1>2 DEF CallFromFixedDecimal, Enter, d
  <2>4. call'.exact => SameNumber(call'.c, call'.e, given'[1], given'[2])
    BY <2>1, <2>3
  <2> QED BY <2>2, <2>3, <2>4 DEF FlagsFollowLoss, Untouched, LosslessMeansExact, Succeeded
<1> QED BY <1>1, <1>2 DEF Calls

(***************************************************************************)
(* packLossy raises no flag without a reason, and its callers only lower   *)
(* it.                                                                     *)
(***************************************************************************)
LEMMA FinishIsHonest ==
  ASSUME TypeOK, FlagsFollowLoss, Finish
  PROVE  FlagsFollowLoss'
<1>1. /\ pc = "finish" /\ pc' = "done" /\ UNCHANGED <<given, call, c, e, lossless, float>>
      /\ result' = Finalise(call.fn, float, call.exact)
  BY DEF Finish
<1>2. float \in Outcome /\ call \in Request
  BY DEF TypeOK
<1>3. call.c \in Int /\ call.e \in Int /\ given[1] \in Int /\ given[2] \in Int
  BY <1>2, Widths DEF TypeOK, Request, Coef, CoefMin, Exp, ExpMin
<1>4. ASSUME result'.status = "ok", result'.lossless
      PROVE  SameNumber(result'.c, result'.e, given[1], given[2])
  <2>1. float.status = "ok" /\ float.lossless
    <3>1. CASE float.status # "ok"
      <4>1. result' = [float EXCEPT !.lossless = float.lossless /\ call.exact]
        BY <1>1, <3>1 DEF Finalise
      <4> QED BY <1>2, <1>4, <3>1, <4>1 DEF Outcome
    <3>2. CASE float.status = "ok" /\ ~float.lossless
      <4>1. result' = float \/ result' = Revert("CoefficientOverflow")
              \/ result' = Revert("ExponentUnderflow")
        BY <1>1, <3>2 DEF Finalise
      <4> QED BY <1>4, <3>2, <4>1 DEF Revert
    <3> QED BY <3>1, <3>2
  <2>2. result' = [float EXCEPT !.lossless = float.lossless /\ call.exact]
    BY <1>1, <2>1 DEF Finalise
  <2>3. result'.c = float.c /\ result'.e = float.e /\ call.exact
    BY <1>2, <1>4, <2>2 DEF Outcome
  <2>4. SameNumber(call.c, call.e, given[1], given[2])
    BY <1>1, <2>3 DEF FlagsFollowLoss
  <2>5. CASE float.c = call.c /\ float.e = call.e
    BY <2>3, <2>4, <2>5
  <2>6. CASE float.c = 0 /\ call.c = 0
    <3>1. given[1] = 0
      BY <1>3, <2>4, <2>6, SameAsZero
    <3> QED BY <2>3, <2>6, <3>1 DEF SameNumber
  <2> QED BY <1>1, <2>1, <2>5, <2>6 DEF FlagsFollowLoss
<1>5. LosslessMeansExact'
  BY <1>1, <1>4 DEF LosslessMeansExact, Succeeded
<1> QED BY <1>1, <1>5 DEF FlagsFollowLoss

(***************************************************************************)
(* Every step keeps the flags honest.                                      *)
(***************************************************************************)
LEMMA NextIsHonest == TypeOK /\ FlagsFollowLoss /\ [Next]_vars => FlagsFollowLoss'
<1> SUFFICES ASSUME TypeOK, FlagsFollowLoss, [Next]_vars PROVE FlagsFollowLoss'
  OBVIOUS
<1> USE DEF FlagsFollowLoss, Untouched, LosslessMeansExact, Succeeded
<1>1. CASE Calls
  BY <1>1, CallsAreHonest
<1>2. CASE PackZero
  <2>1. FloatZero.c = 0
    BY DEF FloatZero, Float
  <2> QED BY <1>2, <2>1 DEF PackZero, Return, Goto
<1>3. CASE AlreadyFits
  BY <1>3 DEF AlreadyFits, Goto
<1>4. CASE DropJump
  BY <1>4 DEF DropJump, Goto
<1>5. CASE DropDigit
  BY <1>5 DEF DropDigit, Goto
<1>6. CASE StopDropping
  BY <1>6 DEF StopDropping, Goto
<1>7. CASE ExponentUnderflows
  <2>1. Underflow.lossless = FALSE
    BY DEF Underflow, Float
  <2> QED BY <1>7, <2>1 DEF ExponentUnderflows, Return, Goto
<1>8. CASE ExponentOverflows
  <2>1. Revert("ExponentOverflow").status # "ok"
    BY DEF Revert
  <2> QED BY <1>8, <2>1 DEF ExponentOverflows, Return, Goto
<1>9. CASE ExponentFits
  <2>1. /\ Float(c, e, lossless).c = c /\ Float(c, e, lossless).e = e
        /\ Float(c, e, lossless).lossless = lossless
    BY DEF Float
  <2> QED BY <1>9, <2>1 DEF ExponentFits, Return, Goto
<1>10. CASE Finish
  BY <1>10, FinishIsHonest
<1>11. CASE TakeResult
  BY <1>11 DEF TakeResult
<1>12. CASE UNCHANGED vars
  BY <1>12 DEF vars
<1> QED BY <1>1, <1>2, <1>3, <1>4, <1>5, <1>6, <1>7, <1>8, <1>9, <1>10, <1>11, <1>12
        DEF Next, Steps

(***************************************************************************)
(* A result reported lossless is the number the user asked for, through    *)
(* both conversions, for every coefficient and exponent, including those   *)
(* whose unchecked exponent wraps.                                         *)
(***************************************************************************)
THEOREM LosslessIsExact == Spec => []LosslessMeansExact
<1>1. Init => FlagsFollowLoss
  BY DEF Init, FlagsFollowLoss, LosslessMeansExact, Succeeded
<1>2. FlagsFollowLoss => LosslessMeansExact
  BY DEF FlagsFollowLoss
<1> QED BY <1>1, <1>2, NextIsHonest, TypeCorrect, PTL DEF Spec

-----------------------------------------------------------------------------
(***************************************************************************)
(* The inductive invariant: at every place the code has dropped k digits   *)
(* of the argument, none of them too many, and raised its exponent by k.   *)
(***************************************************************************)
Dropped(k) == /\ c = Quot(call.c, Pow10[k]) /\ e = WrapExp(call.e + k)
              /\ \A j \in 0..(k - 1) : ~Fits(Quot(call.c, Pow10[j]))

Refuses(r) == r.fn = "packLossless" /\ ~r.exact
Refusal    == Revert("LossyConversionToFloat")

Answered(r) == IF Refuses(r) THEN Refusal ELSE Finalise(r.fn, PackLossy(r.c, r.e), r.exact)

InShift == /\ ~Refuses(call) /\ ~Fits(call.c) /\ lossless = FALSE
           /\ \E k \in 0..(D + 1) : Dropped(k)

InRange == /\ ~Refuses(call) /\ call.c # 0
           /\ \E k \in 0..(D + 1) : Dropped(k) /\ Fits(c) /\ lossless = (k = 0)

FewestDropped ==
  /\ pc = "idle" => call = NoCall
  /\ pc # "idle" => call.fn \in {"packLossy", "packLossless", "packArithmeticResult"}
  /\ pc # "done" => result = Pending
  /\ pc = "fit" => ~Refuses(call) /\ c = call.c /\ e = call.e
  /\ pc = "shift" => InShift
  /\ pc = "range" => InRange
  /\ pc = "finish" => float = IF Refuses(call) THEN Refusal ELSE PackLossy(call.c, call.e)
  /\ pc = "done" => result = Answered(call)

(***************************************************************************)
(* Where the loop starts, no digit has been dropped.                       *)
(***************************************************************************)
LEMMA NothingDropped ==
  ASSUME TypeOK, c = call.c, e = call.e
  PROVE  Dropped(0)
<1>1. call.c \in Int /\ call.e \in Exp /\ call.e \in Int
  BY CoefIsInt, Widths DEF TypeOK, Request, Exp, ExpMin
<1>2. Quot(call.c, 1) = call.c
  BY <1>1, QuotByOne
<1>3. WrapExp(call.e + 0) = call.e
  BY <1>1, WrapExpKeepsType
<1>4. Pow10[0] = 1
  BY Pow10Def
<1> QED BY <1>2, <1>3, <1>4 DEF Dropped

(***************************************************************************)
(* The jump drops Jump digits, all of them needed.                         *)
(***************************************************************************)
LEMMA JumpDrops ==
  ASSUME TypeOK, FewestDropped, DropJump
  PROVE  InShift'
<1>1. /\ pc = "fit" /\ UNCHANGED call /\ lossless' = FALSE /\ ~Fits(c)
      /\ c = call.c /\ e = call.e /\ ~Refuses(call)
      /\ c \in Coef /\ e \in Exp
  BY DEF DropJump, Goto, FewestDropped, TypeOK
<1>2. 0 \in 0..(D + 1) /\ Jump \in 0..(D + 1) /\ e \in Int
  BY <1>1, Widths, WidthsAreInts DEF Exp, ExpMin
<1>3. CASE Quot(c, Pow10[PackD + Jump]) # 0
  <2>1. c' = Quot(call.c, Pow10[Jump]) /\ e' = WrapExp(call.e + Jump)
    BY <1>1, <1>3 DEF DropJump
  <2>2. \A j \in 0..(Jump - 1) : ~Fits(Quot(call.c, Pow10[j]))
    BY <1>1, <1>3, JumpIsNeeded
  <2>3. Dropped(Jump)'
    BY <1>1, <2>1, <2>2 DEF Dropped
  <2> QED BY <1>1, <1>2, <2>3 DEF InShift, Refuses
<1>4. CASE Quot(c, Pow10[PackD + Jump]) = 0
  <2>1. UNCHANGED <<c, e>>
    BY <1>4 DEF DropJump
  <2>2. Dropped(0)
    BY <1>1, NothingDropped
  <2>3. Dropped(0)'
    BY <1>1, <2>1, <2>2 DEF Dropped
  <2> QED BY <1>1, <1>2, <2>3 DEF InShift, Refuses
<1> QED BY <1>3, <1>4

(***************************************************************************)
(* A round of the loop drops the next digit.                               *)
(***************************************************************************)
LEMMA DigitDrops ==
  ASSUME TypeOK, FewestDropped, DropDigit
  PROVE  InShift'
<1>1. /\ pc = "shift" /\ UNCHANGED <<call, lossless>> /\ ~Fits(c)
      /\ c' = Quot(c, 10) /\ e' = WrapExp(e + 1)
      /\ InShift /\ call.c \in Coef /\ call.e \in Exp
  BY DEF DropDigit, Goto, FewestDropped, TypeOK, Request
<1>2. PICK k \in 0..(D + 1) : Dropped(k)
  BY <1>1 DEF InShift
<1>3. /\ call.c \in Int /\ call.e \in Int /\ k \in Nat /\ D \in Nat /\ 1 \in 0..(D + 1)
      /\ k + 1 \in 0..(D + 1)
  BY <1>1, <1>2, CoefIsInt, DigitsLeft, Widths, WidthsAreInts DEF Dropped, Exp, ExpMin
<1>4. Pow10[k + 1] = Pow10[k] * 10 /\ Pow10[k] \in Nat /\ Pow10[k] >= 1
  BY <1>3, NextPower
<1>5. c' = Quot(call.c, Pow10[k + 1])
  <2>1. c' = Quot(Quot(call.c, Pow10[k]), 10)
    BY <1>1, <1>2 DEF Dropped
  <2>2. Quot(Quot(call.c, Pow10[k]), 10) = Quot(call.c, Pow10[k] * 10)
    <3>1. 10 \in Nat /\ 10 >= 1
      OBVIOUS
    <3> QED BY <1>3, <1>4, <3>1, QuotTwice, Zenon
  <2> QED BY <1>4, <2>1, <2>2
<1>6. e' = WrapExp(call.e + (k + 1))
  <2>1. call.e + k \in Int /\ (call.e + k) + 1 = call.e + (k + 1)
    BY <1>3
  <2>2. e' = WrapExp(WrapExp(call.e + k) + 1)
    BY <1>1, <1>2 DEF Dropped
  <2>3. WrapExp(WrapExp(call.e + k) + 1) = WrapExp((call.e + k) + 1)
    <3>1. 1 \in Int
      OBVIOUS
    <3> QED BY <2>1, <3>1, WrapTwice, Zenon
  <2> QED BY <2>1, <2>2, <2>3
<1>7. \A j \in 0..((k + 1) - 1) : ~Fits(Quot(call.c, Pow10[j]))
  <2>1. \A j \in 0..((k + 1) - 1) : j \in 0..(k - 1) \/ j = k
    BY <1>3
  <2> QED BY <1>1, <1>2, <2>1 DEF Dropped
<1>8. Dropped(k + 1)'
  BY <1>1, <1>5, <1>6, <1>7 DEF Dropped
<1> QED BY <1>1, <1>3, <1>8 DEF InShift, Refuses

(***************************************************************************)
(* A number that fits has lost exactly the digits it must.                 *)
(***************************************************************************)
LEMMA RangeIsContract ==
  ASSUME TypeOK, InRange
  PROVE  /\ e \in PackExp => PackLossy(call.c, call.e) = Float(c, e, lossless)
         /\ e < PackExpMin /\ e \notin PackExp => PackLossy(call.c, call.e) = Underflow
         /\ ~(e < PackExpMin) /\ e \notin PackExp =>
              PackLossy(call.c, call.e) = Revert("ExponentOverflow")
<1>1. PICK k \in 0..(D + 1) : Dropped(k) /\ Fits(c) /\ lossless = (k = 0)
  BY DEF InRange
<1>2. Drops(call.c, k)
  BY <1>1 DEF Drops, Dropped
<1>3. DigitsToDrop(call.c) = k
  BY <1>2, DropsAreUnique
<1>4. call.c # 0 /\ c = Quot(call.c, Pow10[k]) /\ e = WrapExp(call.e + k)
  BY <1>1 DEF InRange, Dropped
<1>5. e \in PackExp => PackLossy(call.c, call.e) = Float(c, e, k = 0)
  BY <1>3, <1>4, LossyInRange, Zenon
<1>6. Float(c, e, k = 0) = Float(c, e, lossless)
  BY <1>1, Zenon
<1> QED BY <1>3, <1>4, <1>5, <1>6 DEF PackLossy

(***************************************************************************)
(* Which outcomes are not pending.                                         *)
(***************************************************************************)
LEMMA AnswersAreNotPending ==
  ASSUME TypeOK, FewestDropped, pc = "done"
  PROVE  result # Pending
<1>1. Pending.status = "pending"
  BY DEF Pending, Abstract!NoAnswer, Abstract!Revert
<1>2. PackLossy(call.c, call.e).status \in {"ok", "ExponentOverflow"}
  BY DEF PackLossy, FloatZero, Underflow, Float, Revert
<1> DEFINE p == PackLossy(call.c, call.e)
<1>3. "status" \in DOMAIN p
  BY DEF PackLossy, FloatZero, Underflow, Float, Revert
<1> HIDE DEF p
<1>4. Finalise(call.fn, p, call.exact).status # "pending"
  <2>1. [p EXCEPT !.lossless = p.lossless /\ call.exact].status = p.status
    BY <1>3
  <2>2. p.status # "pending"
    BY <1>2 DEF p
  <2>3. \A error : Revert(error).status = error
    BY DEF Revert
  <2> QED BY <2>1, <2>2, <2>3 DEF Finalise
<1>5. Refusal.status # "pending"
  BY DEF Refusal, Revert
<1> QED BY <1>1, <1>4, <1>5 DEF FewestDropped, Answered, p

(***************************************************************************)
(* A call starts with no digit dropped.                                    *)
(***************************************************************************)
LEMMA CallsDropNothing ==
  ASSUME FewestDropped, Calls
  PROVE  FewestDropped'
<1>1. ASSUME NEW fn \in {"packLossy", "packLossless", "packArithmeticResult"},
             NEW coefficient \in Coefficients, NEW exponent \in Exponents,
             CallPack(fn, coefficient, exponent)
      PROVE  FewestDropped'
  BY <1>1 DEF CallPack, Enter, FewestDropped, Refuses
<1>2. ASSUME NEW fn \in {"packLossy", "packLossless"},
             NEW value \in Values, NEW decimals \in Decimals,
             CallFromFixedDecimal(fn, value, decimals)
      PROVE  FewestDropped'
  <2> DEFINE d == FromFixedDecimal(value, decimals)
  <2> HIDE DEF d
  <2>1. /\ pc = "idle" /\ UNCHANGED result
        /\ call' = [fn |-> fn, c |-> d.c, e |-> d.e, exact |-> d.exact]
        /\ c' = d.c /\ e' = d.e
        /\ pc' = IF fn = "packLossless" /\ ~d.exact THEN "finish" ELSE "fit"
        /\ fn = "packLossless" /\ ~d.exact => float' = Revert("LossyConversionToFloat")
    BY <1>2 DEF CallFromFixedDecimal, Enter, d
  <2>2. Refuses(call)' <=> fn = "packLossless" /\ ~d.exact
    BY <2>1 DEF Refuses
  <2> QED BY <2>1, <2>2 DEF FewestDropped, Refusal
<1> QED BY <1>1, <1>2 DEF Calls

(***************************************************************************)
(* What the exponent's test returns is what the contract says.             *)
(***************************************************************************)
LEMMA RangeFollowsContract ==
  ASSUME TypeOK, FewestDropped, ExponentUnderflows \/ ExponentOverflows \/ ExponentFits
  PROVE  FewestDropped'
<1>1. /\ pc = "range" /\ pc' = "finish" /\ UNCHANGED <<call, result>>
      /\ InRange /\ ~Refuses(call) /\ e \in Int
      /\ call.fn \in {"packLossy", "packLossless", "packArithmeticResult"} /\ result = Pending
  BY Widths DEF ExponentUnderflows, ExponentOverflows, ExponentFits, Return, Goto,
                FewestDropped, InRange, TypeOK, Exp, ExpMin
<1>2. PackExpMax \in Nat /\ (e \notin PackExp /\ e < 0 => e < PackExpMin)
        /\ (e \notin PackExp /\ e >= 0 => ~(e < PackExpMin))
  BY <1>1, Widths DEF PackExp, PackExpMin
<1>3. float' = PackLossy(call.c, call.e)
  <2>1. CASE ExponentUnderflows
    BY <1>1, <1>2, <2>1, RangeIsContract DEF ExponentUnderflows, Return
  <2>2. CASE ExponentOverflows
    BY <1>1, <1>2, <2>2, RangeIsContract DEF ExponentOverflows, Return
  <2>3. CASE ExponentFits
    <3>1. e \in PackExp /\ float' = Float(c, e, lossless)
      BY <2>3 DEF ExponentFits, Return
    <3>2. PackLossy(call.c, call.e) = Float(c, e, lossless)
      BY <1>1, <3>1, RangeIsContract
    <3> QED BY <3>1, <3>2, Zenon
  <2> QED BY <2>1, <2>2, <2>3
<1> QED BY <1>1, <1>3 DEF FewestDropped, Refuses

(***************************************************************************)
(* The caller's answer is that of the abstract service.                    *)
(***************************************************************************)
LEMMA FinishAnswers ==
  ASSUME TypeOK, FewestDropped, Finish
  PROVE  /\ FewestDropped'
         /\ result = Pending /\ UNCHANGED call /\ result' = Answered(call)
<1>1. /\ pc = "finish" /\ pc' = "done" /\ UNCHANGED call /\ result = Pending
      /\ result' = Finalise(call.fn, float, call.exact)
      /\ float = IF Refuses(call) THEN Refusal ELSE PackLossy(call.c, call.e)
      /\ call.fn \in {"packLossy", "packLossless", "packArithmeticResult"}
  BY DEF Finish, FewestDropped
<1>2. CASE Refuses(call)
  <2>1. call.exact = FALSE
    BY <1>2 DEF Refuses, TypeOK, Request
  <2>2. Refusal = [status |-> "LossyConversionToFloat", c |-> 0, e |-> 0, lossless |-> FALSE]
    BY DEF Refusal, Revert
  <2>3. Refusal.status # "ok" /\ [Refusal EXCEPT !.lossless = Refusal.lossless /\ call.exact] = Refusal
    <3>1. (Refusal.lossless /\ call.exact) = FALSE
      BY <2>1, Zenon
    <3>2. Refusal.status # "ok" /\ Refusal.lossless = FALSE
      BY <2>2
    <3>3. Refusal = [x \in DOMAIN Refusal |-> Refusal[x]]
      BY <2>2
    <3>4. [Refusal EXCEPT !.lossless = FALSE] = Refusal
      BY <3>2, <3>3
    <3> QED BY <3>1, <3>2, <3>4, Zenon
  <2>4. result' = Refusal
    BY <1>1, <1>2, <2>3 DEF Finalise
  <2> QED BY <1>1, <1>2, <2>4 DEF Answered, FewestDropped
<1>3. CASE ~Refuses(call)
  <2>1. result' = Answered(call)
    BY <1>1, <1>3 DEF Answered
  <2> QED BY <1>1, <2>1 DEF FewestDropped, Answered
<1> QED BY <1>2, <1>3

(***************************************************************************)
(* Every step keeps the invariant.                                         *)
(***************************************************************************)
LEMMA NextDropsFewest == TypeOK /\ FewestDropped /\ [Next]_vars => FewestDropped'
<1> SUFFICES ASSUME TypeOK, FewestDropped, [Next]_vars PROVE FewestDropped'
  OBVIOUS
<1>1. CASE Calls
  BY <1>1, CallsDropNothing
<1>2. CASE PackZero
  <2>1. /\ pc = "fit" /\ pc' = "finish" /\ UNCHANGED <<call, result>> /\ float' = FloatZero
        /\ call.c = 0 /\ ~Refuses(call) /\ result = Pending
        /\ call.fn \in {"packLossy", "packLossless", "packArithmeticResult"}
    BY <1>2 DEF PackZero, Return, Goto, FewestDropped
  <2>2. PackLossy(call.c, call.e) = FloatZero
    BY <2>1 DEF PackLossy
  <2> QED BY <2>1, <2>2 DEF FewestDropped, Refuses
<1>3. CASE AlreadyFits
  <2>1. /\ pc = "fit" /\ pc' = "range" /\ UNCHANGED <<call, result, c, e>> /\ lossless' = TRUE
        /\ c = call.c /\ e = call.e /\ c # 0 /\ Fits(c) /\ ~Refuses(call) /\ result = Pending
        /\ call.fn \in {"packLossy", "packLossless", "packArithmeticResult"}
    BY <1>3 DEF AlreadyFits, Goto, FewestDropped
  <2>2. Dropped(0)
    BY <2>1, NothingDropped
  <2>3. Dropped(0)' /\ 0 \in 0..(D + 1)
    BY <2>1, <2>2, WidthsAreInts DEF Dropped
  <2>4. InRange'
    BY <2>1, <2>3 DEF InRange, Refuses, Fits
  <2> QED BY <2>1, <2>4 DEF FewestDropped
<1>4. CASE DropJump
  <2>1. /\ pc = "fit" /\ pc' = "shift" /\ UNCHANGED <<call, result>> /\ result = Pending
        /\ call.fn \in {"packLossy", "packLossless", "packArithmeticResult"}
    BY <1>4 DEF DropJump, Goto, FewestDropped
  <2> QED BY <1>4, <2>1, JumpDrops DEF FewestDropped
<1>5. CASE DropDigit
  <2>1. /\ pc = "shift" /\ pc' = "shift" /\ UNCHANGED <<call, result>> /\ result = Pending
        /\ call.fn \in {"packLossy", "packLossless", "packArithmeticResult"}
    BY <1>5 DEF DropDigit, Goto, FewestDropped
  <2> QED BY <1>5, <2>1, DigitDrops DEF FewestDropped
<1>6. CASE StopDropping
  <2>1. /\ pc = "shift" /\ pc' = "range" /\ UNCHANGED <<call, result, c, e, lossless>>
        /\ InShift /\ Fits(c) /\ result = Pending
        /\ call.fn \in {"packLossy", "packLossless", "packArithmeticResult"}
    BY <1>6 DEF StopDropping, Goto, FewestDropped
  <2>2. PICK k \in 0..(D + 1) : Dropped(k)
    BY <2>1 DEF InShift
  <2>3. k # 0
    <3>1. CASE k = 0
      <4>1. Quot(call.c, 1) = call.c
        BY CoefIsInt, QuotByOne DEF TypeOK, Request
      <4>2. c = call.c
        BY <2>2, <3>1, <4>1, Pow10Def DEF Dropped
      <4> QED BY <2>1, <4>2 DEF InShift
    <3> QED BY <3>1
  <2>4. call.c # 0 /\ lossless = FALSE
    BY <2>1, DroppingKeepsNonZero DEF InShift, TypeOK, Request
  <2>5. Dropped(k)'
    BY <2>1, <2>2 DEF Dropped
  <2>6. InRange'
    BY <2>1, <2>3, <2>4, <2>5 DEF InRange, InShift, Refuses, Fits
  <2> QED BY <2>1, <2>6 DEF FewestDropped
<1>7. CASE ExponentUnderflows \/ ExponentOverflows \/ ExponentFits
  BY <1>7, RangeFollowsContract
<1>8. CASE Finish
  BY <1>8, FinishAnswers
<1>9. CASE TakeResult
  BY <1>9 DEF TakeResult, FewestDropped
<1>10. CASE UNCHANGED vars
  BY <1>10 DEF vars, FewestDropped, InShift, InRange, Dropped, Refuses, Fits, Answered
<1> QED BY <1>1, <1>2, <1>3, <1>4, <1>5, <1>6, <1>7, <1>8, <1>9, <1>10 DEF Next, Steps

-----------------------------------------------------------------------------
(***************************************************************************)
(* The refinement.                                                         *)
(***************************************************************************)

(***************************************************************************)
(* The abstract service and the code read the same contract.               *)
(***************************************************************************)
LEMMA SameContract ==
  /\ \A x, y : Abstract!PackLossy(x, y) = PackLossy(x, y)
  /\ \A fn, r, exact : Abstract!Finalise(fn, r, exact) = Finalise(fn, r, exact)
  /\ Abstract!Revert("LossyConversionToFloat") = Refusal
  /\ Abstract!Coef = Coef
<1> USE DEF Abstract!Revert, Revert, Abstract!Float, Float
<1>1. \A x, k : Abstract!Drops(x, k) <=> Drops(x, k)
  BY DEF Abstract!Drops, Drops, Abstract!Fits, Fits, Abstract!Quot, Quot, Abstract!Abs, Abs,
         Abstract!Packed, Packed, Abstract!PackMin, PackMin
<1>2. \A x : Abstract!DigitsToDrop(x) = DigitsToDrop(x)
  BY <1>1 DEF Abstract!DigitsToDrop, DigitsToDrop
<1>3. \A x : Abstract!WrapExp(x) = WrapExp(x)
  BY DEF Abstract!WrapExp, WrapExp, Abstract!WrapTo, WrapTo
<1>4. \A x, y : Abstract!Quot(x, y) = Quot(x, y)
  BY DEF Abstract!Quot, Quot, Abstract!Abs, Abs
<1>5. \A x, y : Abstract!PackLossy(x, y) = PackLossy(x, y)
  BY <1>2, <1>3, <1>4
     DEF Abstract!PackLossy, PackLossy, Abstract!FloatZero, FloatZero, Abstract!Underflow, Underflow,
         Abstract!PackExp, PackExp, Abstract!PackExpMin, PackExpMin
<1>6. \A fn, r, exact : Abstract!Finalise(fn, r, exact) = Finalise(fn, r, exact)
  BY DEF Abstract!Finalise, Finalise
<1> QED BY <1>5, <1>6 DEF Refusal, Abstract!Coef, Coef, Abstract!CoefMin, CoefMin

(***************************************************************************)
(* Starting a call is asking.                                              *)
(***************************************************************************)
LEMMA CallsAsk ==
  ASSUME TypeOK, TypeOK', FewestDropped, FewestDropped', Calls
  PROVE  Abstract!Ask
<1>1. pc = "idle" /\ pc' # "idle" /\ UNCHANGED result
  BY DEF Calls, CallPack, CallFromFixedDecimal, Enter
<1>2. /\ call = NoCall
      /\ call'.fn \in {"packLossy", "packLossless", "packArithmeticResult"}
      /\ call' \in Request
  BY <1>1 DEF FewestDropped, TypeOK
<1>3. Exp \subseteq Int
  BY Widths DEF Exp, ExpMin
<1>4. call' \in [fn : {"packLossy", "packLossless", "packArithmeticResult"},
                 c : Coef, e : Int, exact : BOOLEAN]
  BY <1>2, <1>3 DEF Request
<1> QED BY <1>1, <1>2, <1>4, SameContract DEF Abstract!Ask, NoCall

(***************************************************************************)
(* A step of the code asks, answers as the contract says, gives the answer *)
(* away, or is not seen.                                                   *)
(***************************************************************************)
LEMMA StepImplements ==
  TypeOK /\ TypeOK' /\ FewestDropped /\ FewestDropped' /\ [Next]_vars
    => [Abstract!Next]_<<call, result>>
<1> SUFFICES ASSUME TypeOK, TypeOK', FewestDropped, FewestDropped', [Next]_vars
             PROVE  [Abstract!Next]_<<call, result>>
  OBVIOUS
<1>1. CASE Calls
  BY <1>1, CallsAsk DEF Abstract!Next
<1>2. CASE Finish
  <2>1. result = Pending /\ UNCHANGED call /\ result' = Answered(call)
    BY <1>2, FinishAnswers
  <2>2. call # NoCall
    BY <1>2 DEF Finish, FewestDropped, NoCall, Abstract!NoCall
  <2>3. result' = IF call.fn = "packLossless" /\ ~call.exact
                    THEN Abstract!Revert("LossyConversionToFloat")
                    ELSE Abstract!Finalise(call.fn, Abstract!PackLossy(call.c, call.e), call.exact)
    BY <2>1, SameContract DEF Answered, Refuses
  <2>4. Abstract!Answer
    BY <2>1, <2>2, <2>3 DEF Abstract!Answer, NoCall, Pending
  <2> QED BY <2>4 DEF Abstract!Next
<1>3. CASE TakeResult
  <2>1. result # Pending /\ call' = NoCall /\ result' = Pending
    BY <1>3, AnswersAreNotPending DEF TakeResult
  <2> QED BY <2>1 DEF Abstract!Next, Abstract!Take, NoCall, Pending
<1>4. CASE UNCHANGED vars
  BY <1>4 DEF vars
<1>5. CASE Steps /\ ~Finish
  <2>1. UNCHANGED <<call, result>>
    BY <1>5 DEF Steps, PackZero, AlreadyFits, DropJump, DropDigit, StopDropping, ExponentUnderflows,
                ExponentOverflows, ExponentFits, Return, Goto
  <2> QED BY <2>1
<1> QED BY <1>1, <1>2, <1>3, <1>4, <1>5 DEF Next

(***************************************************************************)
(* The safety part of ImplementsContract.                                  *)
(***************************************************************************)
ContractSafety == Abstract!Init /\ [][Abstract!Next]_<<call, result>>

(***************************************************************************)
(* The loop, with its jump and its unchecked exponent, answers every call  *)
(* as the one-step contract does: fewest digits dropped, the exponent      *)
(* raised by as many, underflow and overflow told apart.                   *)
(***************************************************************************)
THEOREM PackingImplementsContract == Spec => ContractSafety
<1>1. Init => FewestDropped
  BY DEF Init, FewestDropped
<1>2. Spec => []FewestDropped
  BY <1>1, NextDropsFewest, TypeCorrect, PTL DEF Spec
<1>3. Init => Abstract!Init
  BY DEF Init, Abstract!Init, NoCall, Pending
<1> QED BY <1>2, <1>3, StepImplements, TypeCorrect, PTL DEF Spec, ContractSafety

-----------------------------------------------------------------------------
(***************************************************************************)
(* One truncation.  The number handed to packLossy is the given one, or    *)
(* the given one without its last digit, and the digits that go after it   *)
(* are those of the contract.                                              *)
(***************************************************************************)
GivenIsCall ==
  pc # "idle" =>
    \/ given[1] = call.c /\ given[2] = call.e
    \/ /\ given[1] \in (CoefMax + 1)..UintMax
       /\ call.c = given[1] \div 10 /\ call.e = given[2] + 1

DigitsExist ==
  pc \in {"finish", "done"} /\ ~Refuses(call) /\ call.c # 0 =>
    \E k \in 0..(D + 1) : Drops(call.c, k)

(***************************************************************************)
(* Every step leaves the argument that of the call, or a digit less of it. *)
(***************************************************************************)
LEMMA GivenStaysTheCall == GivenIsCall /\ [Next]_vars => GivenIsCall'
<1> SUFFICES ASSUME GivenIsCall, [Next]_vars PROVE GivenIsCall'
  OBVIOUS
<1>1. ASSUME NEW fn \in {"packLossy", "packLossless", "packArithmeticResult"},
             NEW coefficient \in Coefficients, NEW exponent \in Exponents,
             CallPack(fn, coefficient, exponent)
      PROVE  GivenIsCall'
  BY <1>1 DEF CallPack, Enter, GivenIsCall
<1>2. ASSUME NEW fn \in {"packLossy", "packLossless"},
             NEW value \in Values, NEW decimals \in Decimals,
             CallFromFixedDecimal(fn, value, decimals)
      PROVE  GivenIsCall'
  <2>1. value \in 0..UintMax /\ decimals \in Nat
    BY InputsAssumption, Widths
  <2>2. /\ given' = <<value, -decimals>>
        /\ call'.c = FromFixedDecimal(value, decimals).c
        /\ call'.e = FromFixedDecimal(value, decimals).e
    BY <1>2 DEF CallFromFixedDecimal, Enter
  <2>3. CASE value > CoefMax
    <3>1. value \in (CoefMax + 1)..UintMax /\ 1 - decimals = -decimals + 1
      BY <2>1, <2>3, Widths
    <3> QED BY <2>2, <2>3, <3>1 DEF GivenIsCall, FromFixedDecimal
  <2>4. CASE ~(value > CoefMax)
    BY <2>2, <2>4 DEF GivenIsCall, FromFixedDecimal
  <2> QED BY <2>3, <2>4
<1>3. CASE Steps
  BY <1>3 DEF Steps, PackZero, AlreadyFits, DropJump, DropDigit, StopDropping, ExponentUnderflows,
              ExponentOverflows, ExponentFits, Return, Goto, Finish, GivenIsCall
<1>4. CASE TakeResult \/ UNCHANGED vars
  BY <1>4 DEF TakeResult, vars, GivenIsCall
<1> QED BY <1>1, <1>2, <1>3, <1>4 DEF Next, Calls

(***************************************************************************)
(* Every step keeps a number of digits to drop, the one the loop has reached. *)
(***************************************************************************)
LEMMA DigitsKeepExisting == FewestDropped /\ DigitsExist /\ [Next]_vars => DigitsExist'
<1> SUFFICES ASSUME FewestDropped, DigitsExist, [Next]_vars PROVE DigitsExist'
  OBVIOUS
<1>1. ASSUME NEW fn \in {"packLossy", "packLossless", "packArithmeticResult"},
             NEW coefficient \in Coefficients, NEW exponent \in Exponents,
             CallPack(fn, coefficient, exponent)
      PROVE  DigitsExist'
  BY <1>1 DEF CallPack, Enter, DigitsExist
<1>2. ASSUME NEW fn \in {"packLossy", "packLossless"},
             NEW value \in Values, NEW decimals \in Decimals,
             CallFromFixedDecimal(fn, value, decimals)
      PROVE  DigitsExist'
  BY <1>2 DEF CallFromFixedDecimal, Enter, DigitsExist, Refuses
<1>3. CASE PackZero
  BY <1>3 DEF PackZero, Return, Goto, DigitsExist, FewestDropped
<1>4. CASE AlreadyFits \/ DropJump \/ DropDigit \/ StopDropping
  BY <1>4 DEF AlreadyFits, DropJump, DropDigit, StopDropping, Goto, DigitsExist
<1>5. CASE ExponentUnderflows \/ ExponentOverflows \/ ExponentFits
  <2>1. InRange /\ UNCHANGED call
    BY <1>5 DEF ExponentUnderflows, ExponentOverflows, ExponentFits, Return, Goto, FewestDropped
  <2>2. PICK k \in 0..(D + 1) : Dropped(k) /\ Fits(c)
    BY <2>1 DEF InRange
  <2>3. Drops(call.c, k)
    BY <2>2 DEF Drops, Dropped
  <2> QED BY <2>1, <2>3 DEF DigitsExist
<1>6. CASE Finish \/ TakeResult \/ UNCHANGED vars
  BY <1>6 DEF Finish, TakeResult, vars, DigitsExist, Refuses
<1> QED BY <1>1, <1>2, <1>3, <1>4, <1>5, <1>6 DEF Next, Calls, Steps

(***************************************************************************)
(* A nonzero float that a finished call returns is the call's coefficient  *)
(* without k digits, and its exponent plus k.                              *)
(***************************************************************************)
LEMMA ResultIsTruncated ==
  ASSUME TypeOK, FewestDropped, DigitsExist, Succeeded, result.c # 0
  PROVE  \E k \in 0..(D + 1) : result.c = Quot(call.c, Pow10[k]) /\ result.e = call.e + k
<1> DEFINE p == PackLossy(call.c, call.e)
<1>1. pc = "done" /\ result.status = "ok" /\ result = Answered(call)
  BY DEF Succeeded, FewestDropped
<1>2. ~Refuses(call)
  BY <1>1 DEF Answered, Refusal, Revert
<1>3. result = Finalise(call.fn, p, call.exact)
  BY <1>1, <1>2 DEF Answered
<1>4. {"status", "c", "e"} \subseteq DOMAIN p
  BY DEF PackLossy, FloatZero, Underflow, Float, Revert
<1> HIDE DEF p
<1>5. p.status = "ok" /\ result.c = p.c /\ result.e = p.e
  <2>1. \A error : Revert(error).status = error /\ Revert(error).c = 0
    BY DEF Revert
  <2>2. CASE result = [p EXCEPT !.lossless = p.lossless /\ call.exact]
    <3>1. result.status = p.status /\ result.c = p.c /\ result.e = p.e
      BY <1>4, <2>2
    <3> QED BY <1>1, <3>1
  <2>3. CASE result # [p EXCEPT !.lossless = p.lossless /\ call.exact]
    BY <1>1, <1>3, <2>1, <2>3 DEF Finalise
  <2> QED BY <2>2, <2>3
<1>6. call.c # 0
  <2>1. FloatZero.c = 0
    BY DEF FloatZero, Float
  <2> QED BY <1>5, <2>1 DEF p, PackLossy
<1>7. PICK k \in 0..(D + 1) : Drops(call.c, k)
  BY <1>1, <1>2, <1>6 DEF DigitsExist
<1>8. DigitsToDrop(call.c) = k
  BY <1>7, DropsAreUnique
<1>9. WrapExp(call.e + k) \in PackExp
  <2>1. Underflow.c = 0 /\ Revert("ExponentOverflow").c = 0
    BY DEF Underflow, Float, Revert
  <2>2. ASSUME WrapExp(call.e + k) \notin PackExp
        PROVE  p \in {Underflow, Revert("ExponentOverflow")}
    BY <1>6, <1>8, <2>2 DEF p, PackLossy
  <2> QED BY <1>5, <2>1, <2>2
<1>10. p.c = Quot(call.c, Pow10[k]) /\ p.e = WrapExp(call.e + k)
  BY <1>6, <1>8, <1>9, LossyInRange DEF p, Float
<1>11. WrapExp(call.e + k) = call.e + k
  BY <1>9, PackedIsNotWrapped DEF TypeOK, Request
<1> QED BY <1>5, <1>10, <1>11

(***************************************************************************)
(* Dropping a digit of a fixed point value, the jump and the digits after  *)
(* it together truncate the given number once, for every width.            *)
(***************************************************************************)
THEOREM PackingTruncatesOnce == Spec => []TruncatesOnce
<1>1. TypeOK /\ FewestDropped /\ DigitsExist /\ GivenIsCall => TruncatesOnce
  <2> SUFFICES ASSUME TypeOK, FewestDropped, DigitsExist, GivenIsCall, Succeeded, result.c # 0
               PROVE  TruncatesOnce
    BY DEF TruncatesOnce
  <2>1. PICK k \in 0..(D + 1) : result.c = Quot(call.c, Pow10[k]) /\ result.e = call.e + k
    BY ResultIsTruncated
  <2>2. call.e \in Int /\ given[1] \in Int /\ given[2] \in Int /\ k \in Int
    BY Widths DEF TypeOK, Request, Exp, ExpMin
  <2>3. pc # "idle"
    BY DEF Succeeded
  <2>4. PICK up \in 0..(D + 1) : up = result.e - given[2] /\ result.c = Quot(given[1], Pow10[up])
    <3>1. CASE given[1] = call.c /\ given[2] = call.e
      <4>1. k = result.e - given[2]
        BY <2>1, <2>2, <3>1
      <4> QED BY <2>1, <3>1, <4>1
    <3>2. CASE /\ given[1] \in (CoefMax + 1)..UintMax
               /\ call.c = given[1] \div 10 /\ call.e = given[2] + 1
      <4>1. k + 1 \in 0..(D + 1) /\ result.c = Quot(given[1], Pow10[k + 1])
        BY <2>1, <3>2, LastDigitGoesFirst
      <4>2. k + 1 = result.e - given[2]
        BY <2>1, <2>2, <3>2
      <4> QED BY <4>1, <4>2
    <3> QED BY <2>3, <3>1, <3>2 DEF GivenIsCall
  <2>5. Pow10[up] \in Nat /\ Pow10[up] >= 1
    BY Pow10Grows, WidthsAreInts
  <2>6. /\ (result.c < 0) = (given[1] < 0)
        /\ Abs(result.c) * Pow10[up] <= Abs(given[1])
        /\ Abs(given[1]) < (Abs(result.c) + 1) * Pow10[up]
    BY <2>2, <2>4, <2>5, QuotTruncates
  <2> QED BY <2>4, <2>6 DEF TruncatesOnce
<1>2. Init => FewestDropped /\ DigitsExist /\ GivenIsCall
  BY DEF Init, FewestDropped, DigitsExist, GivenIsCall
<1>3. Spec => []FewestDropped
  BY <1>2, NextDropsFewest, TypeCorrect, PTL DEF Spec
<1>4. Spec => []DigitsExist
  BY <1>2, <1>3, DigitsKeepExisting, PTL DEF Spec
<1>5. Spec => []GivenIsCall
  BY <1>2, GivenStaysTheCall, PTL DEF Spec
<1> QED BY <1>1, <1>3, <1>4, <1>5, TypeCorrect, PTL
=============================================================================
