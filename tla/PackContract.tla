---------------------------- MODULE PackContract ----------------------------
(***************************************************************************)
(* What packing a float promises, stated without its loop: the coefficient *)
(* loses exactly as many trailing digits as it must to fit int224, and the *)
(* exponent rises by as many, in unchecked arithmetic.  PackFloat shows    *)
(* that the code's loop, with its jump, computes this.                     *)
(***************************************************************************)
EXTENDS DecimalWidths

Fits(c) == c \in Packed

(***************************************************************************)
(* Mutant of DigitsToDrop: the limit taken for 10^67, not int224.max.      *)
(***************************************************************************)
DigitsToDropTo67(c) == CHOOSE k \in 0..(D + 1) :
  /\ Abs(Quot(c, Pow10[k])) < Pow10[PackD]
  /\ \A j \in 0..(k - 1) : Abs(Quot(c, Pow10[j])) >= Pow10[PackD]

(***************************************************************************)
(* The number of digits packLossy has to drop from coefficient c.          *)
(***************************************************************************)
Drops(c, k) == /\ Fits(Quot(c, Pow10[k]))
               /\ \A j \in 0..(k - 1) : ~Fits(Quot(c, Pow10[j]))
DigitsToDrop(c) == CHOOSE k \in 0..(D + 1) : Drops(c, k)

(***************************************************************************)
(* The outcomes of a call.  Zero is always <<0, 0>> when packed.           *)
(***************************************************************************)
Float(c, e, exact) == [status |-> "ok", c |-> c, e |-> e, lossless |-> exact]
Revert(error)      == [status |-> error, c |-> 0, e |-> 0, lossless |-> FALSE]

FloatZero == Float(0, 0, TRUE)
Underflow == Float(0, 0, FALSE)

(***************************************************************************)
(* packLossy.                                                              *)
(***************************************************************************)
PackLossy(c, e) ==
  LET k      == DigitsToDrop(c)
      raised == WrapExp(e + k)
  IN  IF c = 0 THEN FloatZero
      ELSE CASE raised \in PackExp   -> Float(Quot(c, Pow10[k]), raised, k = 0)
             [] raised < PackExpMin -> Underflow
             [] OTHER -> Revert("ExponentOverflow")

(***************************************************************************)
(* Mutant of Finalise: no test for underflow.                              *)
(***************************************************************************)
FinaliseIgnoresUnderflow(fn, r, exact) ==
  CASE r.status # "ok" \/ r.lossless -> [r EXCEPT !.lossless = @ /\ exact]
    [] r.status = "ok" /\ ~r.lossless ->
         IF fn = "packLossless" THEN Revert("CoefficientOverflow") ELSE r

(***************************************************************************)
(* What a caller of packLossy makes of its result r.  "exact" says whether *)
(* the number handed to packLossy is the one the user asked for.           *)
(***************************************************************************)
Finalise(fn, r, exact) ==
  IF r.status # "ok" \/ r.lossless THEN [r EXCEPT !.lossless = @ /\ exact]
  ELSE CASE fn = "packLossless" -> Revert("CoefficientOverflow")
         [] fn = "packArithmeticResult" /\ r.c = 0 /\ r.e = 0 -> Revert("ExponentUnderflow")
         [] OTHER -> r

PackArithmeticResult(c, e) ==
  Finalise("packArithmeticResult", PackLossy(c, e), TRUE)

(***************************************************************************)
(* Mutant of FromFixedDecimal: the exponent of the value, not of its tenth. *)
(***************************************************************************)
FromFixedDecimalSameExponent(value, decimals) ==
  IF value > CoefMax
    THEN [c |-> value \div 10, e |-> -decimals, exact |-> value % 10 = 0]
    ELSE [c |-> value, e |-> -decimals, exact |-> TRUE]

(***************************************************************************)
(* fromFixedDecimalLossy: a value that would look negative as an int256    *)
(* loses its last digit first.                                             *)
(***************************************************************************)
FromFixedDecimal(value, decimals) ==
  IF value > CoefMax
    THEN [c |-> value \div 10, e |-> 1 - decimals, exact |-> value % 10 = 0]
    ELSE [c |-> value, e |-> -decimals, exact |-> TRUE]

=============================================================================
