----------------------------- MODULE PackFloat -----------------------------
(***************************************************************************)
(* packLossy of LibDecimalFloat, its digit-dropping loop step by step, with *)
(* the functions that end in it: packLossless, packArithmeticResult and    *)
(* the two packing conversions from a fixed point decimal.                 *)
(*                                                                         *)
(* One call runs at a time.  pc is where the call is:                      *)
(*   idle -> fit -> (shift ->) range -> finish -> done -> idle             *)
(***************************************************************************)
EXTENDS PackContract

CONSTANTS
  Coefficients,  \* the coefficients callers hand in, a subset of Coef
  Exponents,     \* the exponents callers hand in, a subset of Exp
  Values,        \* the fixed point values converted, a subset of 0..UintMax
  Decimals       \* their numbers of decimals, type uint8

ASSUME InputsAssumption ==
  /\ Coefficients \subseteq Coef
  /\ Exponents \subseteq Exp
  /\ Values \subseteq 0..UintMax
  /\ Decimals \subseteq 0..ExpMax

VARIABLES
  pc,        \* the position in the code
  given,     \* the number the user asked to pack: any pair of integers
  call,      \* the arguments packLossy was called with, and by whom
  c, e,      \* packLossy's signedCoefficient and exponent
  lossless,  \* packLossy's flag
  float,     \* what packLossy returned to its caller
  result     \* the outcome of the call, once there is one

vars == <<pc, given, call, c, e, lossless, float, result>>

Abstract == INSTANCE PackSpec WITH request <- call, answer <- result
NoCall   == Abstract!NoCall
Pending  == Abstract!NoAnswer

Init == /\ pc = "idle" /\ given = <<0, 0>> /\ call = NoCall
        /\ c = 0 /\ e = 0 /\ lossless = FALSE
        /\ float = Pending /\ result = Pending

Enter(fn, coefficient, exponent, exact) ==
  /\ pc = "idle"
  /\ call' = [fn |-> fn, c |-> coefficient, e |-> exponent, exact |-> exact]
  /\ c' = coefficient /\ e' = exponent
  /\ UNCHANGED <<lossless, result>>

CallPack(fn, coefficient, exponent) ==
  /\ Enter(fn, coefficient, exponent, TRUE)
  /\ pc' = "fit" /\ given' = <<coefficient, exponent>>
  /\ UNCHANGED float

(***************************************************************************)
(* The lossless conversion refuses a number whose last digit was dropped.  *)
(***************************************************************************)
CallFromFixedDecimal(fn, value, decimals) ==
  LET d       == FromFixedDecimal(value, decimals)
      refused == fn = "packLossless" /\ ~d.exact
  IN  /\ Enter(fn, d.c, d.e, d.exact)
      /\ given' = <<value, -decimals>>
      /\ pc' = IF refused THEN "finish" ELSE "fit"
      /\ float' = IF refused THEN Revert("LossyConversionToFloat") ELSE float

(***************************************************************************)
(* The body of packLossy.                                                  *)
(***************************************************************************)
Goto(from, to) == pc = from /\ pc' = to /\ UNCHANGED <<given, call, result>>

Return(from, r) == /\ Goto(from, "finish") /\ float' = r
                   /\ UNCHANGED <<c, e, lossless>>

PackZero == c = 0 /\ Return("fit", FloatZero)

AlreadyFits == /\ c # 0 /\ Fits(c)
               /\ Goto("fit", "range") /\ lossless' = TRUE
               /\ UNCHANGED <<c, e, float>>

(***************************************************************************)
(* Mutants of DropJump: the exponent not raised; the jump taken below 10^72. *)
(***************************************************************************)
DropJumpKeepsExponent ==
  /\ ~Fits(c) /\ Goto("fit", "shift") /\ lossless' = FALSE
  /\ c' = IF Quot(c, Pow10[PackD + Jump]) # 0 THEN Quot(c, Pow10[Jump]) ELSE c
  /\ UNCHANGED <<e, float>>

DropJumpTooEarly ==
  /\ ~Fits(c) /\ Goto("fit", "shift") /\ lossless' = FALSE
  /\ IF Quot(c, Pow10[PackD]) # 0
       THEN c' = Quot(c, Pow10[Jump]) /\ e' = WrapExp(e + Jump) ELSE UNCHANGED <<c, e>>
  /\ UNCHANGED float

DropJump == /\ ~Fits(c)
            /\ Goto("fit", "shift") /\ lossless' = FALSE
            /\ IF Quot(c, Pow10[PackD + Jump]) # 0
                 THEN c' = Quot(c, Pow10[Jump]) /\ e' = WrapExp(e + Jump)
                 ELSE UNCHANGED <<c, e>>
            /\ UNCHANGED float

(***************************************************************************)
(* Mutant of DropDigit: the quotient is not stored.                        *)
(***************************************************************************)
DropDigitNotStored ==
  /\ ~Fits(c) /\ Goto("shift", "shift")
  /\ e' = WrapExp(e + 1) /\ UNCHANGED <<c, lossless, float>>

DropDigit == /\ ~Fits(c)
             /\ Goto("shift", "shift")
             /\ c' = Quot(c, 10) /\ e' = WrapExp(e + 1)
             /\ UNCHANGED <<lossless, float>>

(***************************************************************************)
(* Mutant of StopDropping: the flag decided after the loop.                *)
(***************************************************************************)
StopDroppingSetsFlag ==
  Fits(c) /\ Goto("shift", "range") /\ lossless' = TRUE /\ UNCHANGED <<c, e, float>>

StopDropping == Fits(c) /\ Goto("shift", "range") /\ UNCHANGED <<c, e, lossless, float>>

ExponentUnderflows == e \notin PackExp /\ e < 0 /\ Return("range", Underflow)
ExponentOverflows  == e \notin PackExp /\ e >= 0 /\ Return("range", Revert("ExponentOverflow"))

(***************************************************************************)
(* Mutant of ExponentFits: the exponent checked from above only.           *)
(***************************************************************************)
ExponentFitsBelow == e <= PackExpMax /\ Return("range", Float(c, e, lossless))

ExponentFits == e \in PackExp /\ Return("range", Float(c, e, lossless))

(***************************************************************************)
(* The caller of packLossy turns its answer into its own.                  *)
(***************************************************************************)
Finish == /\ pc = "finish" /\ pc' = "done"
          /\ result' = Finalise(call.fn, float, call.exact)
          /\ UNCHANGED <<given, call, c, e, lossless, float>>

TakeResult == /\ pc = "done" /\ pc' = "idle"
              /\ given' = <<0, 0>> /\ call' = NoCall
              /\ c' = 0 /\ e' = 0 /\ lossless' = FALSE
              /\ float' = Pending /\ result' = Pending

Calls ==
  \/ \E fn \in {"packLossy", "packLossless", "packArithmeticResult"},
        coefficient \in Coefficients, exponent \in Exponents :
        CallPack(fn, coefficient, exponent)
  \/ \E fn \in {"packLossy", "packLossless"}, value \in Values, decimals \in Decimals :
        CallFromFixedDecimal(fn, value, decimals)

Steps == \/ PackZero \/ AlreadyFits \/ DropJump \/ DropDigit \/ StopDropping
         \/ ExponentUnderflows \/ ExponentOverflows \/ ExponentFits \/ Finish

Next == Calls \/ Steps \/ TakeResult

(***************************************************************************)
(* A call is one EVM execution: once entered it runs to its end.           *)
(***************************************************************************)
Spec == Init /\ [][Next]_vars /\ WF_vars(Steps)

-----------------------------------------------------------------------------

Errors  == {"ExponentOverflow", "ExponentUnderflow", "CoefficientOverflow",
            "LossyConversionToFloat"}
Outcome == [status : {"ok", "pending"} \cup Errors,
            c : Packed, e : PackExp, lossless : BOOLEAN]
Request == [fn : {"none", "packLossy", "packLossless", "packArithmeticResult"},
            c : Coef, e : Exp, exact : BOOLEAN]

(***************************************************************************)
(* Every variable keeps its Solidity type, and a finished call has either  *)
(* a packed float or a revert reason.                                      *)
(***************************************************************************)
TypeOK ==
  /\ pc \in {"idle", "fit", "shift", "range", "finish", "done"}
  /\ given \in Int \X Int
  /\ call \in Request
  /\ c \in Coef /\ e \in Exp /\ lossless \in BOOLEAN
  /\ float \in Outcome /\ result \in Outcome

Succeeded == pc = "done" /\ result.status = "ok"

(***************************************************************************)
(* A call that reports no loss returns exactly the number the user meant,  *)
(* through the digit dropped by fromFixedDecimalLossy as well as through   *)
(* packLossy's loop: the flags of the two stages must compose.             *)
(***************************************************************************)
LosslessMeansExact ==
  Succeeded /\ result.lossless => SameNumber(result.c, result.e, given[1], given[2])

(***************************************************************************)
(* packArithmeticResult, the end of every arithmetic operation, returns    *)
(* zero only for zero: it tells an underflow from a truncated coefficient  *)
(* by the returned word alone, which is right only if truncation can never *)
(* produce a zero coefficient.                                             *)
(***************************************************************************)
NoSilentZero ==
  Succeeded /\ call.fn = "packArithmeticResult" /\ result.c = 0 => call.c = 0

(***************************************************************************)
(* Truncating in two stages (fromFixedDecimalLossy's digit, the jump, then *)
(* digit by digit) truncates the number once: the returned float is below  *)
(* the given number by less than one unit of its last place, never above.  *)
(***************************************************************************)
TruncatesOnce ==
  Succeeded /\ result.c # 0 =>
    LET up   == result.e - given[2]
        unit == Pow10[up]
    IN  /\ up \in 0..(D + 1)
        /\ (result.c < 0) = (given[1] < 0)
        /\ Abs(result.c) * unit <= Abs(given[1])
        /\ Abs(given[1]) < (Abs(result.c) + 1) * unit

(***************************************************************************)
(* Why NoSilentZero holds, as an inductive invariant: dropping digits one  *)
(* by one from a coefficient that does not fit, or five at once from one   *)
(* of at least 10^72, never reaches zero, and what leaves the loop fits.   *)
(***************************************************************************)
NeverReachesZero ==
  /\ pc = "fit" => c = call.c
  /\ pc \in {"shift", "range"} => c # 0
  /\ pc = "range" => Fits(c)
  /\ pc = "finish" /\ float.status = "ok" /\ float.c = 0 =>
       call.c = 0 \/ float = Underflow
  /\ NoSilentZero

(***************************************************************************)
(* Every call returns: the loop ends whatever the coefficient.             *)
(***************************************************************************)
CallReturns == call # NoCall ~> pc = "done"

(***************************************************************************)
(* The code implements the one-step contract: fewest digits dropped, the   *)
(* exponent raised by as many, underflow and overflow told apart by the    *)
(* raised exponent, also where several unchecked additions wrap it.        *)
(***************************************************************************)
ImplementsContract == Abstract!Spec
=============================================================================
