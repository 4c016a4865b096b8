----------------------------- MODULE StackFloat -----------------------------
(***************************************************************************)
(* Calls of the stack functions of LibDecimalFloatImplementation with any  *)
(* int256 coefficient and exponent: what a Solidity caller of the internal *)
(* library can hand in, and what pow hands in between its packed ends.     *)
(***************************************************************************)
EXTENDS FloatImplementation

CONSTANTS
  Coefficients,  \* the inputs: a subset of Coef
  Exponents      \* and of Exp

ASSUME StackCallersAssumption == Coefficients \subseteq Coef /\ Exponents \subseteq Exp

VARIABLES
  call,  \* the function and its two numbers, each <<c, e>>
  out    \* what it returned

vars == <<call, out>>

Result(fn, x, y) ==
  CASE fn = "mul"   -> Mul(x[1], x[2], y[1], y[2])
    [] fn = "div"   -> Div(x[1], x[2], y[1], y[2])
    [] fn = "add"   -> Add(x[1], x[2], y[1], y[2])
    [] fn = "sub"   -> Sub(x[1], x[2], y[1], y[2])
    [] fn = "compareRescale" -> CompareRescale(x[1], x[2], y[1], y[2])

Idle == <<"none">>
Init == call = Idle /\ out = MaximizedZero

Call == /\ call = Idle
        /\ \E fn \in {"mul", "div", "add", "sub", "compareRescale"},
              x, y \in Coefficients \X Exponents :
             /\ call' = <<fn, x, y>> /\ out' = Result(fn, x, y)

TakeResult == call # Idle /\ call' = Idle /\ out' = MaximizedZero

Next == Call \/ TakeResult
Spec == Init /\ [][Next]_vars

-----------------------------------------------------------------------------

Done(fn) == call[1] = fn
Returned(fn) == Done(fn) /\ out.status = "ok"
ca == call[2][1]
ea == call[2][2]
cb == call[3][1]
eb == call[3][2]

(***************************************************************************)
(* mul of full 256 bit operands returns the product truncated once, with   *)
(* all the digits an int256 holds: adjustExponent counts neither a digit   *)
(* too few (mulDiv would overflow) nor one too many.                       *)
(***************************************************************************)
StackProductIsTruncated ==
  /\ Done("mul") => out.status # "MulDivOverflow"
  /\ Returned("mul") =>
       /\ Sign(out.c) = Sign(ca) * Sign(cb)
       /\ ca * cb # 0 =>
            /\ CutDigits(Abs(out.c), out.e, Abs(ca * cb), ea + eb)
            /\ IF Abs(ca * cb) > CoefMax THEN Abs(out.c) >= CoefMax \div 10 ELSE out.e = ea + eb

(***************************************************************************)
(* div never scales the dividend so far up that mulDiv overflows, whatever *)
(* digits the divisor has.  div of a dividend with all its digits never    *)
(* returns a wrong quotient while the exponent of the quotient fits: the   *)
(* quotient of the maximized numbers is truncated once, to no less than    *)
(* D - 1 digits unless it is down at the smallest exponents, and only a    *)
(* quotient below ten units of the smallest exponent becomes zero.         *)
(***************************************************************************)
DividendIsFull  == Maximize(ca, ea).full
QuotientInRange == ea - eb <= ExpMax - (D + 1)

StackQuotientIsTruncated ==
  /\ Done("div") => out.status # "MulDivOverflow"
  /\ Returned("div") /\ DividendIsFull /\ QuotientInRange =>
       LET A == Maximize(ca, ea)
           B == Maximize(cb, eb)
       IN  /\ out.c # 0 => /\ CutQuotient(Abs(out.c), out.e, Abs(A.c), Abs(B.c), A.e - B.e)
                           /\ Sign(out.c) = Sign(ca) * Sign(cb)
                           /\ Abs(out.c) >= Pow10[D - 2] \/ out.e <= ExpMin + 1
           /\ out.c = 0 => ca = 0 \/ SmallerNumber(Abs(A.c), A.e - B.e, Abs(B.c), ExpMin + 1)

(***************************************************************************)
(* Sums of full 256 bit operands are within two units of the last place,   *)
(* on the path that divides both operands to make room for the carry too.  *)
(***************************************************************************)
StackSumIsClose ==
  (Returned("add") \/ (Returned("sub") /\ cb # CoefMin)) =>
    LET A == Maximize(ca, ea)
        B == Maximize(IF Done("sub") THEN -cb ELSE cb, eb)
        large == IF B.e > A.e THEN B ELSE A
        small == IF B.e > A.e THEN A ELSE B
        diff  == large.e - small.e
    IN  CASE ca = 0 \/ cb = 0 -> SameNumber(out.c, out.e, A.c + B.c, IF ca = 0 THEN B.e ELSE A.e)
          [] ca # 0 /\ cb # 0 /\ diff > D + 1 -> SameNumber(out.c, out.e, large.c, large.e)
          [] ca # 0 /\ cb # 0 /\ diff <= D + 1 ->
               Abs(large.c * Pow10[diff] + small.c - out.c * Pow10[out.e - small.e])
                 < 2 * Pow10[out.e - small.e]

(***************************************************************************)
(* The rescaled coefficients compare as the numbers do, for exponents so   *)
(* far apart that their difference wraps as well.                          *)
(***************************************************************************)
StackComparisonIsExact ==
  Done("compareRescale") =>
    /\ (out[1] < out[2]) = SmallerNumber(ca, ea, cb, eb)
    /\ (out[1] = out[2]) = SameNumber(ca, ea, cb, eb)
=============================================================================
