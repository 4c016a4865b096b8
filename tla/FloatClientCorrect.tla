------------------------- MODULE FloatClientCorrect -------------------------
(***************************************************************************)
(* What the methods of the crate promise their callers, against exact      *)
(* arithmetic and against the contract they wrap.                          *)
(***************************************************************************)
EXTENDS FloatClient

CONSTANT Watched  \* the thread whose calls are held against the contract

ASSUME WatchedAssumption == Watched \in Threads

Returned(t) == pc[t] = "returned"
method(t)   == asked[t][1]

-----------------------------------------------------------------------------

(***************************************************************************)
(* The contract as a thread sees it: the call is there once a Result of    *)
(* the contract's making is, and the output is what the Result tells.      *)
(***************************************************************************)
FromContract(r) ==
  \/ r.result = "ok"
  \/ r.result = "err" /\ r.variant \in {"DecimalFloat", "Revert", "DecimalFloatSelector"}

(***************************************************************************)
(* The output that was decoded to the value; a lossless conversion does    *)
(* not tell its flag.                                                      *)
(***************************************************************************)
Told(fn, returns, value) ==
  CASE fn = "fromFixedDecimalLossless" -> Float(value.c, value.e, TRUE)
    [] fn # "fromFixedDecimalLossless" /\ returns \in {"float", "parsed"} -> Packs(value)
    [] returns = "bool"      -> Holds(value)
    [] returns = "text"      -> Shows(value)
    [] returns = "fixed"     -> Fixed(value, TRUE)
    [] returns = "floatFlag" -> Float(value.float.c, value.float.e, value.lossless)
    [] returns = "fixedFlag" -> Fixed(value.value, value.lossless)

OutputTold(m, r) ==
  CASE r.result = "ok" -> Told(m.fn, m.returns, r.value)
    [] r.result = "err" /\ r.variant = "DecimalFloatSelector" -> Refuse(r.detail.selector)
    [] r.result = "err" /\ r.variant # "DecimalFloatSelector" -> Fail(r.detail)

Seen(t)     == Returned(t) /\ FromContract(got[t])
CallSeen(t) == IF Seen(t) THEN Encode(asked[t]) ELSE <<"none">>
OutSeen(t)  == IF Seen(t) THEN OutputTold(Api[method(t)], got[t]) ELSE Fail("none")

Contract == INSTANCE StatelessContract WITH
  Asks <- Encoded, Answers <- Bytecode, call <- CallSeen(Watched), out <- OutSeen(Watched)

(***************************************************************************)
(* The crate adds nothing to the contract and takes nothing from it: what  *)
(* a thread is told, values, flags, errors and selectors, is what the      *)
(* contract answers to the call the method stands for, in every thread and *)
(* at every time; nothing of one call shows in the next (evm.rs, lib.rs).  *)
(***************************************************************************)
ImplementsContract == Contract!Spec

-----------------------------------------------------------------------------

(***************************************************************************)
(* The methods no argument can make fail.                                  *)
(***************************************************************************)
Total == {"lt", "eq", "gt", "lte", "gte", "min", "max", "is_zero", "integer", "frac", "floor", "zero",
          "max_positive_value", "min_positive_value", "max_negative_value", "min_negative_value",
          "format_default_scientific_min", "format_default_scientific_max"}

(***************************************************************************)
(* The errors of the plumbing mean what they say: the EVM always has the   *)
(* contract, so an empty success or an output that does not decode never   *)
(* comes; Access comes from a thread that winds down, and from no other; a *)
(* halt only from a text that costs too much; a selector only from parse.  *)
(***************************************************************************)
PlumbingErrorsAreReal == \A t \in Threads :
  Returned(t) /\ got[t].result = "err" =>
    /\ got[t].variant \in {"DecimalFloat", "Revert", "DecimalFloatSelector", "Access", "Halt"}
    /\ got[t].variant = "Access" <=> local[t] = "destroyed"
    /\ got[t].variant = "Halt" => asked[t][2] \in TooLong
    /\ got[t].variant = "DecimalFloatSelector" => Api[method(t)].fn = "parse"

(***************************************************************************)
(* Beside that, no panic of the contract's own comes up, and the methods   *)
(* that no argument can make fail do not fail (evm.rs, error.rs).          *)
(***************************************************************************)
OnlyExpectedErrors ==
  /\ PlumbingErrorsAreReal
  /\ \A t \in Threads : Returned(t) /\ got[t].result = "err" =>
       /\ got[t].variant # "Revert"
       /\ method(t) \in Total => got[t].variant = "Access"

-----------------------------------------------------------------------------

(***************************************************************************)
(* The meaning the methods' names and docs give their values: orders and   *)
(* selections are those of the numbers, sub and div take their arguments   *)
(* in that order, the extremes bound every float.                          *)
(***************************************************************************)
Less(x, y) == LessNumber(x.c, x.e, y.c, y.e)
Same(x, y) == SameNumber(x.c, x.e, y.c, y.e)
Zero       == [c |-> 0, e |-> 0]

OrderMeant(m, x, y, v) ==
  CASE m = "lt" -> v = Less(x, y)
    [] m = "gt" -> v = Less(y, x)
    [] m = "eq" -> v = Same(x, y)
    [] m = "lte" -> v = ~Less(y, x)
    [] m = "gte" -> v = ~Less(x, y)
    [] m = "min" -> v \in {x, y} /\ ~Less(x, v) /\ ~Less(y, v)
    [] m = "max" -> v \in {x, y} /\ ~Less(v, x) /\ ~Less(v, y)
    [] m = "sub" -> Less(v, Zero) = Less(x, y) /\ Less(Zero, v) = Less(y, x)
    [] m = "div" -> Less([c |-> Abs(x.c), e |-> x.e], [c |-> Abs(y.c), e |-> y.e])
                      => Less([c |-> Abs(v.c), e |-> v.e], [c |-> 1, e |-> 0])
    [] OTHER -> TRUE

ExtremeMeant(m, v) ==
  \A x \in PackedFloat :
    CASE m = "max_positive_value" -> ~Less(v, x)
      [] m = "min_negative_value" -> ~Less(x, v)
      [] m = "min_positive_value" -> Less(Zero, v) /\ (Less(Zero, x) => ~Less(x, v))
      [] m = "max_negative_value" -> Less(v, Zero) /\ (Less(x, Zero) => ~Less(v, x))
      [] OTHER -> TRUE

(***************************************************************************)
(* A fixed point value n with d decimals is n * 10^-d; a text is the       *)
(* number it parses to.                                                    *)
(***************************************************************************)
ConversionMeant(m, x, d, v) ==
  CASE m = "from_fixed_decimal" -> SameNumber(v.c, v.e, x, -d)
    [] m = "to_fixed_decimal"   -> SameNumber(v, -d, x.c, x.e)
    [] m = "from_fixed_decimal_lossy" ->
         v.lossless => SameNumber(v.float.c, v.float.e, x, -d)
    [] m = "to_fixed_decimal_lossy" ->
         v.lossless = SameNumber(v.value, -d, x.c, x.e)
    [] OTHER -> TRUE

TextMeant(m, x, v) ==
  CASE m \in {"format", "format_with_range", "format_with_scientific"} ->
         Parse(v).status = "ok" /\ Same(Parse(v), x)
    [] m = "neg" -> x.c = PackMin \/ Same(v, [c |-> -x.c, e |-> x.e])
    [] m = "is_zero" -> v = Same(x, Zero)
    [] OTHER -> TRUE

ValueMeant(request, v) ==
  /\ Len(request) = 1 => ExtremeMeant(request[1], v)
  /\ Len(request) >= 2 => TextMeant(request[1], request[2], v)
  /\ Len(request) = 3 => /\ OrderMeant(request[1], request[2], request[3], v)
                         /\ ConversionMeant(request[1], request[2], request[3], v)

(***************************************************************************)
(* Every method returns what its name and its doc say, whatever the        *)
(* representation of its arguments: the function it calls, the order of    *)
(* the arguments and the fields it decodes all fit (lib.rs).               *)
(***************************************************************************)
MethodsKeepTheirMeaning == \A t \in Threads :
  Returned(t) /\ got[t].result = "ok" => ValueMeant(asked[t], got[t].value)
=============================================================================
