---------------------------- MODULE FloatClient ----------------------------
(***************************************************************************)
(* The Rust crate: every method of Float is a call of the contract's       *)
(* bytecode in an in-memory EVM that each thread creates when it first     *)
(* needs it and loses when the thread winds down.                          *)
(*                                                                         *)
(* A method encodes its call (Invoke), borrows the thread's EVM (Enter),   *)
(* lets it run (RunCall, which ends the borrow), and makes a Result of the *)
(* EVM's result (Process).  Threads share nothing, but a thread may call   *)
(* again at any time, also while its thread locals are being destroyed.    *)
(***************************************************************************)
EXTENDS DecimalCalls

CONSTANTS
  Threads,   \* the threads that use the crate
  Natives,   \* those whose thread locals are destroyed: not in WebAssembly
  Methods,   \* thread -> the methods it calls
  TooLong    \* the texts that cost more gas to parse than a system call has

VARIABLES
  pc,     \* thread -> where its call is
  asked,  \* thread -> the method and its arguments
  local,  \* thread -> LOCAL_EVM: "unused", "alive" or "destroyed"
  code,   \* thread -> the addresses of its EVM that have code
  ran,    \* thread -> how the EVM's run ended
  got     \* thread -> the Result of the method

clientVars == <<pc, asked, local, code, ran, got>>

-----------------------------------------------------------------------------

(***************************************************************************)
(* A method: the function of the contract it calls and what it decodes     *)
(* from the function's output.                                             *)
(***************************************************************************)
Method(fn, returns) == [fn |-> fn, returns |-> returns]

FixedMethods == [
  from_fixed_decimal       |-> Method("fromFixedDecimalLossless", "float"),
  to_fixed_decimal         |-> Method("toFixedDecimalLossless", "fixed"),
  from_fixed_decimal_lossy |-> Method("fromFixedDecimalLossy", "floatFlag"),
  to_fixed_decimal_lossy   |-> Method("toFixedDecimalLossy", "fixedFlag")]

ParseMethods == [parse |-> Method("parse", "parsed")]

ExtremeMethods == [
  max_positive_value |-> Method("maxPositiveValue", "float"),
  min_positive_value |-> Method("minPositiveValue", "float"),
  max_negative_value |-> Method("maxNegativeValue", "float"),
  min_negative_value |-> Method("minNegativeValue", "float")]

DefaultMethods == [
  zero |-> Method("zero", "float"),
  format_default_scientific_min |-> Method("FORMAT_DEFAULT_SCIENTIFIC_MIN", "float"),
  format_default_scientific_max |-> Method("FORMAT_DEFAULT_SCIENTIFIC_MAX", "float")]

(***************************************************************************)
(* Solidity's three overloads of format.                                   *)
(***************************************************************************)
FormatMethods == [
  format                 |-> Method("formatDefault", "text"),
  format_with_scientific |-> Method("formatAs", "text"),
  format_with_range      |-> Method("format", "text")]

ComparisonMethods == [
  lt |-> Method("lt", "bool"), eq |-> Method("eq", "bool"), gt |-> Method("gt", "bool")]

InverseMethods == [inv |-> Method("inv", "float"), abs |-> Method("abs", "float")]

BoundMethods == [lte |-> Method("lte", "bool"), gte |-> Method("gte", "bool")]

OperatorMethods == [
  add |-> Method("add", "float"), sub |-> Method("sub", "float"),
  mul |-> Method("mul", "float"), div |-> Method("div", "float")]

RoundingMethods == [
  integer |-> Method("integer", "float"), frac |-> Method("frac", "float"),
  floor   |-> Method("floor", "float")]

(***************************************************************************)
(* Mutant of SelectionMethods: min and max swapped.                        *)
(***************************************************************************)
SelectionMethodsSwapped == [
  min |-> Method("max", "float"), max |-> Method("min", "float"),
  is_zero |-> Method("isZero", "bool")]

SelectionMethods == [
  min |-> Method("min", "float"), max |-> Method("max", "float"),
  is_zero |-> Method("isZero", "bool")]

NegMethods == [neg |-> Method("minus", "float")]

Tables == {FixedMethods, ParseMethods, ExtremeMethods, DefaultMethods, FormatMethods,
           ComparisonMethods, InverseMethods, BoundMethods, OperatorMethods,
           RoundingMethods, SelectionMethods, NegMethods}

Api == [m \in UNION {DOMAIN table : table \in Tables} |->
          (CHOOSE table \in Tables : m \in DOMAIN table)[m]]

(***************************************************************************)
(* A request is a method with arguments of its types.  The two limits of   *)
(* format_with_range are one record.                                       *)
(***************************************************************************)
MethodsOf(t, functions) == {m \in Methods[t] : Api[m].fn \in functions}

Requests(t) ==
  UNION {{<<m>> : m \in MethodsOf(t, Constants)},
         MethodsOf(t, Unary) \X Floats,
         MethodsOf(t, Binary) \X Floats \X Floats,
         MethodsOf(t, ToFixed) \X Floats \X Decimals,
         MethodsOf(t, FromFixed) \X Values \X Decimals,
         MethodsOf(t, {"parse"}) \X Texts,
         MethodsOf(t, {"formatDefault"}) \X Floats,
         MethodsOf(t, {"format"}) \X Floats \X Limits,
         MethodsOf(t, {"formatAs"}) \X Floats \X BOOLEAN}

ASSUME ClientAssumption ==
  /\ Natives \subseteq Threads /\ TooLong \subseteq Texts
  /\ Methods \in [Threads -> SUBSET DOMAIN Api]
  /\ \A t \in Threads : \A m \in Methods[t] : Api[m].fn \in Calls

Encode(request) == [request EXCEPT ![1] = Api[request[1]].fn]

-----------------------------------------------------------------------------

(***************************************************************************)
(* How a run of the EVM ends.  The contract's output is a record, with a   *)
(* selector if it is the parser's refusal; what a revert carries is its    *)
(* error.  An address without code just stops.                             *)
(***************************************************************************)
FloatAddress == "FLOAT_ADDRESS"

Returns(output) == [exit |-> "return", output |-> output]
Reverts(error)  == [exit |-> "revert", error |-> error]
Stops == [exit |-> "stop"]
Halts == [exit |-> "halt"]
NotRun == [exit |-> "none"]

Refused(output) == "selector" \in DOMAIN output
RunsOut(call)   == call[1] = "parse" /\ call[2] \in TooLong

ContractRun(call, result) ==
  CASE RunsOut(call) -> Halts
    [] ~RunsOut(call) /\ (result.status = "ok" \/ Refused(result)) -> Returns(result)
    [] ~RunsOut(call) /\ result.status # "ok" /\ ~Refused(result) -> Reverts(result.status)

(***************************************************************************)
(* DEPLOYED_BYTECODE: the contract, as what it answers to each call.       *)
(***************************************************************************)
Encoded == {Encode(request) : request \in UNION {Requests(t) : t \in Threads}}
Bytecode == [call \in Encoded |-> Result(call)]

SystemCall(addresses, call) ==
  IF FloatAddress \in addresses THEN ContractRun(call, Bytecode[call]) ELSE Stops

(***************************************************************************)
(* The two kinds of Result.  The variants of FloatError carry the name of  *)
(* the contract's error where they have one.                               *)
(***************************************************************************)
Ok(value) == [result |-> "ok", value |-> value]
FloatError(variant, detail) == [result |-> "err", variant |-> variant, detail |-> detail]
NoResult == [result |-> "none"]

(***************************************************************************)
(* The selectors DecimalFloatErrorSelector knows.  The parser's own errors *)
(* are not among them and keep their four bytes.                           *)
(***************************************************************************)
DecimalFloatErrorSelector ==
  {"CoefficientOverflow", "ExponentOverflow", "ExponentUnderflow", "FixedDecimalOverflow",
   "Log10Negative", "Log10Zero", "LossyConversionFromFloat", "NegativeFixedDecimalConversion",
   "WithTargetExponentOverflow"}

TryFromSelector(s) ==
  [known |-> s \in DecimalFloatErrorSelector, selector |-> s]

(***************************************************************************)
(* What the ABI decoder needs to find in an output.                        *)
(***************************************************************************)
Decodes(returns, output) ==
  CASE returns \in {"float", "parsed"} -> {"c", "e"} \subseteq DOMAIN output
    [] returns = "bool"      -> "holds" \in DOMAIN output
    [] returns = "text"      -> "text" \in DOMAIN output
    [] returns = "fixed"     -> "value" \in DOMAIN output
    [] returns = "floatFlag" -> {"c", "e", "lossless"} \subseteq DOMAIN output
    [] returns = "fixedFlag" -> {"value", "lossless"} \subseteq DOMAIN output

FloatOf(output) == [c |-> output.c, e |-> output.e]

(***************************************************************************)
(* Mutant of ParsedFloat: the selector is not looked at.                   *)
(***************************************************************************)
ParsedFloatUnchecked(output) == Ok(FloatOf(output))

(***************************************************************************)
(* parse checks the selector that comes beside the float.                  *)
(***************************************************************************)
ParsedFloat(output) ==
  IF Refused(output)
    THEN FloatError("DecimalFloatSelector", TryFromSelector(output.selector))
    ELSE Ok(FloatOf(output))

Decoded(returns, output) ==
  CASE returns = "parsed"    -> ParsedFloat(output)
    [] returns = "float"     -> Ok(FloatOf(output))
    [] returns = "bool"      -> Ok(output.holds)
    [] returns = "text"      -> Ok(output.text)
    [] returns = "fixed"     -> Ok(output.value)
    [] returns = "floatFlag" -> Ok([float |-> FloatOf(output), lossless |-> output.lossless])
    [] returns = "fixedFlag" -> Ok([value |-> output.value, lossless |-> output.lossless])

ProcessOutput(returns, output) ==
  IF Decodes(returns, output) THEN Decoded(returns, output)
                              ELSE FloatError("AlloySolTypes", returns)

(***************************************************************************)
(* A revert that carries one of the contract's errors keeps it; Solidity's *)
(* own panics are none of them.                                            *)
(***************************************************************************)
ResultOfRun(returns, run) ==
  CASE run.exit = "return" -> ProcessOutput(returns, run.output)
    [] run.exit = "stop"   -> FloatError("UnexpectedSuccess", "Stop")
    [] run.exit = "revert" /\ run.error # "Panic" -> FloatError("DecimalFloat", run.error)
    [] run.exit = "revert" /\ run.error = "Panic" -> FloatError("Revert", run.error)
    [] run.exit = "halt"   -> FloatError("Halt", "OutOfGas")

-----------------------------------------------------------------------------

ClientInit ==
  /\ pc    = [t \in Threads |-> "idle"]
  /\ asked = [t \in Threads |-> <<>>]
  /\ local = [t \in Threads |-> "unused"]
  /\ code  = [t \in Threads |-> {}]
  /\ ran   = [t \in Threads |-> NotRun]
  /\ got   = [t \in Threads |-> NoResult]

Invoke(t, request) ==
  /\ pc[t] = "idle"
  /\ pc' = [pc EXCEPT ![t] = "invoked"]
  /\ asked' = [asked EXCEPT ![t] = request]
  /\ UNCHANGED <<local, code, ran, got>>

(***************************************************************************)
(* Mutants of EnterDestroyed and EnterAlive: with instead of try_with      *)
(* (the thread never answers); an EVM without the contract.                *)
(***************************************************************************)
EnterDestroyedPanics(t) ==
  /\ pc[t] = "invoked" /\ local[t] = "destroyed"
  /\ UNCHANGED clientVars

EnterAliveEmpty(t) ==
  /\ pc[t] = "invoked" /\ local[t] # "destroyed"
  /\ pc' = [pc EXCEPT ![t] = "entered"]
  /\ local' = [local EXCEPT ![t] = "alive"]
  /\ UNCHANGED <<asked, code, ran, got>>

(***************************************************************************)
(* try_with fails if the thread local is gone.                             *)
(***************************************************************************)
EnterDestroyed(t) ==
  /\ pc[t] = "invoked" /\ local[t] = "destroyed"
  /\ pc' = [pc EXCEPT ![t] = "returned"]
  /\ got' = [got EXCEPT ![t] = FloatError("Access", "AccessError")]
  /\ UNCHANGED <<asked, local, code, ran>>

(***************************************************************************)
(* Otherwise it creates the EVM, if this is the thread's first call, with  *)
(* the contract's code in its database, and borrows it.                    *)
(***************************************************************************)
EnterAlive(t) ==
  /\ pc[t] = "invoked" /\ local[t] # "destroyed"
  /\ pc' = [pc EXCEPT ![t] = "entered"]
  /\ local' = [local EXCEPT ![t] = "alive"]
  /\ code' = [code EXCEPT ![t] = IF local[t] = "unused" THEN {FloatAddress} ELSE @]
  /\ UNCHANGED <<asked, ran, got>>

(***************************************************************************)
(* A system call commits nothing to the database.                          *)
(***************************************************************************)
RunCall(t) ==
  /\ pc[t] = "entered"
  /\ pc' = [pc EXCEPT ![t] = "ran"]
  /\ ran' = [ran EXCEPT ![t] = SystemCall(code[t], Encode(asked[t]))]
  /\ UNCHANGED <<asked, local, code, got>>

Process(t) ==
  /\ pc[t] = "ran"
  /\ pc' = [pc EXCEPT ![t] = "returned"]
  /\ got' = [got EXCEPT ![t] = ResultOfRun(Api[asked[t][1]].returns, ran[t])]
  /\ ran' = [ran EXCEPT ![t] = NotRun]
  /\ UNCHANGED <<asked, local, code>>

Take(t) ==
  /\ pc[t] = "returned"
  /\ pc' = [pc EXCEPT ![t] = "idle"]
  /\ asked' = [asked EXCEPT ![t] = <<>>]
  /\ got' = [got EXCEPT ![t] = NoResult]
  /\ UNCHANGED <<local, code, ran>>

(***************************************************************************)
(* A thread that ends destroys its thread locals one by one; destructors   *)
(* of others may still call.  One never used is not there to be destroyed. *)
(***************************************************************************)
DestroyLocal(t) ==
  /\ t \in Natives /\ pc[t] = "idle" /\ local[t] = "alive"
  /\ local' = [local EXCEPT ![t] = "destroyed"]
  /\ code' = [code EXCEPT ![t] = {}]
  /\ UNCHANGED <<pc, asked, ran, got>>

Serve(t) == EnterDestroyed(t) \/ EnterAlive(t) \/ RunCall(t) \/ Process(t)

ClientNext == \E t \in Threads :
  \/ \E request \in Requests(t) : Invoke(t, request)
  \/ EnterDestroyed(t) \/ EnterAlive(t) \/ RunCall(t) \/ Process(t)
  \/ Take(t) \/ DestroyLocal(t)

(***************************************************************************)
(* A running thread is scheduled; nobody has to call.                      *)
(***************************************************************************)
ClientSpec == ClientInit /\ [][ClientNext]_clientVars
              /\ \A t \in Threads : WF_clientVars(Serve(t))
=============================================================================
