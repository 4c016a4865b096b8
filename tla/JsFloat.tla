------------------------------ MODULE JsFloat ------------------------------
(***************************************************************************)
(* The JavaScript API: WebAssembly realms beside the native threads.  Most *)
(* of its methods are the crate's methods of the same name; the others     *)
(* carry a float as the 32 bytes it is, in hex or as a bigint, and take    *)
(* fixed point values as bigints.                                          *)
(***************************************************************************)
EXTENDS FloatClientCorrect

CONSTANTS
  Realms,      \* the threads that are JavaScript realms
  Radix,       \* 16
  FloatBytes,  \* 32
  Bigints,     \* the bigints pages pass, any integers
  Hexes        \* the hex strings pages pass

VARIABLES
  page,   \* realm -> the call its page is waiting for
  shown   \* realm -> what the page gets: a value, an error, a throw or a trap

jsVars == <<page, shown>>

(***************************************************************************)
(* A hex string has a prefix or not, and digits; the digit Radix stands    *)
(* for any character that is none.                                         *)
(***************************************************************************)
Power[n \in Nat] == IF n = 0 THEN 1 ELSE Radix * Power[n - 1]
HexOf(prefix, digits) == [prefix |-> prefix, digits |-> digits]

(***************************************************************************)
(* The crate's methods that pages call under their JavaScript names.  The  *)
(* first two take a bigint, the others what they take in Rust.             *)
(***************************************************************************)
FixedInput    == {"from_fixed_decimal", "from_fixed_decimal_lossy"}
JsConversions == {"to_fixed_decimal", "to_fixed_decimal_lossy"} \cup DOMAIN ParseMethods
JsConstants   == DOMAIN ExtremeMethods \cup DOMAIN DefaultMethods
JsFormats     == DOMAIN FormatMethods
JsComparisons == DOMAIN ComparisonMethods \cup DOMAIN BoundMethods
JsInverses    == DOMAIN InverseMethods
JsOperators   == DOMAIN OperatorMethods
JsParts       == {"frac", "floor"}
JsSelections  == DOMAIN SelectionMethods \cup DOMAIN NegMethods

JsExports == UNION {JsConversions, JsConstants, JsFormats, JsComparisons, JsInverses, JsOperators,
                    JsParts, JsSelections}

ASSUME RealmsAssumption ==
  /\ Realms \subseteq Threads \ Natives
  /\ Radix \in Nat /\ Radix >= 2 /\ FloatBytes \in Nat \ {0}
  /\ Power[2 * FloatBytes] = (2 * PackMax + 2) * (2 * PackExpMax + 2)
  /\ \A h \in Hexes : h = HexOf(h.prefix, h.digits) /\ h.digits \in Seq(0..Radix)
  /\ Bigints \subseteq Int /\ Bigints \cap 0..UintMax \subseteq Values

-----------------------------------------------------------------------------

(***************************************************************************)
(* The float's bytes as one unsigned number: the exponent on top, both     *)
(* parts in two's complement.                                              *)
(***************************************************************************)
Raw(x) == (x.e % (2 * PackExpMax + 2)) * (2 * PackMax + 2) + (x.c % (2 * PackMax + 2))

FromRaw(n) == [c |-> WrapTo(n % (2 * PackMax + 2), PackMax),
               e |-> WrapTo(n \div (2 * PackMax + 2), PackExpMax)]

DigitsOf(n, len) == [i \in 1..len |-> (n \div Power[len - i]) % Radix]
ValueOf(digits)  ==
  LET read[i \in 0..Len(digits)] == IF i = 0 THEN 0 ELSE Radix * read[i - 1] + digits[i]
  IN  read[Len(digits)]
IsHex(digits)    == \A i \in DOMAIN digits : digits[i] < Radix

AsHex(x) == HexOf(TRUE, DigitsOf(Raw(x), 2 * FloatBytes))

FromHex(h) ==
  IF Len(h.digits) = 2 * FloatBytes /\ IsHex(h.digits)
    THEN Ok(FromRaw(ValueOf(h.digits)))
    ELSE FloatError("InvalidHex", "hex")

-----------------------------------------------------------------------------

Throws(error) == [result |-> "throws", error |-> error]
Trap == [result |-> "trap"]

OrThrow(r) == IF r.result = "err" THEN Throws(r.variant) ELSE r

Big(n) == [bigint |-> n]

TryToBigint(x) == Ok(Big(ValueOf(AsHex(x).digits)))

(***************************************************************************)
(* Mutant of EvenDigits: no zero in front.                                 *)
(***************************************************************************)
EvenDigitsUnpadded(digits) == digits

(***************************************************************************)
(* A bigint prints without leading zeros, and bytes have two digits.       *)
(***************************************************************************)
Shortest(n) == CHOOSE len \in 1..(n + 1) : n < Power[len] /\ (len > 1 => n >= Power[len - 1])
EvenDigits(digits) == IF Len(digits) % 2 = 1 THEN <<0>> \o digits ELSE digits

(***************************************************************************)
(* More bytes than a float has make left_padding_from panic.               *)
(***************************************************************************)
PaddedLeft(digits) ==
  CASE Len(digits) % 2 = 1 -> FloatError("AlloyFromHexError", "OddLength")
    [] Len(digits) % 2 = 0 /\ Len(digits) <= 2 * FloatBytes -> Ok(FromRaw(ValueOf(digits)))
    [] Len(digits) % 2 = 0 /\ Len(digits) > 2 * FloatBytes -> Trap

TryFromBigint(n) ==
  IF n < 0 THEN FloatError("AlloyFromHexError", "InvalidHexCharacter")
           ELSE PaddedLeft(EvenDigits(DigitsOf(n, Shortest(n))))

(***************************************************************************)
(* The calls that need no EVM.                                             *)
(***************************************************************************)
WordCalls == {"as_hex", "try_to_bigint", "to_bigint"} \X Floats
HexCalls  == {"from_hex"} \X Hexes
BigCalls  == {"try_from_bigint", "from_bigint"} \X Bigints

WordResult(js) ==
  CASE js[1] = "as_hex"          -> Ok(AsHex(js[2]))
    [] js[1] = "from_hex"        -> FromHex(js[2])
    [] js[1] = "try_to_bigint"   -> TryToBigint(js[2])
    [] js[1] = "to_bigint"       -> OrThrow(TryToBigint(js[2]))
    [] js[1] = "try_from_bigint" -> TryFromBigint(js[2])
    [] js[1] = "from_bigint"     -> OrThrow(TryFromBigint(js[2]))

(***************************************************************************)
(* A bigint becomes a U256 by way of its decimal string.  The lossy        *)
(* conversion throws its errors, the others return them.                   *)
(***************************************************************************)
FixedCalls(t) == (FixedInput \cap Methods[t]) \X Bigints \X Decimals
IsUint(n) == n \in 0..UintMax

AsJs(m, r) == IF m = "from_fixed_decimal_lossy" THEN OrThrow(r) ELSE r

-----------------------------------------------------------------------------

JsInit == /\ ClientInit
          /\ page  = [t \in Realms |-> <<>>]
          /\ shown = [t \in Realms |-> NoResult]

Waits(t) == page[t] = <<>>
Shown(t, js, r) == /\ page' = [page EXCEPT ![t] = js]
                   /\ shown' = [shown EXCEPT ![t] = r]

JsWord(t) == Waits(t) /\ \E js \in WordCalls \cup HexCalls \cup BigCalls :
  Shown(t, js, WordResult(js)) /\ UNCHANGED clientVars

JsRefuse(t) == Waits(t) /\ \E js \in FixedCalls(t) :
  /\ ~IsUint(js[2])
  /\ Shown(t, js, AsJs(js[1], FloatError("AlloyParseError", "U256")))
  /\ UNCHANGED clientVars

JsInvokeFixed(t) == Waits(t) /\ \E js \in FixedCalls(t) :
  IsUint(js[2]) /\ Invoke(t, js) /\ Shown(t, js, NoResult)

JsInvoke(t) == Waits(t) /\ \E request \in Requests(t) :
  request[1] \in JsExports /\ Invoke(t, request) /\ Shown(t, request, NoResult)

JsFinish(t) == Take(t) /\ Shown(t, page[t], AsJs(page[t][1], got[t]))

JsTake(t) == /\ shown[t] # NoResult
             /\ Shown(t, <<>>, NoResult)
             /\ UNCHANGED clientVars

RustCalls(t) ==
  \/ \E request \in Requests(t) : Invoke(t, request) /\ UNCHANGED jsVars
  \/ Take(t) /\ UNCHANGED jsVars
  \/ DestroyLocal(t) /\ UNCHANGED jsVars

JsCalls(t) ==
  JsWord(t) \/ JsRefuse(t) \/ JsInvokeFixed(t) \/ JsInvoke(t) \/ JsFinish(t) \/ JsTake(t)

JsNext == \/ \E t \in Threads \ Realms : RustCalls(t)
          \/ \E t \in Realms : JsCalls(t)
          \/ \E t \in Threads : EnterDestroyed(t) /\ UNCHANGED jsVars
          \/ \E t \in Threads : EnterAlive(t) /\ UNCHANGED jsVars
          \/ \E t \in Threads : RunCall(t) /\ UNCHANGED jsVars
          \/ \E t \in Threads : Process(t) /\ UNCHANGED jsVars

(***************************************************************************)
(* A call runs to its end in the thread that made it: a running thread is  *)
(* scheduled, and a realm does nothing else meanwhile.                     *)
(***************************************************************************)
JsFairness ==
  /\ \A t \in Threads : WF_<<clientVars, jsVars>>(Serve(t) /\ UNCHANGED jsVars)
  /\ \A t \in Realms  : WF_<<clientVars, jsVars>>(JsFinish(t))

JsSpec == JsInit /\ [][JsNext]_<<clientVars, jsVars>> /\ JsFairness

-----------------------------------------------------------------------------

(***************************************************************************)
(* Every call of a thread gets its Result, also while the thread's locals  *)
(* are destroyed, and every page its answer (evm.rs, js_api.rs).           *)
(***************************************************************************)
EveryCallReturns ==
  /\ \A t \in Threads : pc[t] = "invoked" ~> pc[t] = "returned"
  /\ \A t \in Realms  : page[t] # <<>> ~> shown[t] # NoResult

(***************************************************************************)
(* A bigint or a hex string and the float it stands for are one number of  *)
(* 256 bits, read in both directions, and only those numbers are taken: a  *)
(* larger bigint is never cut down to a float, in whatever way it fails; a *)
(* fixed point bigint is taken exactly if it is a uint256, and the float   *)
(* made of it gives it back.  Errors are thrown by the two methods that    *)
(* say so, and never reach a page as values (js_api.rs).                   *)
(***************************************************************************)
BigintIsWord(n, x) == n \in 0..(Power[2 * FloatBytes] - 1) /\ n = Raw(x) /\ FromRaw(n) = x

WordsSurvive(m, x, r) ==
  /\ m \in {"try_from_bigint", "from_bigint"} =>
       CASE x < 0 -> r.result = IF m = "from_bigint" THEN "throws" ELSE "err"
         [] x \in 0..(Power[2 * FloatBytes] - 1) -> r.result = "ok" /\ BigintIsWord(x, r.value)
         [] OTHER -> r.result # "ok"
  /\ m \in {"try_to_bigint", "to_bigint"} =>
       /\ r.result = "ok" /\ BigintIsWord(r.value.bigint, x)
       /\ TryFromBigint(r.value.bigint) = Ok(x)
  /\ m = "as_hex" => FromHex(r.value) = Ok(x) /\ r.value.prefix
  /\ m = "from_hex" =>
       IF r.result = "ok" THEN AsHex(r.value).digits = x.digits
                          ELSE ~IsHex(x.digits) \/ Len(x.digits) # 2 * FloatBytes

FixedSurvives(m, n, d, r) ==
  /\ r.result # "ok" /\ ~IsUint(n) => r = AsJs(m, FloatError("AlloyParseError", "U256"))
  /\ r.result = "err" => m = "from_fixed_decimal"
  /\ r.result = "ok" =>
       LET x    == IF m = "from_fixed_decimal" THEN r.value ELSE r.value.float
           back == ToFixedResult("toFixedDecimalLossy", x, d)
       IN  IsUint(n) /\ (m = "from_fixed_decimal" \/ r.value.lossless => back = Fixed(n, TRUE))

BigintSurvives(js, r) ==
  /\ Len(js) = 2 => WordsSurvive(js[1], js[2], r)
  /\ js[1] \in FixedInput => FixedSurvives(js[1], js[2], js[3], r)

BigintsKeepTheirValue == \A t \in Realms :
  shown[t] # NoResult => BigintSurvives(page[t], shown[t])
=============================================================================
